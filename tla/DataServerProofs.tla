--------------------------- MODULE DataServerProofs ---------------------------
(***************************************************************************)
(* For any number of clients and any memory, segment sizes and burst      *)
(* lengths: the data server keeps every client's segment mapped and apart *)
(* from the others, hands bursts to the simulation thread one at a time   *)
(* and without losing a wake-up, and copies exactly what it was asked to. *)
(***************************************************************************)
EXTENDS DataServer, SequenceTheorems, TLAPS

Segments == [addr : Nat, len : Nat \ {0}, host : Nat]

(* The server works on a request.                                         *)
Busy == spc \in {"handle", "chunk", "dma wait", "reply"}

(* A client waits for its answer.                                         *)
Acking == send_lock \in Clients /\ cpc[send_lock] = "ack"

(* A request has been written and has had no effect yet, or has had it    *)
(* and its client does not know yet.                                      *)
Asked == send_lock \in Clients /\ data_cmd_recieve_resp_lock /\ spc # "reply"
Answered == spc = "reply" \/ ~data_cmd_recieve_resp_lock

Types ==
  /\ spc \in {"sanity", "start", "first", "stall", "handle", "chunk", "dma wait", "reply"}
  /\ send_lock \in Clients \cup {Nobody} /\ cpc \in [Clients -> {"idle", "wake", "ack"}]
  /\ ops \in Nat /\ build \in {"dma", "sim", "F1", "F2"}
  /\ req \in [op : {"none", "ALLOC", "FREE"} \cup Moves, addr : Nat, amt : Nat,
              tail : BOOLEAN, host : Nat]
  /\ mappings \subseteq Segments /\ segs \in [Clients -> SUBSET mappings]

(* server_mut and data_cmd_recieve_resp_lock hand the request over and    *)
(* back: while the server works on it, its client waits.                  *)
Handshake ==
  /\ \A c \in Clients : (cpc[c] = "idle") = (send_lock # c)
  /\ Busy => Acking /\ data_cmd_recieve_resp_lock /\ server_mut
  /\ spc \in {"first", "stall"} /\ ~server_mut => Acking /\ data_cmd_recieve_resp_lock
  /\ ~data_cmd_recieve_resp_lock => Acking /\ spc = "stall" /\ server_mut
  /\ spc \in {"chunk", "dma wait"} => build = "dma" /\ req.op \in Moves

Apart ==
  /\ \A m, n \in mappings : m # n => Span(m) \cap Span(n) = {}
  /\ \A c, d \in Clients : c # d => segs[c] \cap segs[d] = {}

(* A segment that is being allocated or freed belongs to nobody.          *)
InTransit ==
  /\ Asked /\ req.op = "ALLOC" => req.amt > 0
  /\ Answered /\ req.op = "ALLOC" =>
       /\ [addr |-> req.addr, len |-> req.amt, host |-> req.host] \in mappings
       /\ \A c \in Clients : [addr |-> req.addr, len |-> req.amt, host |-> req.host] \notin segs[c]
  /\ Asked /\ req.op = "FREE" =>
       \E m \in mappings : m.addr = req.addr /\ \A c \in Clients : m \notin segs[c]

(* The part of segment g that a copy is about.                            *)
Within(g) == /\ g.addr <= req.addr /\ req.host = g.host
             /\ req.addr + req.amt + (IF req.tail THEN 1 ELSE 0) <= g.addr + g.len

CopiesWithin ==
  send_lock \in Clients /\ req.op \in Moves =>
    req.amt > 0 /\ \E g \in segs[send_lock] : Within(g)

(* A simulation that ended is still at the request that ended it.         *)
Ended == fate \in {"throw", "signal"} => spc \in {"handle", "chunk"}

IInvSegments == /\ Types /\ Handshake /\ Apart /\ InTransit /\ CopiesWithin
                /\ Ended /\ SegmentsMapped

(* The dma_* globals and the port belong to the burst under way.          *)
Transfers ==
  /\ dma \in [valid : BOOLEAN, in_progress : BOOLEAN, write : BOOLEAN, len : Nat,
              ptr : Nat \X Int, fpga : Int]
  /\ dma_wait_lock \in BOOLEAN /\ dma_txprogress \in Nat /\ dma_txlength \in Nat
  /\ port \in [stage : {"idle", "data"}, addr : Int, len : Nat, beats : Nat]
  /\ amt_left \in Nat /\ ptr1 \in Nat \X Int /\ ptr2 \in Int
  /\ dma.valid => spc = "dma wait" /\ dma_wait_lock
  /\ dma.in_progress =>
       /\ dma.valid /\ dma_txlength = dma.len /\ dma_txprogress <= dma.len
       /\ port.len = dma.len /\ port.beats = dma_txprogress /\ port.addr = dma.fpga
  /\ spc = "sanity" => build = "F1"

(* Where the copy is: Off is the offset of its start in the segment, and  *)
(* beat i of it goes between these two places.                            *)
Off == req.addr - SegmentAt(req.addr).addr
Target(i) == <<req.addr + i - 1, <<req.host, Off + i - 1>>>>

(* The beats that have crossed the port are the first ones of the copy,   *)
(* and the server's pointers and the burst under way begin where they end. *)
Copying ==
  /\ moved \in Seq(Int \X (Nat \X Int))
  /\ (Asked \/ Answered) /\ req.op \in Moves => \A i \in 1 .. Len(moved) : moved[i] = Target(i)
  /\ Asked /\ req.op \in Moves /\ spc \notin {"chunk", "dma wait"} => moved = <<>>
  /\ spc = "chunk" => /\ Len(moved) + amt_left = req.amt
                      /\ ptr2 = req.addr + Len(moved)
                      /\ ptr1 = <<req.host, Off + Len(moved)>>
  /\ spc = "dma wait" =>
       /\ dma.ptr = ptr1 /\ dma.fpga = ptr2
       /\ ptr1 = <<req.host, Off + (ptr2 - req.addr)>>
       /\ (ptr2 - req.addr) + dma.len + amt_left = req.amt
       /\ Len(moved) = (ptr2 - req.addr) + (IF ~dma.valid THEN dma.len
                                           ELSE IF dma.in_progress THEN dma_txprogress ELSE 0)
  /\ spc = "reply" /\ req.op \in Moves =>
       Len(moved) = IF build \in {"sim", "F2"} THEN 0 ELSE req.amt
  /\ Alive /\ build # "F2" => junk = {}

IInv == IInvSegments /\ Transfers /\ WakeUpMatched /\ Copying

-----------------------------------------------------------------------------
(* Facts about segments.                                                  *)

(* A segment contains its first address.                                  *)
LEMMA StartsInside == ASSUME NEW m \in Segments PROVE m.addr \in Span(m)
<1>1. m.addr \in Nat /\ m.len \in Nat \ {0}
  BY DEF Segments
<1> QED
  BY <1>1 DEF Span

(* The address of a copy lies in one mapping only, that of the segment.   *)
LEMMA CopyTranslates ==
  ASSUME IInvSegments, send_lock \in Clients, req.op \in Moves
  PROVE  /\ Off \in Int /\ Mapped(req.addr)
         /\ Translate(req.addr) = <<req.host, Off>>
         /\ \E g \in segs[send_lock] : req.addr \in Span(g) /\ Within(g)
<1> USE DEF IInvSegments
<1>1. PICK g \in segs[send_lock] : Within(g)
  BY DEF CopiesWithin
<1>2. g \in mappings /\ g \in Segments /\ req.amt > 0 /\ req.amt \in Nat /\ req.addr \in Nat
  BY DEF Types, CopiesWithin
<1>3. g.addr \in Nat /\ g.len \in Nat /\ req.addr \in Span(g)
  BY <1>1, <1>2 DEF Segments, Within, Span
<1>4. \A m \in mappings : req.addr \in Span(m) => m = g
  BY <1>2, <1>3 DEF Apart
<1>5. (CHOOSE m \in mappings : req.addr \in Span(m)) = g
  BY <1>2, <1>3, <1>4
<1>6. segs[send_lock] \subseteq mappings
  BY DEF Types
<1>7. SegmentAt(req.addr) = g
  BY <1>3, <1>4, <1>6 DEF SegmentAt
<1>8. Translate(req.addr) = <<g.host, req.addr - g.addr>>
  BY <1>5 DEF Translate
<1>9. Off = req.addr - g.addr /\ Off \in Int /\ g.host = req.host
  BY <1>1, <1>2, <1>3, <1>7 DEF Off, Within
<1> QED
  BY <1>1, <1>2, <1>3, <1>8, <1>9 DEF Mapped

(* What a step keeps that touches neither requests nor segments.          *)
LEMMA SegmentFrame ==
  ASSUME IInvSegments, UNCHANGED <<req, send_lock, cpc, segs, mappings, ops, build>>,
         spc' \in {"sanity", "start", "first", "stall", "handle", "chunk", "dma wait", "reply"}
  PROVE  Types' /\ Apart' /\ CopiesWithin' /\ (\A c \in Clients : segs'[c] \subseteq mappings')
<1> USE DEF IInvSegments
<1>1. Types'
  BY DEF Types
<1>2. Apart'
  BY DEF Apart, Span
<1>3. CopiesWithin'
  BY DEF CopiesWithin, Within
<1>4. \A c \in Clients : segs'[c] \subseteq mappings'
  BY DEF Types
<1> QED
  BY <1>1, <1>2, <1>3, <1>4

(* The server's steps that move only itself and the locks.                *)
LEMMA ServerMoves ==
  ASSUME IInvSegments,
         \/ SanityPasses \/ ServerStart \/ ServerFirst \/ ServerWoken \/ ServerMove
         \/ ServerMoveNothing \/ XdmaMove \/ ServerBurst \/ ServerBurstDone \/ ServerMoved
         \/ ServerReply
  PROVE  IInvSegments'
<1> USE DEF IInvSegments
<1>1. UNCHANGED <<req, send_lock, cpc, segs, mappings, ops, build, fate>> /\ Alive
  BY DEF SanityPasses, ServerStart, ServerFirst, ServerWoken, ServerMove, ServerMoveNothing,
         XdmaMove, ServerBurst, ServerBurstDone, ServerMoved, ServerReply, Step, file, client, host
<1>2. \/ /\ spc = "sanity" /\ spc' = "start"
         /\ UNCHANGED <<server_mut, data_cmd_recieve_resp_lock>>
      \/ /\ spc = "start" /\ spc' = "first" /\ ~server_mut /\ server_mut'
         /\ UNCHANGED data_cmd_recieve_resp_lock
      \/ /\ spc \in {"first", "stall"} /\ spc' = "handle" /\ ~server_mut /\ server_mut'
         /\ UNCHANGED data_cmd_recieve_resp_lock
      \/ /\ spc = "handle" /\ spc' \in {"chunk", "reply"} /\ req.op \in Moves
         /\ spc' = "chunk" => build = "dma"
         /\ UNCHANGED <<server_mut, data_cmd_recieve_resp_lock>>
      \/ /\ spc = "chunk" /\ spc' = "dma wait"
         /\ UNCHANGED <<server_mut, data_cmd_recieve_resp_lock>>
      \/ /\ spc = "dma wait" /\ spc' = "chunk"
         /\ UNCHANGED <<server_mut, data_cmd_recieve_resp_lock>>
      \/ /\ spc = "chunk" /\ spc' = "reply"
         /\ UNCHANGED <<server_mut, data_cmd_recieve_resp_lock>>
      \/ /\ spc = "reply" /\ spc' = "stall" /\ ~data_cmd_recieve_resp_lock'
         /\ UNCHANGED server_mut
  BY DEF SanityPasses, ServerStart, ServerFirst, ServerWoken, ServerMove, ServerMoveNothing,
         XdmaMove, ServerBurst, ServerBurstDone, ServerMoved, ServerReply, Step, file
<1>3. Types' /\ Apart' /\ CopiesWithin' /\ (\A c \in Clients : segs'[c] \subseteq mappings')
  BY <1>1, <1>2, SegmentFrame
<1>4. Handshake'
  BY <1>1, <1>2 DEF Handshake, Busy, Acking, Types
<1>5. InTransit'
  <2>1. spc \in {"chunk", "dma wait"} => req.op \in Moves
    BY DEF Handshake
  <2> QED
    BY <1>1, <1>2, <2>1 DEF InTransit, Asked, Answered, Moves, Handshake, Busy, Acking
<1>6. Ended' /\ SegmentsMapped'
  BY <1>1, <1>3 DEF Ended, SegmentsMapped, Alive, Apart
<1> QED
  BY <1>3, <1>4, <1>5, <1>6

(* The process ends: with an exception or a signal only for a copy that   *)
(* starts inside its segment or, with DMA, is no whole number of beats.   *)
LEMMA Endings ==
  ASSUME IInvSegments, SanityFails \/ ServerThrows \/ XdmaFails \/ ServerDivides \/ DmaMismatch
  PROVE  IInvSegments'
<1> USE DEF IInvSegments
<1>1. UNCHANGED <<req, send_lock, cpc, segs, mappings, ops, build, spc, server_mut,
                  data_cmd_recieve_resp_lock>> /\ Alive
  BY DEF SanityFails, ServerThrows, XdmaFails, ServerDivides, DmaMismatch, End, file, server, client
<1>2. \/ fate' \in {"sanity", "exit"}
      \/ fate' = "throw" /\ ServerThrows
      \/ fate' = "signal" /\ ServerDivides
  BY DEF SanityFails, ServerThrows, XdmaFails, ServerDivides, DmaMismatch, End
<1>3. Types' /\ Apart' /\ CopiesWithin' /\ (\A c \in Clients : segs'[c] \subseteq mappings')
  BY <1>1, SegmentFrame DEF Types
<1>4. Handshake'
  BY <1>1 DEF Handshake, Busy, Acking
<1>5. InTransit'
  BY <1>1 DEF InTransit, Asked, Answered
<1>6. Ended'
  BY <1>1, <1>2 DEF Ended, ServerThrows, ServerDivides
<1>7. ASSUME fate' \in {"throw", "signal"}
      PROVE  /\ build \in {"dma", "sim"}
             /\ \E g \in segs[send_lock] :
                  req.addr \in Span(g) /\ (req.addr # g.addr \/ (build = "dma" /\ req.tail))
  <2>1. CASE fate' = "throw" /\ ServerThrows
    <3>1. spc = "handle" /\ \A m \in mappings : m.addr # req.addr
      BY <2>1 DEF ServerThrows, MappingAt
    <3>2. send_lock \in Clients /\ Asked
      BY <3>1 DEF Handshake, Busy, Acking, Asked
    <3>3. req.op # "FREE"
      BY <3>1, <3>2 DEF InTransit
    <3>4. req.op \in Moves /\ build \in {"dma", "sim"}
      BY <2>1, <3>3 DEF ServerThrows
    <3>5. PICK g \in segs[send_lock] : req.addr \in Span(g) /\ Within(g)
      BY <3>2, <3>4, CopyTranslates
    <3>6. g \in mappings
      BY <3>2 DEF Types
    <3> QED
      BY <3>1, <3>4, <3>5, <3>6
  <2>2. CASE fate' = "signal" /\ ServerDivides
    <3>1. spc = "chunk" /\ req.tail
      BY <2>2 DEF ServerDivides
    <3>2. send_lock \in Clients /\ req.op \in Moves /\ build = "dma"
      BY <3>1 DEF Handshake, Busy, Acking
    <3> QED
      BY <3>1, <3>2, CopyTranslates
  <2> QED
    BY <1>2, <1>7, <2>1, <2>2
<1>8. SegmentsMapped'
  <2>1. fate' \in {"throw", "signal"} =>
          /\ build' \in {"dma", "sim"}
          /\ \E g \in segs'[send_lock'] :
               req'.addr \in Span(g)' /\ (req'.addr # g.addr \/ (build' = "dma" /\ req'.tail))
    BY <1>1, <1>7 DEF Span
  <2> QED
    BY <1>3, <2>1 DEF SegmentsMapped, Apart
<1> QED
  BY <1>3, <1>4, <1>5, <1>6, <1>8

(* A new segment overlaps no mapping and belongs to nobody yet.           *)
LEMMA AllocStep == ASSUME IInvSegments, ServerAlloc
                   PROVE  IInvSegments'
<1> USE DEF IInvSegments
<1>1. /\ spc = "handle" /\ spc' = "reply" /\ req.op = "ALLOC" /\ Alive
      /\ UNCHANGED <<server_mut, data_cmd_recieve_resp_lock, send_lock, cpc, segs, ops, build, fate>>
  BY DEF ServerAlloc, Step, client, host
<1>2. PICK a \in Places(req.amt) :
        /\ mappings' = mappings \cup {[addr |-> a, len |-> req.amt, host |-> req.host]}
        /\ req' = [req EXCEPT !.addr = a]
  BY DEF ServerAlloc
<1> DEFINE new == [addr |-> a, len |-> req.amt, host |-> req.host]
<1>3. Asked /\ send_lock \in Clients
  BY <1>1 DEF Asked, Handshake, Busy, Acking
<1>4. a \in Nat /\ req.amt \in Nat \ {0} /\ req.host \in Nat
  BY <1>1, <1>3, DataAssumption DEF Places, InTransit, Types
<1>5. new \in Segments /\ new.addr = a /\ new.len = req.amt /\ Span(new) = a .. a + req.amt - 1
  BY <1>4 DEF Segments, Span
<1>6. \A m \in mappings : Span(m) \cap Span(new) = {}
  BY <1>5 DEF Places
<1>7. a \in Span(new) /\ new \notin mappings
  <2>1. a \in Span(new)
    BY <1>4, <1>5
  <2> QED
    BY <1>6, <2>1
<1>8. /\ req'.op = req.op /\ req'.addr = a /\ req'.amt = req.amt /\ req'.host = req.host
      /\ req' \in [op : {"none", "ALLOC", "FREE"} \cup Moves, addr : Nat, amt : Nat,
                   tail : BOOLEAN, host : Nat]
  BY <1>2, <1>4 DEF Types
<1> HIDE DEF new
<1>9. mappings' = mappings \cup {new} /\ \A c \in Clients : segs[c] \subseteq mappings
  BY <1>2 DEF new, Types
<1>10. Types'
  <2>1. mappings' \subseteq Segments /\ segs' \in [Clients -> SUBSET mappings']
    BY <1>1, <1>5, <1>9 DEF Types
  <2> QED
    BY <1>1, <1>8, <2>1 DEF Types
<1>11. Handshake'
  BY <1>1 DEF Handshake, Busy, Acking
<1>12. Apart'
  BY <1>1, <1>6, <1>9 DEF Apart, Span
<1>13. InTransit'
  <2>1. [addr |-> req'.addr, len |-> req'.amt, host |-> req'.host] = new
    BY <1>8 DEF new
  <2>2. \A c \in Clients : new \notin segs[c]
    BY <1>7, <1>9
  <2> QED
    BY <1>1, <1>8, <1>9, <2>1, <2>2 DEF InTransit, Asked
<1>14. CopiesWithin' /\ Ended'
  BY <1>1, <1>8 DEF CopiesWithin, Ended, Moves, Alive
<1>15. SegmentsMapped'
  BY <1>1, <1>9, <1>12 DEF SegmentsMapped, Apart, Alive
<1> QED
  BY <1>10, <1>11, <1>12, <1>13, <1>14, <1>15

(* Freeing unmaps one segment, which its client gave up before.           *)
LEMMA FreeStep == ASSUME IInvSegments, ServerFree
                  PROVE  IInvSegments'
<1> USE DEF IInvSegments
<1>1. /\ spc = "handle" /\ spc' = "reply" /\ req.op = "FREE" /\ Alive
      /\ mappings' = mappings \ MappingAt(req.addr)
      /\ UNCHANGED <<req, server_mut, data_cmd_recieve_resp_lock, send_lock, cpc, segs, ops,
                     build, fate>>
  BY DEF ServerFree, Step, file, client, host
<1>2. Asked
  BY <1>1 DEF Asked, Handshake, Busy, Acking
<1>3. PICK m \in mappings : m.addr = req.addr /\ \A c \in Clients : m \notin segs[c]
  BY <1>1, <1>2 DEF InTransit
<1>4. \A n \in mappings : n.addr = req.addr => n = m
  <2> SUFFICES ASSUME NEW n \in mappings, n.addr = req.addr PROVE n = m
    OBVIOUS
  <2>1. req.addr \in Span(m) /\ req.addr \in Span(n)
    <3>1. m \in Segments /\ n \in Segments
      BY DEF Types
    <3>2. m.addr \in Span(m) /\ n.addr \in Span(n)
      BY <3>1, StartsInside
    <3> QED
      BY <1>3, <3>2
  <2> QED
    BY <2>1 DEF Apart
<1>5. \A c \in Clients : segs[c] \subseteq mappings'
  BY <1>1, <1>3, <1>4 DEF Types, MappingAt
<1>6. Types'
  <2>1. mappings' \subseteq Segments /\ segs' \in [Clients -> SUBSET mappings']
    BY <1>1, <1>5 DEF Types
  <2> QED
    BY <1>1, <2>1 DEF Types
<1>7. Handshake'
  BY <1>1 DEF Handshake, Busy, Acking
<1>8. Apart'
  BY <1>1 DEF Apart, Span
<1>9. InTransit' /\ CopiesWithin' /\ Ended'
  BY <1>1 DEF InTransit, Asked, Answered, CopiesWithin, Ended, Moves, Alive
<1>10. SegmentsMapped'
  BY <1>1, <1>5, <1>8 DEF SegmentsMapped, Apart, Alive
<1> QED
  BY <1>6, <1>7, <1>8, <1>9, <1>10

(* A client writes a request: one that the server is able to serve.       *)
LEMMA WriteStep == ASSUME IInvSegments, NEW c \in Clients, ClientWrite(c)
                   PROVE  IInvSegments'
<1> USE DEF IInvSegments
<1>1. /\ send_lock = Nobody /\ cpc[c] = "idle"
      /\ send_lock' = c /\ ops' = ops + 1 /\ cpc' = [cpc EXCEPT ![c] = "wake"]
      /\ UNCHANGED <<server_mut, data_cmd_recieve_resp_lock, spc, mappings, build, fate>>
  BY DEF ClientWrite, server, host
<1>2. PICK q \in Requests(c) :
        /\ req' = q
        /\ segs' = IF q.op = "FREE"
                   THEN [segs EXCEPT ![c] = {s \in @ : s.addr # q.addr}] ELSE segs
  BY DEF ClientWrite
<1>3. ~Busy /\ data_cmd_recieve_resp_lock /\ (spc \in {"first", "stall"} => server_mut)
      /\ spc \in {"sanity", "start", "first", "stall"} /\ fate \notin {"throw", "signal"}
  BY <1>1, DataAssumption DEF Handshake, Busy, Acking, Types, Nobody, Ended
<1>4. \/ q.op = "ALLOC" /\ q.addr = 0 /\ q.amt \in Nat \ {0} /\ q.tail = FALSE /\ q.host = ops + 1
         /\ q = [op |-> "ALLOC", addr |-> 0, amt |-> q.amt, tail |-> FALSE, host |-> ops + 1]
      \/ \E g \in segs[c] :
           q = [op |-> "FREE", addr |-> g.addr, amt |-> 0, tail |-> FALSE, host |-> g.host]
      \/ \E g \in segs[c] :
           /\ q \in [op : Moves, addr : {g.addr + k : k \in 0 .. MaxOffset},
                     amt : Sizes, tail : BOOLEAN, host : {g.host}]
           /\ q.addr + q.amt + (IF q.tail THEN 1 ELSE 0) <= g.addr + g.len
  BY DataAssumption DEF Requests
<1>5. ops \in Nat /\ \A g \in segs[c] : g.addr \in Nat /\ g.host \in Nat /\ g.len \in Nat
  <2>1. ops \in Nat /\ segs[c] \subseteq Segments
    BY DEF Types
  <2> QED
    BY <2>1 DEF Segments
<1>6. q \in [op : {"none", "ALLOC", "FREE"} \cup Moves, addr : Nat, amt : Nat,
             tail : BOOLEAN, host : Nat]
  <2>1. ASSUME NEW n \in Nat, NEW k \in Nat,
               q = [op |-> "ALLOC", addr |-> 0, amt |-> n, tail |-> FALSE, host |-> k]
        PROVE  q \in [op : {"none", "ALLOC", "FREE"} \cup Moves, addr : Nat, amt : Nat,
                      tail : BOOLEAN, host : Nat]
    BY <2>1
  <2>2. ASSUME NEW g \in segs[c],
               q = [op |-> "FREE", addr |-> g.addr, amt |-> 0, tail |-> FALSE, host |-> g.host]
        PROVE  q \in [op : {"none", "ALLOC", "FREE"} \cup Moves, addr : Nat, amt : Nat,
                      tail : BOOLEAN, host : Nat]
    BY <1>5, <2>2
  <2>3. ASSUME NEW g \in segs[c],
               q \in [op : Moves, addr : {g.addr + k : k \in 0 .. MaxOffset},
                      amt : Sizes, tail : BOOLEAN, host : {g.host}]
        PROVE  q \in [op : {"none", "ALLOC", "FREE"} \cup Moves, addr : Nat, amt : Nat,
                      tail : BOOLEAN, host : Nat]
    <3>1. {g.addr + k : k \in 0 .. MaxOffset} \subseteq Nat
      BY <1>5, DataAssumption
    <3>2. Sizes \subseteq Nat /\ {g.host} \subseteq Nat
      BY <1>5, DataAssumption
    <3> QED
      BY <2>3, <3>1, <3>2
  <2>4. ops + 1 \in Nat
    BY <1>5
  <2> QED
    BY <1>4, <2>1, <2>2, <2>3, <2>4
<1>7. \A d \in Clients : segs'[d] \subseteq segs[d] /\ segs'[d] \subseteq mappings
  BY <1>2 DEF Types
<1>8. Types'
  <2>1. segs' \in [Clients -> SUBSET mappings]
    BY <1>2 DEF Types
  <2>2. ops' \in Nat
    BY <1>1, <1>5
  <2>3. cpc' \in [Clients -> {"idle", "wake", "ack"}] /\ send_lock' \in Clients
    BY <1>1 DEF Types
  <2> QED
    BY <1>1, <1>2, <1>6, <2>1, <2>2, <2>3 DEF Types
<1>9. Handshake'
  <2>1. \A d \in Clients : (cpc'[d] = "idle") = (send_lock' # d)
    <3>1. cpc' = [cpc EXCEPT ![c] = "wake"] /\ cpc \in [Clients -> {"idle", "wake", "ack"}]
      BY <1>1 DEF Types
    <3>2. \A d \in Clients : (cpc[d] = "idle") = (send_lock # d)
      BY DEF Handshake
    <3>3. \A d \in Clients : send_lock # d
      BY <1>1, DataAssumption DEF Nobody
    <3>4. \A d \in Clients : cpc[d] = "idle"
      BY <3>2, <3>3
    <3>5. ASSUME NEW d \in Clients, d # c PROVE cpc'[d] = "idle"
      BY <3>1, <3>4, <3>5
    <3>6. cpc'[c] # "idle"
      BY <3>1
    <3> QED
      BY <1>1, <3>5, <3>6
  <2> QED
    BY <1>1, <1>3, <2>1 DEF Handshake, Busy, Acking
<1>10. Apart'
  BY <1>1, <1>7 DEF Apart, Span
<1>11. InTransit'
  <2>1. ~Answered'
    BY <1>1, <1>3 DEF Answered, Busy
  <2>2. req'.op = "ALLOC" => req'.amt > 0
    BY <1>2, <1>4 DEF Moves
  <2>3. req'.op = "FREE" => \E m \in mappings : m.addr = req'.addr /\ \A d \in Clients : m \notin segs'[d]
    <3> SUFFICES ASSUME q.op = "FREE"
                 PROVE  \E m \in mappings : m.addr = q.addr /\ \A d \in Clients : m \notin segs'[d]
      BY <1>2
    <3>1. PICK g \in segs[c] : q.addr = g.addr
      BY <1>4 DEF Moves
    <3>2. g \in mappings /\ segs' = [segs EXCEPT ![c] = {s \in @ : s.addr # q.addr}]
      BY <1>2 DEF Types
    <3>3. \A d \in Clients : g \notin segs'[d]
      BY <3>1, <3>2 DEF Types, Apart
    <3> QED
      BY <3>1, <3>2, <3>3
  <2> QED
    BY <1>1, <2>1, <2>2, <2>3 DEF InTransit
<1>12. CopiesWithin'
  <2> SUFFICES ASSUME q.op \in Moves
               PROVE  q.amt > 0 /\ \E g \in segs'[c] :
                        /\ g.addr <= q.addr /\ q.host = g.host
                        /\ q.addr + q.amt + (IF q.tail THEN 1 ELSE 0) <= g.addr + g.len
    BY <1>1, <1>2 DEF CopiesWithin, Within
  <2>1. PICK g \in segs[c] :
           /\ q \in [op : Moves, addr : {g.addr + k : k \in 0 .. MaxOffset},
                     amt : Sizes, tail : BOOLEAN, host : {g.host}]
           /\ q.addr + q.amt + (IF q.tail THEN 1 ELSE 0) <= g.addr + g.len
    BY <1>4 DEF Moves
  <2>2. segs' = segs
    BY <1>2 DEF Moves
  <2>3. q.amt > 0 /\ q.host = g.host /\ q.addr \in {g.addr + k : k \in 0 .. MaxOffset}
    BY <2>1, DataAssumption
  <2>4. g.addr <= q.addr
    BY <1>5, <2>3, DataAssumption
  <2> QED
    BY <2>1, <2>2, <2>3, <2>4
<1>13. Ended' /\ SegmentsMapped'
  BY <1>1, <1>3, <1>7, <1>10 DEF Ended, SegmentsMapped, Apart
<1> QED
  BY <1>8, <1>9, <1>10, <1>11, <1>12, <1>13

(* A client opens server_mut for its request.                             *)
LEMMA WakeStep == ASSUME IInvSegments, NEW c \in Clients, ClientWake(c)
                  PROVE  IInvSegments'
<1> USE DEF IInvSegments
<1>1. /\ cpc[c] = "wake" /\ cpc' = [cpc EXCEPT ![c] = "ack"] /\ ~server_mut'
      /\ UNCHANGED <<req, data_cmd_recieve_resp_lock, spc, mappings, send_lock, segs, ops, build, fate>>
  BY DEF ClientWake, server, host
<1>2. send_lock = c /\ ~Acking /\ ~Busy /\ data_cmd_recieve_resp_lock
  BY <1>1 DEF Handshake, Types, Acking
<1>3. Types'
  BY <1>1 DEF Types
<1>4. Handshake'
  BY <1>1, <1>2, DataAssumption DEF Handshake, Types, Busy, Acking, Nobody
<1>5. Apart' /\ InTransit' /\ CopiesWithin' /\ Ended'
  BY <1>1 DEF Apart, Span, InTransit, Asked, Answered, CopiesWithin, Within, Ended
<1>6. SegmentsMapped'
  BY <1>1 DEF SegmentsMapped, Span
<1> QED
  BY <1>3, <1>4, <1>5, <1>6

(* A client takes its answer, and with it the segment it allocated.       *)
LEMMA AckStep == ASSUME IInvSegments, NEW c \in Clients, ClientAck(c)
                 PROVE  IInvSegments'
<1> USE DEF IInvSegments
<1> DEFINE new == [addr |-> req.addr, len |-> req.amt, host |-> req.host]
<1>1. /\ cpc[c] = "ack" /\ cpc' = [cpc EXCEPT ![c] = "idle"] /\ send_lock' = Nobody
      /\ ~data_cmd_recieve_resp_lock /\ data_cmd_recieve_resp_lock'
      /\ segs' = IF req.op = "ALLOC" THEN [segs EXCEPT ![c] = @ \cup {new}] ELSE segs
      /\ UNCHANGED <<req, server_mut, spc, mappings, ops, build, fate>>
  BY DEF ClientAck, server, host
<1>2. send_lock = c /\ ~Busy /\ spc = "stall" /\ server_mut /\ Answered
      /\ fate \notin {"throw", "signal"}
  BY <1>1 DEF Handshake, Types, Busy, Answered, Ended
<1>3. req.op = "ALLOC" => new \in mappings /\ \A d \in Clients : new \notin segs[d]
  BY <1>2 DEF InTransit
<1> HIDE DEF new
<1>4. segs' \in [Clients -> SUBSET mappings]
  BY <1>1, <1>3 DEF Types
<1>5. Types'
  BY <1>1, <1>4 DEF Types
<1>6. Handshake'
  <2>1. \A d \in Clients : (cpc'[d] = "idle") = (send_lock' # d)
    BY <1>1, <1>2, DataAssumption DEF Handshake, Types, Nobody
  <2> QED
    BY <1>1, <1>2, <2>1 DEF Handshake, Busy
<1>7. Apart'
  <2>1. ASSUME NEW d \in Clients, NEW e \in Clients, d # e
        PROVE  segs'[d] \cap segs'[e] = {}
    <3>1. segs[d] \cap segs[e] = {}
      BY <2>1 DEF Apart
    <3>2. CASE req.op # "ALLOC"
      BY <1>1, <3>1, <3>2
    <3>3. CASE req.op = "ALLOC"
      <4>1. segs' = [segs EXCEPT ![c] = @ \cup {new}] /\ segs \in [Clients -> SUBSET mappings]
        BY <1>1, <3>3 DEF Types
      <4>2. new \notin segs[d] /\ new \notin segs[e]
        BY <1>3, <3>3
      <4>3. CASE d = c
        <5>1. segs'[d] = segs[d] \cup {new} /\ segs'[e] = segs[e]
          BY <2>1, <4>1, <4>3
        <5> QED
          BY <3>1, <4>2, <5>1
      <4>4. CASE d # c
        <5>1. segs'[d] = segs[d] /\ (segs'[e] = segs[e] \/ segs'[e] = segs[e] \cup {new})
          BY <4>1, <4>4
        <5> QED
          BY <3>1, <4>2, <5>1
      <4> QED
        BY <4>3, <4>4
    <3> QED
      BY <3>2, <3>3
  <2> QED
    BY <1>1, <2>1 DEF Apart, Span
<1>8. InTransit' /\ CopiesWithin'
  <2>1. send_lock' \notin Clients /\ ~Answered'
    BY <1>1, <1>2, DataAssumption DEF Nobody, Answered
  <2> QED
    BY <2>1 DEF InTransit, Asked, CopiesWithin
<1>9. Ended' /\ SegmentsMapped'
  BY <1>1, <1>2, <1>4, <1>7 DEF Ended, SegmentsMapped, Apart
<1> QED
  BY <1>5, <1>6, <1>7, <1>8, <1>9

(* The simulation's DMA touches no request and no segment.                *)
LEMMA TickKeepsSegments ==
  ASSUME IInvSegments,
         UNCHANGED <<file, server, client, build, fate>> \/ UNCHANGED vars
  PROVE  IInvSegments'
<1> USE DEF IInvSegments
<1>1. UNCHANGED <<req, server_mut, data_cmd_recieve_resp_lock, spc, mappings, send_lock, cpc, segs,
                  ops, build, fate>>
  BY DEF file, server, client, vars, host
<1>2. Types' /\ Apart' /\ CopiesWithin' /\ (\A c \in Clients : segs'[c] \subseteq mappings')
  BY <1>1, SegmentFrame DEF Types
<1>3. Handshake' /\ InTransit' /\ Ended'
  BY <1>1 DEF Handshake, Busy, Acking, InTransit, Asked, Answered, Ended
<1>4. SegmentsMapped'
  BY <1>1 DEF SegmentsMapped, Span
<1> QED
  BY <1>2, <1>3, <1>4

(* Every step keeps the part of the invariant that is about segments.     *)
LEMMA SegmentsStep == ASSUME IInvSegments, [Next]_vars PROVE IInvSegments'
<1>1. CASE \E c \in Clients : ClientWrite(c) \/ ClientWake(c) \/ ClientAck(c)
  BY <1>1, WriteStep, WakeStep, AckStep
<1>2. CASE ServerStep
  BY <1>2, ServerMoves, Endings, AllocStep, FreeStep DEF ServerStep
<1>3. CASE DmaTick
  <2>1. UNCHANGED <<file, server, client, build, fate>>
    BY <1>3 DEF DmaTick, DmaStart, DmaContinue, DmaKeep, host
  <2> QED
    BY <2>1, TickKeepsSegments
<1>4. CASE DmaMismatch
  BY <1>4, Endings
<1>5. CASE UNCHANGED vars
  BY <1>5, TickKeepsSegments
<1> QED
  BY <1>1, <1>2, <1>3, <1>4, <1>5 DEF Next

-----------------------------------------------------------------------------
(* Transfers.                                                             *)

Data == Transfers /\ WakeUpMatched /\ Copying

(* Where the copy goes does not change while its request stands.          *)
LEMMA SameTarget ==
  ASSUME UNCHANGED <<req, segs, send_lock>>
  PROVE  Off' = Off /\ \A i \in Nat : Target(i)' = Target(i)
<1>1. Off' = Off
  BY DEF Off, SegmentAt, Span
<1> QED
  BY <1>1 DEF Target

(* moved is a sequence: its positions are numbers.                        *)
LEMMA MovedLen == ASSUME Copying PROVE Len(moved) \in Nat /\ \A i \in 1 .. Len(moved) : i \in Nat
<1>1. moved \in Seq(Int \X (Nat \X Int))
  BY DEF Copying
<1>2. Len(moved) \in Nat
  BY <1>1, LenProperties
<1> QED
  BY <1>2

(* Steps that leave the burst, the pointers and the copied beats alone.   *)
LEMMA QuietSteps ==
  ASSUME IInv,
         \/ SanityPasses \/ ServerStart \/ ServerFirst \/ ServerWoken \/ ServerMoveNothing
         \/ ServerMoved \/ ServerReply \/ ServerFree \/ SanityFails \/ ServerThrows
         \/ XdmaFails \/ ServerDivides \/ DmaMismatch
         \/ (\E c \in Clients : ClientWake(c)) \/ UNCHANGED vars
  PROVE  Data'
<1> USE DEF IInv
<1>1. UNCHANGED <<req, segs, send_lock, moved, build, dma, dma_txprogress, dma_txlength, port,
                  amt_left, ptr1, ptr2>>
  BY DEF SanityPasses, ServerStart, ServerFirst, ServerWoken, ServerMoveNothing, ServerMoved,
         ServerReply, ServerFree, SanityFails, ServerThrows, XdmaFails, ServerDivides,
         DmaMismatch, ClientWake, vars, file, server, transfer, client, host
<1>2. \/ /\ spc' = spc /\ UNCHANGED <<dma_wait_lock, data_cmd_recieve_resp_lock>>
      \/ /\ spc = "sanity" /\ spc' = "start"
         /\ UNCHANGED <<dma_wait_lock, data_cmd_recieve_resp_lock>>
      \/ /\ spc = "start" /\ spc' = "first"
         /\ UNCHANGED <<dma_wait_lock, data_cmd_recieve_resp_lock>>
      \/ /\ spc = "first" /\ spc' = "handle" /\ dma_wait_lock' = (build = "dma")
         /\ UNCHANGED data_cmd_recieve_resp_lock
      \/ /\ spc = "stall" /\ spc' = "handle"
         /\ UNCHANGED <<dma_wait_lock, data_cmd_recieve_resp_lock>>
      \/ /\ spc = "handle" /\ spc' = "reply" /\ (build = "sim" \/ req.op = "FREE")
         /\ UNCHANGED <<dma_wait_lock, data_cmd_recieve_resp_lock>>
      \/ /\ spc = "chunk" /\ spc' = "reply" /\ amt_left = 0
         /\ UNCHANGED <<dma_wait_lock, data_cmd_recieve_resp_lock>>
      \/ /\ spc = "reply" /\ spc' = "stall" /\ ~data_cmd_recieve_resp_lock'
         /\ UNCHANGED dma_wait_lock
  BY DEF SanityPasses, ServerStart, ServerFirst, ServerWoken, ServerMoveNothing, ServerMoved,
         ServerReply, ServerFree, SanityFails, ServerThrows, XdmaFails, ServerDivides,
         DmaMismatch, ClientWake, vars, file, server, transfer, client, Step
<1>3. (fate' = fate /\ junk' = junk) \/ ~Alive'
  BY DEF SanityPasses, ServerStart, ServerFirst, ServerWoken, ServerMoveNothing, ServerMoved,
         ServerReply, ServerFree, SanityFails, ServerThrows, XdmaFails, ServerDivides,
         DmaMismatch, ClientWake, vars, host, End, Alive
<1>4. Transfers'
  <2>1. dma_wait_lock' \in BOOLEAN
    BY <1>2 DEF Transfers
  <2> QED
    BY <1>1, <1>2, <2>1 DEF Transfers
<1>5. WakeUpMatched'
  BY <1>1, <1>2 DEF WakeUpMatched, Transfers
<1>6. Copying'
  <2>1. Off' = Off /\ \A i \in Nat : Target(i)' = Target(i)
    BY <1>1, SameTarget
  <2>2. Len(moved) \in Nat
    BY MovedLen
  <2>3. (Asked' \/ Answered') /\ req.op \in Moves => Asked \/ Answered
    BY <1>1, <1>2 DEF Asked, Answered, IInvSegments, Handshake, Busy, Acking
  <2>4. \A i \in 1 .. Len(moved) : i \in Nat
    BY <2>2
  <2>5. (Asked' \/ Answered') /\ req'.op \in Moves =>
           \A i \in 1 .. Len(moved') : moved'[i] = Target(i)'
    BY <1>1, <2>1, <2>3, <2>4 DEF Copying
  <2>6. Asked' /\ spc' \notin {"chunk", "dma wait"} => Asked /\ spc \notin {"chunk", "dma wait"}
    BY <1>1, <1>2 DEF Asked
  <2>7. Asked' /\ req'.op \in Moves /\ spc' \notin {"chunk", "dma wait"} => moved' = <<>>
    BY <1>1, <2>6 DEF Copying
  <2>8. spc' \in {"chunk", "dma wait"} => spc' = spc
    BY <1>2
  <2>9. spc' = "reply" /\ req'.op \in Moves =>
          Len(moved') = IF build' \in {"sim", "F2"} THEN 0 ELSE req'.amt
    <3>1. CASE spc' = spc
      BY <1>1, <3>1 DEF Copying
    <3>2. CASE spc = "chunk" /\ amt_left = 0
      BY <1>1, <3>2, <2>2 DEF Copying, IInvSegments, Handshake
    <3>3. CASE spc = "handle" /\ (build = "sim" \/ req.op = "FREE")
      <4>1. req.op \in Moves => moved = <<>>
        BY <3>3 DEF Copying, Asked, IInvSegments, Handshake, Busy, Acking
      <4> QED
        BY <1>1, <3>3, <4>1 DEF Moves
    <3> QED
      BY <1>2, <3>1, <3>2, <3>3
  <2>10. Alive' /\ build' # "F2" => junk' = {}
    BY <1>1, <1>3 DEF Copying, Alive
  <2> QED
    BY <1>1, <2>1, <2>5, <2>7, <2>8, <2>9, <2>10 DEF Copying
<1> QED
  BY <1>4, <1>5, <1>6 DEF Data

(* A new request: nothing of its copy has moved, and it is not the        *)
(* server's yet.                                                          *)
LEMMA WriteData == ASSUME IInv, NEW c \in Clients, ClientWrite(c) PROVE Data'
<1> USE DEF IInv
<1>1. /\ send_lock = Nobody /\ moved' = <<>>
      /\ UNCHANGED <<spc, data_cmd_recieve_resp_lock, build, dma, dma_wait_lock, dma_txprogress,
                     dma_txlength, port, amt_left, ptr1, ptr2, fate, junk>>
  BY DEF ClientWrite, server, host
<1>2. ~Busy /\ data_cmd_recieve_resp_lock
  BY <1>1, DataAssumption DEF IInvSegments, Handshake, Acking, Nobody
<1>3. Transfers' /\ WakeUpMatched'
  <2>1. Transfers'
    BY <1>1 DEF Transfers
  <2>2. WakeUpMatched'
    BY <1>1 DEF WakeUpMatched
  <2> QED
    BY <2>1, <2>2
<1>4. moved' \in Seq(Int \X (Nat \X Int)) /\ Len(moved') = 0
  BY <1>1
<1>5. Copying'
  <2>1. spc' \notin {"chunk", "dma wait", "reply"}
    BY <1>1, <1>2 DEF Busy
  <2>2. \A i \in 1 .. Len(moved') : moved'[i] = Target(i)'
    BY <1>4
  <2>3. Alive' /\ build' # "F2" => junk' = {}
    BY <1>1 DEF Copying, Alive
  <2> QED
    BY <1>1, <1>4, <2>1, <2>2, <2>3 DEF Copying
<1> QED
  BY <1>3, <1>5 DEF Data

(* Once a client has its answer the copy is over.                         *)
LEMMA AckData == ASSUME IInv, NEW c \in Clients, ClientAck(c) PROVE Data'
<1> USE DEF IInv
<1>1. /\ send_lock' = Nobody /\ ~data_cmd_recieve_resp_lock /\ data_cmd_recieve_resp_lock'
      /\ UNCHANGED <<spc, build, dma, dma_wait_lock, dma_txprogress, moved,
                     dma_txlength, port, amt_left, ptr1, ptr2, fate, junk>>
  BY DEF ClientAck, server, transfer, host
<1>2. spc = "stall"
  BY <1>1 DEF IInvSegments, Handshake
<1>3. ~Asked' /\ ~Answered'
  BY <1>1, <1>2, DataAssumption DEF Asked, Answered, Nobody
<1>4. Transfers'
  BY <1>1 DEF Transfers
<1>5. WakeUpMatched'
  BY <1>1 DEF WakeUpMatched
<1>6. Copying'
  BY <1>1, <1>2, <1>3 DEF Copying, Alive
<1> QED
  BY <1>4, <1>5, <1>6 DEF Data

(* An allocation is no copy.                                              *)
LEMMA AllocData == ASSUME IInv, ServerAlloc PROVE Data'
<1> USE DEF IInv
<1>1. /\ spc = "handle" /\ spc' = "reply" /\ req.op = "ALLOC"
      /\ UNCHANGED <<build, dma, dma_wait_lock, dma_txprogress, moved,
                     dma_txlength, port, amt_left, ptr1, ptr2, fate, junk>>
  BY DEF ServerAlloc, Step, transfer, host
<1>2. req'.op = "ALLOC"
  BY <1>1 DEF ServerAlloc, IInvSegments, Types
<1>3. req'.op \notin Moves
  BY <1>2 DEF Moves
<1>4. Transfers'
  BY <1>1 DEF Transfers
<1>5. WakeUpMatched'
  BY <1>1 DEF WakeUpMatched
<1>6. Copying'
  BY <1>1, <1>3 DEF Copying, Alive
<1> QED
  BY <1>4, <1>5, <1>6 DEF Data

(* A copy begins: translate finds the memory behind the client's segment. *)
LEMMA MoveData == ASSUME IInv, ServerMove PROVE Data'
<1> USE DEF IInv
<1>1. /\ spc = "handle" /\ spc' = "chunk" /\ req.op \in Moves /\ build = "dma"
      /\ amt_left' = req.amt /\ ptr1' = Translate(req.addr) /\ ptr2' = req.addr
      /\ UNCHANGED <<req, segs, send_lock, data_cmd_recieve_resp_lock, build, dma, dma_wait_lock,
                     dma_txprogress, moved, dma_txlength, port, fate, junk>>
  BY DEF ServerMove, Step, file, transfer, client, host
<1>2. Asked /\ send_lock \in Clients
  BY <1>1 DEF Asked, IInvSegments, Handshake, Busy, Acking
<1>3. ptr1' = <<req.host, Off>> /\ Off \in Int
  BY <1>1, <1>2, CopyTranslates
<1>4. req.amt \in Nat /\ req.addr \in Nat /\ req.host \in Nat
  BY DEF IInvSegments, Types
<1>5. moved = <<>> /\ Len(moved) = 0
  BY <1>1, <1>2 DEF Copying
<1>6. Off' = Off
  BY <1>1, SameTarget
<1>7. Transfers'
  BY <1>1, <1>3, <1>4 DEF Transfers
<1>8. WakeUpMatched'
  BY <1>1 DEF WakeUpMatched
<1>9. Copying'
  BY <1>1, <1>3, <1>4, <1>5, <1>6 DEF Copying, Alive
<1> QED
  BY <1>7, <1>8, <1>9 DEF Data

(* XDMA moves the whole copy at once, or, on F2, nothing.                 *)
LEMMA XdmaData == ASSUME IInv, XdmaMove PROVE Data'
<1> USE DEF IInv
<1>1. /\ spc = "handle" /\ spc' = "reply" /\ req.op \in Moves /\ build \in {"F1", "F2"}
      /\ UNCHANGED <<req, segs, send_lock, data_cmd_recieve_resp_lock, build, dma, dma_wait_lock,
                     dma_txprogress, dma_txlength, port, amt_left, ptr1, ptr2, fate>>
  BY DEF XdmaMove, Step, file, client
<1>2. Asked /\ send_lock \in Clients
  BY <1>1 DEF Asked, IInvSegments, Handshake, Busy, Acking
<1>3. Translate(req.addr) = <<req.host, Off>> /\ Off \in Int
  BY <1>1, <1>2, CopyTranslates
<1>4. req.amt \in Nat /\ req.addr \in Nat /\ req.host \in Nat
  BY DEF IInvSegments, Types
<1>5. moved = <<>>
  BY <1>1, <1>2 DEF Copying
<1>6. Off' = Off /\ \A i \in Nat : Target(i)' = Target(i)
  BY <1>1, SameTarget
<1>7. Transfers'
  BY <1>1 DEF Transfers
<1>8. WakeUpMatched'
  BY <1>1 DEF WakeUpMatched
<1>9. build' # "F2" => junk' = {} \/ ~Alive
  BY <1>1 DEF XdmaMove, UsesXdma, Copying
<1>10. CASE build = "F1"
  <2>1. moved' = [i \in 1 .. req.amt |-> Target(i)]
    BY <1>3, <1>10 DEF XdmaMove, UsesXdma, Target
  <2>2. \A i \in 1 .. req.amt : i \in Nat /\ Target(i) \in Int \X (Nat \X Int)
    BY <1>3, <1>4 DEF Target
  <2>3. moved' \in [1 .. req.amt -> Int \X (Nat \X Int)]
    BY <2>1, <2>2
  <2>4. moved' \in Seq(Int \X (Nat \X Int)) /\ Len(moved') = req.amt
    <3>1. moved' \in Seq(Int \X (Nat \X Int))
      BY <1>4, <2>3, SeqDef
    <3>2. DOMAIN moved' = 1 .. Len(moved') /\ Len(moved') \in Nat
      BY <3>1, LenProperties
    <3>3. DOMAIN moved' = 1 .. req.amt
      BY <2>1
    <3> QED
      BY <1>4, <3>1, <3>2, <3>3
  <2>5. \A i \in 1 .. Len(moved') : moved'[i] = Target(i)'
    BY <1>6, <2>1, <2>2, <2>4
  <2>6. Copying'
    BY <1>1, <1>9, <1>10, <2>4, <2>5 DEF Copying, Alive, Asked
  <2> QED
    BY <1>7, <1>8, <2>6 DEF Data
<1>11. CASE build = "F2"
  <2>1. moved' = <<>> /\ Len(moved') = 0
    BY <1>5, <1>11 DEF XdmaMove, UsesXdma
  <2>2. Copying'
    BY <1>1, <1>11, <2>1 DEF Copying, Asked
  <2> QED
    BY <1>7, <1>8, <2>2 DEF Data
<1> QED
  BY <1>1, <1>10, <1>11

(* A burst is at least one beat and no more than is left.                 *)
LEMMA BurstFits == ASSUME NEW left \in Nat \ {0}, NEW n \in BurstLengths(left)
                   PROVE  n \in 1 .. left
BY DataAssumption DEF BurstLengths

(* The server hands over a burst that begins where the copy has got to.   *)
LEMMA BurstData == ASSUME IInv, ServerBurst PROVE Data'
<1> USE DEF IInv
<1>1. /\ spc = "chunk" /\ spc' = "dma wait" /\ amt_left > 0
      /\ UNCHANGED <<req, segs, send_lock, data_cmd_recieve_resp_lock, build, ptr1, ptr2,
                     dma_txprogress, moved, dma_txlength, port, dma_wait_lock, fate, junk>>
  BY DEF ServerBurst, Step, file, client, host
<1>2. PICK n \in BurstLengths(amt_left) :
        /\ dma' = [valid |-> TRUE, in_progress |-> FALSE, write |-> req.op = "MOVE_TO_FPGA",
                   len |-> n, ptr |-> ptr1, fpga |-> ptr2]
        /\ amt_left' = amt_left - n
  BY DEF ServerBurst
<1>3. amt_left \in Nat \ {0} /\ ptr1 \in Nat \X Int /\ ptr2 \in Int
  <2>1. amt_left \in Nat /\ ptr1 \in Nat \X Int /\ ptr2 \in Int
    BY DEF Transfers
  <2>2. amt_left > 0
    BY <1>1
  <2>3. amt_left \in Nat \ {0}
    BY <2>1, <2>2
  <2> QED
    BY <2>1, <2>3
<1>4. n \in 1 .. amt_left
  BY <1>3, BurstFits
<1>5. n \in Nat /\ amt_left' \in Nat
  BY <1>2, <1>3, <1>4
<1>6. dma_wait_lock
  <2>1. build = "dma"
    BY <1>1 DEF IInvSegments, Handshake
  <2> QED
    BY <1>1, <2>1 DEF WakeUpMatched
<1>7. Transfers'
  <2>1. (req.op = "MOVE_TO_FPGA") \in BOOLEAN
    OBVIOUS
  <2>2. dma' \in [valid : BOOLEAN, in_progress : BOOLEAN, write : BOOLEAN, len : Nat,
                  ptr : Nat \X Int, fpga : Int]
    BY <1>2, <1>3, <1>5, <2>1
  <2>3. ~dma'.in_progress
    BY <1>2
  <2> QED
    BY <1>1, <1>5, <1>6, <2>2, <2>3 DEF Transfers
<1>8. WakeUpMatched'
  BY <1>1, <1>6 DEF WakeUpMatched
<1>9. Copying'
  <2>1. Off' = Off /\ \A i \in Nat : Target(i)' = Target(i)
    BY <1>1, SameTarget
  <2>2. Len(moved) \in Nat /\ \A i \in 1 .. Len(moved) : i \in Nat
    BY MovedLen
  <2>3. /\ Len(moved) + amt_left = req.amt /\ ptr2 = req.addr + Len(moved)
        /\ ptr1 = <<req.host, Off + Len(moved)>>
    BY <1>1 DEF Copying
  <2>4. req.amt \in Nat /\ req.addr \in Nat
    BY DEF IInvSegments, Types
  <2>5. ptr2 - req.addr = Len(moved)
    BY <2>2, <2>3, <2>4
  <2>6. dma'.ptr = ptr1 /\ dma'.fpga = ptr2 /\ dma'.len = n /\ dma'.valid /\ ~dma'.in_progress
    BY <1>2
  <2>7. /\ (ptr2 - req.addr) + dma'.len + amt_left' = req.amt
        /\ Len(moved) = (ptr2 - req.addr) + (IF ~dma'.valid THEN dma'.len
                          ELSE IF dma'.in_progress THEN dma_txprogress' ELSE 0)
    <3>1. Len(moved) + n + (amt_left - n) = req.amt
      BY <1>3, <1>5, <2>2, <2>3, <2>4
    <3>2. Len(moved) = Len(moved) + 0
      BY <2>2
    <3> QED
      BY <1>2, <2>5, <2>6, <3>1, <3>2
  <2>8. Asked /\ req.op \in Moves
    BY <1>1 DEF Asked, IInvSegments, Handshake, Busy, Acking
  <2>9. \A i \in 1 .. Len(moved') : moved'[i] = Target(i)'
    BY <1>1, <2>1, <2>2, <2>8 DEF Copying
  <2>10. ptr1' = <<req'.host, Off' + (ptr2' - req'.addr)>>
    BY <1>1, <2>1, <2>3, <2>5
  <2> QED
    BY <1>1, <2>6, <2>7, <2>9, <2>10 DEF Copying, Alive
<1> QED
  BY <1>7, <1>8, <1>9 DEF Data

(* The burst is done: its beats have moved, and the pointers follow.      *)
LEMMA BurstDoneData == ASSUME IInv, ServerBurstDone PROVE Data'
<1> USE DEF IInv
<1>1. /\ spc = "dma wait" /\ spc' = "chunk" /\ ~dma_wait_lock /\ dma_wait_lock' = TRUE
      /\ ptr1' = <<ptr1[1], ptr1[2] + dma.len>> /\ ptr2' = ptr2 + dma.len
      /\ UNCHANGED <<req, segs, send_lock, data_cmd_recieve_resp_lock, build, amt_left, dma,
                     dma_txprogress, moved, dma_txlength, port, fate, junk>>
  BY DEF ServerBurstDone, BurstFinished, NextAddress, Step, file, transfer, client, host
<1>2. ~dma.valid
  BY <1>1 DEF Transfers
<1>3. /\ dma.len \in Nat /\ ptr1 \in Nat \X Int /\ ptr2 \in Int /\ amt_left \in Nat
      /\ req.addr \in Nat /\ req.amt \in Nat /\ req.host \in Nat
  BY DEF Transfers, IInvSegments, Types
<1>4. send_lock \in Clients /\ req.op \in Moves /\ Asked
  BY <1>1 DEF Asked, IInvSegments, Handshake, Busy, Acking
<1>5. Off \in Int
  BY <1>4, CopyTranslates
<1>6. /\ ptr1 = <<req.host, Off + (ptr2 - req.addr)>>
      /\ (ptr2 - req.addr) + dma.len + amt_left = req.amt
      /\ Len(moved) = (ptr2 - req.addr) + dma.len
  BY <1>1, <1>2 DEF Copying
<1>7. ptr1[1] = req.host /\ ptr1[2] = Off + (ptr2 - req.addr)
  BY <1>6
<1>8. /\ Len(moved) + amt_left = req.amt /\ ptr2' = req.addr + Len(moved)
      /\ ptr1' = <<req.host, Off + Len(moved)>>
  <2>1. ptr1[2] + dma.len = Off + Len(moved)
    <3>1. PICK a \in Int, l \in Nat, f \in Int, q \in Int :
            a = req.addr /\ l = dma.len /\ f = Off /\ q = ptr2
      BY <1>3, <1>5
    <3>2. ptr1[2] = f + (q - a) /\ Len(moved) = (q - a) + l
      BY <1>6, <1>7, <3>1
    <3>3. (f + (q - a)) + l = f + ((q - a) + l)
      BY <3>1
    <3> QED
      BY <3>1, <3>2, <3>3
  <2>2. ptr2 + dma.len = req.addr + Len(moved)
    BY <1>3, <1>6
  <2> QED
    BY <1>1, <1>6, <1>7, <2>1, <2>2
<1>9. Transfers'
  <2>1. ptr1' \in Nat \X Int /\ ptr2' \in Int
    <3>1. ptr1[1] \in Nat /\ ptr1[2] + dma.len \in Int /\ ptr2 + dma.len \in Int
      BY <1>3
    <3> QED
      BY <1>1, <3>1
  <2> QED
    BY <1>1, <1>2, <2>1 DEF Transfers
<1>10. WakeUpMatched'
  BY <1>1 DEF WakeUpMatched
<1>11. Copying'
  <2>1. Off' = Off /\ \A i \in Nat : Target(i)' = Target(i)
    BY <1>1, SameTarget
  <2>2. Len(moved) \in Nat /\ \A i \in 1 .. Len(moved) : i \in Nat
    BY MovedLen
  <2>3. \A i \in 1 .. Len(moved') : moved'[i] = Target(i)'
    BY <1>1, <1>4, <2>1, <2>2 DEF Copying
  <2> QED
    BY <1>1, <1>8, <2>1, <2>3 DEF Copying, Alive
<1> QED
  BY <1>9, <1>10, <1>11 DEF Data

(* One cycle of a burst whose first k beats have moved: a beat more, the  *)
(* write response, or nothing.                                            *)
LEMMA BeatData ==
  ASSUME IInv, NEW p \in [stage : {"idle", "data"}, addr : Int, len : Nat, beats : Nat],
         NEW k \in Nat, NEW beat \in BOOLEAN, NEW resp \in BOOLEAN,
         dma.valid, k <= dma.len, p.addr = dma.fpga, p.len = dma.len, p.beats = k,
         Len(moved) = (ptr2 - req.addr) + k,
         DmaData(p, k, dma.len, beat, resp), DmaKeep
  PROVE  Data'
<1> USE DEF IInv
<1> DEFINE moves == beat /\ k < dma.len
           k2 == IF moves THEN k + 1 ELSE k
           done == IF dma.write THEN k = dma.len /\ resp ELSE moves /\ k2 = dma.len
<1>1. /\ moved' = IF moves THEN Append(moved, Beat(p, k)) ELSE moved
      /\ dma_txprogress' = k2 /\ dma_txlength' = dma.len
      /\ port' = IF done THEN [p EXCEPT !.stage = "idle"]
                 ELSE IF moves THEN [p EXCEPT !.beats = @ + 1] ELSE p
      /\ IF done
         THEN dma' = [dma EXCEPT !.valid = FALSE, !.in_progress = FALSE] /\ dma_wait_lock' = FALSE
         ELSE dma' = [dma EXCEPT !.in_progress = TRUE] /\ UNCHANGED dma_wait_lock
  BY DEF DmaData
<1>2. /\ UNCHANGED <<req, data_cmd_recieve_resp_lock, spc, amt_left, ptr1, ptr2, send_lock, segs,
                     build, fate, junk>>
      /\ Alive
  BY DEF DmaKeep, file, server, client, host
<1>3. spc = "dma wait" /\ dma_wait_lock
  BY DEF Transfers
<1>4. /\ dma \in [valid : BOOLEAN, in_progress : BOOLEAN, write : BOOLEAN, len : Nat,
                   ptr : Nat \X Int, fpga : Int]
      /\ dma.len \in Nat /\ ptr2 \in Int /\ req.addr \in Nat /\ req.host \in Nat
  BY DEF Transfers, IInvSegments, Types
<1>5. k2 \in Nat /\ k2 <= dma.len /\ (done => k2 = dma.len)
  BY <1>4
<1>6. send_lock \in Clients /\ req.op \in Moves /\ Asked
  BY <1>3 DEF Asked, IInvSegments, Handshake, Busy, Acking
<1>7. Off \in Int
  BY <1>6, CopyTranslates
<1>8. Off' = Off /\ \A i \in Nat : Target(i)' = Target(i)
  BY <1>2, SameTarget
<1>9. Len(moved) \in Nat /\ \A i \in 1 .. Len(moved) : i \in Nat
  BY MovedLen
<1>10. /\ dma.ptr = ptr1 /\ dma.fpga = ptr2 /\ ptr1 = <<req.host, Off + (ptr2 - req.addr)>>
       /\ (ptr2 - req.addr) + dma.len + amt_left = req.amt
  BY <1>3 DEF Copying
<1>11. Beat(p, k) = Target(Len(moved) + 1) /\ Beat(p, k) \in Int \X (Nat \X Int)
  <2>1. dma.ptr[1] = req.host /\ dma.ptr[2] + k = Off + (Len(moved) + 1) - 1
    BY <1>4, <1>7, <1>9, <1>10
  <2>2. p.addr + p.beats = req.addr + (Len(moved) + 1) - 1
    BY <1>4, <1>9, <1>10
  <2>3. Beat(p, k) = Target(Len(moved) + 1)
    BY <2>1, <2>2 DEF Beat, Target
  <2>4. req.addr + (Len(moved) + 1) - 1 \in Int /\ Off + (Len(moved) + 1) - 1 \in Int
    <3>1. req.addr \in Int /\ Off \in Int /\ Len(moved) \in Int
      BY <1>4, <1>7, <1>9
    <3> QED
      BY <3>1
  <2> QED
    BY <1>4, <2>3, <2>4 DEF Target
<1>12. /\ moved' \in Seq(Int \X (Nat \X Int)) /\ Len(moved') = (ptr2 - req.addr) + k2
       /\ \A i \in 1 .. Len(moved') : i \in Nat /\ moved'[i] = Target(i)
  <2>1. moved \in Seq(Int \X (Nat \X Int)) /\ \A i \in 1 .. Len(moved) : moved[i] = Target(i)
    BY <1>6 DEF Copying
  <2>2. CASE ~moves
    BY <1>1, <1>9, <2>1, <2>2
  <2>3. CASE moves
    <3>1. moved' = Append(moved, Beat(p, k))
      BY <1>1, <2>3
    <3>2. moved' \in Seq(Int \X (Nat \X Int)) /\ Len(moved') = Len(moved) + 1
      BY <1>11, <2>1, <3>1
    <3>3. \A i \in 1 .. Len(moved) : moved'[i] = moved[i]
      BY <1>11, <2>1, <3>1
    <3>4. moved'[Len(moved) + 1] = Beat(p, k)
      BY <1>11, <2>1, <3>1
    <3>5. Len(moved') = (ptr2 - req.addr) + k2
      <4>1. k2 = k + 1 /\ ptr2 - req.addr \in Int
        BY <1>4, <2>3
      <4>2. \A d \in Int : (d + k) + 1 = d + (k + 1)
        OBVIOUS
      <4>3. Len(moved) + 1 = (ptr2 - req.addr) + (k + 1)
        BY <4>1, <4>2
      <4> QED
        BY <3>2, <4>1, <4>3
    <3>6. ASSUME NEW i \in 1 .. Len(moved') PROVE i \in Nat /\ moved'[i] = Target(i)
      <4>1. i \in 1 .. Len(moved) \/ i = Len(moved) + 1
        BY <1>9, <3>2
      <4>2. i \in Nat
        BY <1>9, <4>1
      <4>3. CASE i \in 1 .. Len(moved)
        BY <2>1, <3>3, <4>2, <4>3
      <4>4. CASE i = Len(moved) + 1
        BY <1>11, <3>4, <4>2, <4>4
      <4> QED
        BY <4>1, <4>3, <4>4
    <3> QED
      BY <3>2, <3>5, <3>6
  <2> QED
    BY <2>2, <2>3
<1>13. /\ dma' \in [valid : BOOLEAN, in_progress : BOOLEAN, write : BOOLEAN, len : Nat,
                     ptr : Nat \X Int, fpga : Int]
       /\ dma'.len = dma.len /\ dma'.ptr = dma.ptr /\ dma'.fpga = dma.fpga
       /\ dma'.valid = ~done /\ dma'.in_progress = ~done /\ dma_wait_lock' = ~done
  BY <1>1, <1>3, <1>4
<1>14. /\ port' \in [stage : {"idle", "data"}, addr : Int, len : Nat, beats : Nat]
       /\ ~done => port'.len = dma.len /\ port'.beats = k2 /\ port'.addr = dma.fpga
  BY <1>1
<1> HIDE DEF moves, k2, done
<1>15. Transfers'
  BY <1>1, <1>2, <1>3, <1>5, <1>13, <1>14 DEF Transfers
<1>16. WakeUpMatched'
  BY <1>2, <1>3, <1>13 DEF WakeUpMatched
<1>17. Copying'
  <2>1. \A i \in 1 .. Len(moved') : moved'[i] = Target(i)'
    BY <1>8, <1>12
  <2>2. Len(moved') = (ptr2' - req'.addr) + (IF ~dma'.valid THEN dma'.len
                       ELSE IF dma'.in_progress THEN dma_txprogress' ELSE 0)
    BY <1>1, <1>2, <1>5, <1>12, <1>13
  <2> QED
    BY <1>2, <1>3, <1>8, <1>10, <1>12, <1>13, <2>1, <2>2 DEF Copying, Alive
<1> QED
  BY <1>15, <1>16, <1>17 DEF Data

(* The DMA part of a tick.                                                *)
LEMMA TickData == ASSUME IInv, DmaTick PROVE Data'
<1> USE DEF IInv
<1>1. PICK ready \in BOOLEAN, beat \in BOOLEAN, resp \in BOOLEAN :
        DmaStart(ready, beat) \/ DmaContinue(beat, resp)
  BY DEF DmaTick
<1>2. CASE DmaContinue(beat, resp)
  <2>1. dma.in_progress /\ DmaData(port, dma_txprogress, dma_txlength, beat, resp) /\ DmaKeep
    BY <1>2 DEF DmaContinue
  <2>2. /\ dma.valid /\ dma_txlength = dma.len /\ dma_txprogress <= dma.len /\ dma_txprogress \in Nat
        /\ port.len = dma.len /\ port.beats = dma_txprogress /\ port.addr = dma.fpga
        /\ port \in [stage : {"idle", "data"}, addr : Int, len : Nat, beats : Nat]
        /\ spc = "dma wait"
    BY <2>1 DEF Transfers
  <2>3. Len(moved) = (ptr2 - req.addr) + dma_txprogress
    BY <2>1, <2>2 DEF Copying
  <2> QED
    BY <2>1, <2>2, <2>3, BeatData
<1>3. CASE DmaStart(ready, beat) /\ ready
  <2> DEFINE p == [stage |-> "data", addr |-> dma.fpga, len |-> dma.len, beats |-> 0]
             b == beat /\ dma.write
  <2>1. dma.valid /\ ~dma.in_progress /\ DmaData(p, 0, dma.len, b, FALSE) /\ DmaKeep
    BY <1>3 DEF DmaStart
  <2>2. spc = "dma wait" /\ dma.len \in Nat /\ dma.fpga \in Int
    BY <2>1 DEF Transfers
  <2>3. Len(moved) = (ptr2 - req.addr) + 0
    BY <2>1, <2>2 DEF Copying
  <2>4. /\ p \in [stage : {"idle", "data"}, addr : Int, len : Nat, beats : Nat] /\ 0 <= dma.len
        /\ p.addr = dma.fpga /\ p.len = dma.len /\ p.beats = 0
    <3>1. \A n \in Nat : 0 <= n
      OBVIOUS
    <3> QED
      BY <2>2, <3>1
  <2>5. b \in BOOLEAN
    OBVIOUS
  <2> HIDE DEF p, b
  <2> QED
    BY <2>1, <2>3, <2>4, <2>5, BeatData
<1>4. CASE DmaStart(ready, beat) /\ ~ready
  <2>1. /\ dma.valid /\ ~dma.in_progress /\ dma_txprogress' = 0 /\ dma_txlength' = dma.len
        /\ UNCHANGED <<dma, dma_wait_lock, port, moved>>
        /\ UNCHANGED <<req, data_cmd_recieve_resp_lock, spc, amt_left, ptr1, ptr2, send_lock, segs,
                       build, fate, junk>>
    BY <1>4 DEF DmaStart, DmaKeep, file, server, client, host
  <2>2. dma.len \in Nat
    BY DEF Transfers
  <2>3. Transfers'
    BY <2>1, <2>2 DEF Transfers
  <2>4. WakeUpMatched'
    BY <2>1 DEF WakeUpMatched
  <2>5. Off' = Off /\ \A i \in Nat : Target(i)' = Target(i)
    BY <2>1, SameTarget
  <2>6. \A i \in 1 .. Len(moved) : i \in Nat
    BY MovedLen
  <2>7. Copying'
    BY <2>1, <2>5, <2>6 DEF Copying, Asked, Answered, Alive
  <2> QED
    BY <2>3, <2>4, <2>7 DEF Data
<1> QED
  BY <1>1, <1>2, <1>3, <1>4

-----------------------------------------------------------------------------
(* The invariant holds at the start ...                                   *)
LEMMA InitIInv == Init => IInv
<1> SUFFICES ASSUME Init PROVE IInv
  OBVIOUS
<1> USE DEF Init
<1>1. build \in {"dma", "sim", "F1", "F2"} /\ spc \in {"sanity", "start"}
      /\ (spc = "sanity" => build = "F1")
  BY DataAssumption
<1>2. Types
  <2>1. req \in [op : {"none", "ALLOC", "FREE"} \cup Moves, addr : Nat, amt : Nat,
                 tail : BOOLEAN, host : Nat]
    BY DEF NoRequest
  <2> QED
    BY <1>1, <2>1 DEF Types
<1>3. Handshake /\ Apart /\ Ended /\ SegmentsMapped
  BY <1>1, DataAssumption DEF Handshake, Busy, Nobody, Apart, Ended, SegmentsMapped
<1>4. ~Asked /\ ~Answered /\ req.op = "none"
  BY <1>1, DataAssumption DEF Asked, Answered, Nobody, NoRequest
<1>5. InTransit /\ CopiesWithin
  BY <1>4, DataAssumption DEF InTransit, CopiesWithin, Nobody
<1>6. Transfers
  <2>1. dma \in [valid : BOOLEAN, in_progress : BOOLEAN, write : BOOLEAN, len : Nat,
                 ptr : Nat \X Int, fpga : Int] /\ ~dma.valid /\ ~dma.in_progress
    BY DEF NoDma
  <2>2. port \in [stage : {"idle", "data"}, addr : Int, len : Nat, beats : Nat]
    OBVIOUS
  <2>3. ptr1 \in Nat \X Int /\ ptr2 \in Int
    OBVIOUS
  <2>4. amt_left \in Nat /\ dma_txprogress \in Nat /\ dma_txlength \in Nat
    OBVIOUS
  <2> QED
    BY <1>1, <2>1, <2>2, <2>3, <2>4 DEF Transfers
<1>7. WakeUpMatched
  BY <1>1 DEF WakeUpMatched
<1>8. Copying
  BY <1>1, <1>4 DEF Copying
<1> QED
  BY <1>2, <1>3, <1>5, <1>6, <1>7, <1>8 DEF IInv, IInvSegments

(* ... and every step keeps it.                                           *)
LEMMA NextIInv == ASSUME IInv, [Next]_vars PROVE IInv'
<1>1. IInvSegments'
  BY SegmentsStep DEF IInv
<1>2. Data'
  <2>1. CASE \E c \in Clients : ClientWrite(c) \/ ClientWake(c) \/ ClientAck(c)
    BY <2>1, WriteData, AckData, QuietSteps
  <2>2. CASE ServerStep
    BY <2>2, QuietSteps, AllocData, MoveData, XdmaData, BurstData, BurstDoneData DEF ServerStep
  <2>3. CASE DmaTick
    BY <2>3, TickData
  <2>4. CASE DmaMismatch \/ UNCHANGED vars
    BY <2>4, QuietSteps
  <2> QED
    BY <2>1, <2>2, <2>3, <2>4 DEF Next
<1> QED
  BY <1>1, <1>2 DEF IInv, Data

(* The inductive invariant holds throughout, for any clients and memory.  *)
THEOREM Invariance == Spec => []IInv
<1>1. Init => IInv
  BY InitIInv
<1>2. IInv /\ [Next]_vars => IInv'
  BY NextIInv
<1> QED
  BY <1>1, <1>2, PTL DEF Spec

(* Every segment a client holds stays mapped, to its own host memory and  *)
(* apart from all others, and only the two kinds of copy that SegmentsMapped *)
(* names end a simulation.                                                *)
THEOREM SegmentsKept == Spec => []SegmentsMapped
<1>1. IInv => SegmentsMapped
  BY DEF IInv, IInvSegments
<1> QED
  BY <1>1, Invariance, PTL

(* dma_wait_lock wakes the server for the burst it waits for, never for   *)
(* another one.                                                           *)
THEOREM WakeUpsMatched == Spec => []WakeUpMatched
<1>1. IInv => WakeUpMatched
  BY DEF IInv
<1> QED
  BY <1>1, Invariance, PTL

(* What the server answers has been copied, beat by beat and in order,    *)
(* between the device addresses and the host memory of the request,       *)
(* whatever the bursts' lengths and the port's timing were.               *)
THEOREM CopiesExact == Spec => []CopyExact
<1>1. ASSUME IInv PROVE CopyExact
  <2> USE <1>1 DEF IInv
  <2>1. ASSUME spc = "reply", req.op \in Moves
        PROVE  moved = IF build \in {"sim", "F2"} THEN <<>>
                       ELSE [i \in 1 .. req.amt |->
                               <<req.addr + i - 1,
                                 <<req.host, req.addr - SegmentAt(req.addr).addr + i - 1>>>>]
    <3>1. moved \in Seq(Int \X (Nat \X Int)) /\ \A i \in 1 .. Len(moved) : moved[i] = Target(i)
      BY <2>1 DEF Copying, Answered
    <3>2. Len(moved) = IF build \in {"sim", "F2"} THEN 0 ELSE req.amt
      BY <2>1 DEF Copying
    <3>3. moved = [i \in 1 .. Len(moved) |-> Target(i)]
      BY <3>1
    <3>4. CASE build \in {"sim", "F2"}
      BY <3>1, <3>2, <3>4
    <3>5. CASE build \notin {"sim", "F2"}
      BY <3>2, <3>3, <3>5 DEF Target, Off
    <3> QED
      BY <3>4, <3>5
  <2>2. Alive /\ build # "F2" => junk = {}
    BY DEF Copying
  <2> QED
    BY <2>1, <2>2 DEF CopyExact
<1> QED
  BY <1>1, Invariance, PTL

(* While a burst is under way nobody changes it: only the simulation      *)
(* marks it as started, and the port counts to the same length.           *)
THEOREM BurstsStable == Spec => BurstStable
<1> DEFINE Stable == dma.valid /\ dma'.valid =>
                       (dma' = [dma EXCEPT !.in_progress = dma'.in_progress]
                         /\ (dma.in_progress => (dma'.in_progress /\ port'.len = dma_txlength')))
<1>1. ASSUME IInv, [Next]_vars PROVE Stable
  <2> USE <1>1 DEF IInv
  <2> SUFFICES ASSUME dma.valid, dma'.valid
               PROVE  dma' = [dma EXCEPT !.in_progress = dma'.in_progress]
                      /\ (dma.in_progress => (dma'.in_progress /\ port'.len = dma_txlength'))
    OBVIOUS
  <2>1. /\ dma \in [valid : BOOLEAN, in_progress : BOOLEAN, write : BOOLEAN, len : Nat,
                    ptr : Nat \X Int, fpga : Int]
        /\ spc = "dma wait"
    BY DEF Transfers
  <2>2. CASE UNCHANGED <<dma, port, dma_txlength>>
    BY <2>1, <2>2 DEF Transfers
  <2>3. CASE DmaTick
    <3>1. PICK ready \in BOOLEAN, beat \in BOOLEAN, resp \in BOOLEAN :
            DmaStart(ready, beat) \/ DmaContinue(beat, resp)
      BY <2>3 DEF DmaTick
    <3>2. CASE DmaContinue(beat, resp)
      <4>1. dma' = [dma EXCEPT !.in_progress = TRUE] \/ ~dma'.valid
        BY <2>1, <3>2 DEF DmaContinue, DmaData
      <4>2. dma_txlength' = dma_txlength /\ port'.len = port.len
        BY <3>2 DEF DmaContinue, DmaData, Transfers
      <4>3. dma.in_progress => port.len = dma_txlength
        BY DEF Transfers
      <4> QED
        BY <2>1, <4>1, <4>2, <4>3
    <3>3. CASE DmaStart(ready, beat)
      <4>1. dma' = [dma EXCEPT !.in_progress = TRUE] \/ ~dma'.valid \/ dma' = dma
        BY <2>1, <3>3 DEF DmaStart, DmaData
      <4>2. ~dma.in_progress
        BY <3>3 DEF DmaStart
      <4> QED
        BY <2>1, <4>1, <4>2
    <3> QED
      BY <3>1, <3>2, <3>3
  <2>4. CASE ServerStep /\ ~ServerBurst
    BY <2>2, <2>4 DEF ServerStep, SanityPasses, SanityFails, ServerStart, ServerFirst, ServerWoken,
       ServerAlloc, ServerFree, ServerMove, ServerMoveNothing, ServerThrows, XdmaMove, XdmaFails,
       ServerBurstDone, ServerDivides, ServerMoved, ServerReply, transfer
  <2>5. CASE ServerBurst
    BY <2>1, <2>5 DEF ServerBurst, Step
  <2>6. CASE \E c \in Clients : ClientWrite(c) \/ ClientWake(c) \/ ClientAck(c)
    BY <2>2, <2>6 DEF ClientWrite, ClientWake, ClientAck, transfer
  <2>7. CASE DmaMismatch \/ UNCHANGED vars
    BY <2>2, <2>7 DEF DmaMismatch, vars, transfer
  <2> QED
    BY <1>1, <2>3, <2>4, <2>5, <2>6, <2>7 DEF Next
<1> QED
  BY <1>1, Invariance, PTL DEF Spec, BurstStable
=============================================================================
