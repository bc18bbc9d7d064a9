------------------------------ MODULE FrontBus ------------------------------
(***************************************************************************)
(* What the front-bus controller promises the command server: commands    *)
(* leave the queue in order, each reaches the accelerator, and each that  *)
(* asks for a response has it registered exactly once, whatever the bus   *)
(* does in between. CmdServer takes its simulation thread to behave like  *)
(* this (SimFetch, SimWantResponse); AXIBus implements it.                *)
(***************************************************************************)
EXTENDS Sequences

CONSTANTS Commands     \* records with a tag and the flags xd and flush

VARIABLES queue,       \* commands the server has pushed
          working,     \* tags of commands taken whose response is outstanding
          registered,  \* tags of the responses registered, in order
          ended        \* a FLUSH was taken: the simulation is over

vars == <<queue, working, registered, ended>>

Init == queue = <<>> /\ working = {} /\ registered = <<>> /\ ended = FALSE

Push(c) == /\ queue' = Append(queue, c)
           /\ UNCHANGED <<working, registered, ended>>

Fetch == /\ queue # <<>> /\ ~ended
         /\ queue' = Tail(queue)
         /\ ended' = Head(queue).flush
         /\ working' = IF Head(queue).xd THEN working \cup {Head(queue).tag} ELSE working
         /\ UNCHANGED registered

Register(t) == /\ t \in working /\ ~ended
               /\ working' = working \ {t}
               /\ registered' = Append(registered, t)
               /\ UNCHANGED <<queue, ended>>

Next == \/ \E c \in Commands : Push(c)
        \/ Fetch
        \/ \E t \in working : Register(t)

(* Neither commands nor responses are put off for ever.                   *)
Spec == /\ Init /\ [][Next]_vars
        /\ WF_vars(Fetch) /\ WF_vars(\E t \in working : Register(t))
=============================================================================
