--------------------------- MODULE CommandService ---------------------------
(***************************************************************************)
(* What the runtime promises a user of the beethoven library: commands    *)
(* that expect a response form one line per accelerator core, the line is *)
(* answered strictly in order, every command is answered at most once and *)
(* the payload its issuer finally reads is the one computed for it.       *)
(* CmdServer implements this specification for simulations, FpgaRuntime   *)
(* its first half, up to the answer, for real FPGAs.                      *)
(***************************************************************************)
EXTENDS Sequences

CONSTANTS Tags,      \* names of individual commands
          Pairs      \* (system, core) pairs of the accelerator

VARIABLES line,      \* per core, the commands accepted and not yet answered
          answered,  \* <<command, payload>> ready for the issuer to collect
          received   \* <<command, payload>> collected by the issuer

vars == <<line, answered, received>>

Everything == {x[1] : x \in answered \cup received}
                 \cup UNION {{line[p][i] : i \in DOMAIN line[p]} : p \in Pairs}

Init == /\ line = [p \in Pairs |-> <<>>]
        /\ answered = {}
        /\ received = {}

(* The server accepts command t for core p. A command is accepted once.   *)
Submit(t, p) == /\ t \notin Everything
                /\ line' = [line EXCEPT ![p] = Append(@, t)]
                /\ UNCHANGED <<answered, received>>

(* Core p finishes the oldest command of its line.                        *)
Answer(p) == /\ line[p] # <<>>
             /\ answered' = answered \cup {<<Head(line[p]), Head(line[p])>>}
             /\ line' = [line EXCEPT ![p] = Tail(@)]
             /\ UNCHANGED received

(* The issuer collects an answer.                                         *)
Receive(x) == /\ answered' = answered \ {x}
              /\ received' = received \cup {x}
              /\ UNCHANGED line

Next == \/ \E t \in Tags, p \in Pairs : Submit(t, p)
        \/ \E p \in Pairs : Answer(p)
        \/ \E x \in answered : Receive(x)

Spec == Init /\ [][Next]_vars
=============================================================================
