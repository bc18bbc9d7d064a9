---------------------------- MODULE MCCmdServer ----------------------------
(* Instances of CmdServer for TLC. Clients are interchangeable; pairs are  *)
(* not (Init picks one for the uninitialised command).                    *)
EXTENDS CmdServer, TLC

Symmetry == Permutations(Clients)
=============================================================================
