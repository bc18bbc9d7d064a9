------------------------------ MODULE MCAXIBus ------------------------------
(* AXIBus for TLC: the values of r_data are the two flags and the words of *)
(* the responses.                                                         *)
EXTENDS AXIBus

MCData == {Zero, One} \cup (Tags \X (0 .. RespWords - 1))
=============================================================================
