------------------------- MODULE MCSendWriteCommand -------------------------
(* One run; a result is looked for four times, as in the code.         *)
EXTENDS SendWriteCommand

CONSTANTS k1, k2, n1

MCKeyOf == [r \in Requests |-> k1]
MCNonceOf == [r \in Requests |-> n1]
=============================================================================
