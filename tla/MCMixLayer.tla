------------------------------ MODULE MCMixLayer ------------------------------
(* MixLayer for TLC: an index of xor that begins again within a run         *)
EXTENDS MixLayer

MCMaxSent == [e \in Ends |-> IF e = "client" THEN 3 ELSE 1]
MCPadLen == [e \in Ends |-> 1]
MCPad == Unit("pad", NoFrame, 0)
=============================================================================
