--------------------------- MODULE MCRemoteServer ---------------------------
(* RemoteServer with users files that allow one or two connections          *)
EXTENDS RemoteServer

MCInfos == {[max |-> 1, forward |-> TRUE], [max |-> 2, forward |-> FALSE]}
=============================================================================
