---------------------------- MODULE MCLocalClient ----------------------------
(* LocalClient for TLC: one server, kicked after MaxErr failures            *)
EXTENDS LocalClient

MCWeight == [a \in Addr |-> 2]
=============================================================================
