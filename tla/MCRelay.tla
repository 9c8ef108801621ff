------------------------------ MODULE MCRelay ------------------------------
(* Relay for TLC: client clocks that are late, right and early             *)
EXTENDS Relay

MCTimes == {1, 5, 9}
=============================================================================
