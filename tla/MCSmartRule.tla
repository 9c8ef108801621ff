---------------------------- MODULE MCSmartRule ----------------------------
(* SmartRule for TLC: two hosts, two probes at a time, one slot           *)
EXTENDS SmartRule
=============================================================================
