------------------------------- MODULE MCPipe -------------------------------
(* Pipe for TLC: one session and the two buffers it takes from the pool     *)
EXTENDS Pipe
=============================================================================
