------------------------------- MODULE Tunnel -------------------------------
(***************************************************************************)
(* What a proxied connection promises: each direction is a FIFO stream of  *)
(* bytes.  Nothing is altered, reordered, duplicated or taken from another *)
(* stream; a direction may stop, and stops only once.                      *)
(***************************************************************************)
EXTENDS Integers, Sequences

CONSTANT Chan           \* the streams: a session and a direction

VARIABLES sent,         \* sent[c]: bytes the sending peer of c has sent
          got,          \* got[c]: the bytes handed to the receiving peer
          ended         \* ended[c]: c delivers nothing more

vars == <<sent, got, ended>>

Byte(c, n) == <<c, n>>  \* the n-th byte sent on c

Init == /\ sent = [c \in Chan |-> 0]
        /\ got = [c \in Chan |-> <<>>]
        /\ ended = [c \in Chan |-> FALSE]

(* The peer sends more.                                                    *)
Send(c) == /\ sent'[c] > sent[c]
           /\ sent' = [sent EXCEPT ![c] = sent'[c]]
           /\ UNCHANGED <<got, ended>>

(* One or more of the bytes that are due arrive.                           *)
Deliver(c) == /\ ~ended[c]
              /\ \E n \in 1 .. sent[c] - Len(got[c]) :
                     got' = [got EXCEPT ![c] =
                                @ \o [k \in 1 .. n |-> Byte(c, Len(@) + k)]]
              /\ UNCHANGED <<sent, ended>>

End(c) == /\ ~ended[c]
          /\ ended' = [ended EXCEPT ![c] = TRUE]
          /\ UNCHANGED <<sent, got>>

Next == \E c \in Chan : Send(c) \/ Deliver(c) \/ End(c)

Spec == Init /\ [][Next]_vars

(* A stream without end: once everything sent has arrived the count of its *)
(* bytes may begin again with the next one.                                *)
Restart(c) == /\ ~ended[c]
              /\ Len(got[c]) = sent[c]
              /\ sent' = [sent EXCEPT ![c] = 1]
              /\ got' = [got EXCEPT ![c] = <<>>]
              /\ UNCHANGED ended

EndlessSpec == Init /\ [][Next \/ \E c \in Chan : Restart(c)]_vars
=============================================================================
