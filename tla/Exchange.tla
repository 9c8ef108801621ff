------------------------------- MODULE Exchange -------------------------------
(***************************************************************************)
(* The connection below the mix layer: a reliable stream with two ends,    *)
(* each of which is a plain connection or the ExchangeConn of              *)
(* exchange/exchange_conn.go that transport/trans_pad makes: an end sends  *)
(* its padding before its first Write and skips the padding of the other.  *)
(* The module has operations and no behaviour of its own: who uses the     *)
(* connection says when they happen.                                       *)
(***************************************************************************)
EXTENDS Integers, Sequences

CONSTANTS
    PadLen,      \* PadLen[e]: bytes of padding e sends (72 and 59)
    Pad          \* a byte of padding

Ends == {"client", "server"}
Peer(e) == IF e = "client" THEN "server" ELSE "client"

ASSUME PadAssumption == PadLen \in [Ends -> Nat]

VARIABLES
    padded,      \* the transport is tcp_pad
    wire,        \* wire[e]: what e sent that its peer has not read
    fin,         \* fin[e]: e closed its end of the stream
    wbuf,        \* wbuf[e]: bytes of padding e has still to send
    counter      \* counter[e]: bytes of padding e has still to skip

connVars == <<padded, wire, fin, wbuf, counter>>

ConnTypeOK ==
    /\ padded \in BOOLEAN /\ fin \in [Ends -> BOOLEAN]
    /\ \A e \in Ends : wbuf[e] \in 0 .. PadLen[e] /\ counter[e] \in 0 .. PadLen[Peer(e)]

(* NewPadClient and the listener's Accept, with lengths that agree         *)
ConnInit ==
    /\ padded \in BOOLEAN
    /\ wire = [e \in Ends |-> <<>>] /\ fin = [e \in Ends |-> FALSE]
    /\ wbuf = [e \in Ends |-> IF padded THEN PadLen[e] ELSE 0]
    /\ counter = [e \in Ends |-> IF padded THEN PadLen[Peer(e)] ELSE 0]

(* Bug: the padding goes out after the data.                               *)
BugWithPadding(e, bytes) == bytes \o [k \in 1 .. wbuf[e] |-> Pad]

WithPadding(e, bytes) == [k \in 1 .. wbuf[e] |-> Pad] \o bytes

(* Write: what is left of the padding goes first.                          *)
Put(e, bytes) ==
    /\ wire' = [wire EXCEPT ![e] = @ \o WithPadding(e, bytes)]
    /\ wbuf' = [wbuf EXCEPT ![e] = 0]
    /\ UNCHANGED <<padded, counter>>

Skipped(e, k) == IF counter[e] < k THEN counter[e] ELSE k

(* padAndCount: what a Read of k bytes leaves for the caller; if nothing   *)
(* is left, Read reads again.                                              *)
Filtered(e, k) == SubSeq(wire[Peer(e)], 1 + Skipped(e, k), k)

Get(e, k) ==
    /\ k \in 1 .. Len(wire[Peer(e)])
    /\ wire' = [wire EXCEPT ![Peer(e)] = SubSeq(@, k + 1, Len(@))]
    /\ counter' = [counter EXCEPT ![e] = @ - Skipped(e, k)]
    /\ UNCHANGED <<padded, wbuf>>

AtEof(e) == wire[Peer(e)] = <<>> /\ fin[Peer(e)]

(* Bug: a plain connection stays open as well.                             *)
BugCloseConn(e) == UNCHANGED <<fin, padded, wbuf, counter>>

(* Close of an ExchangeConn never closes the connection below; the runtime *)
(* may, when nobody refers to it any more.                                 *)
CloseConn(e) ==
    /\ fin' = [fin EXCEPT ![e] = @ \/ ~padded]
    /\ UNCHANGED <<padded, wbuf, counter>>
=============================================================================
