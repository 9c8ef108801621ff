-------------------------------- MODULE Relay --------------------------------
(***************************************************************************)
(* One connection between relay_connector.go (the client: doAuth) and      *)
(* relay_acceptor.go (the server: doHandshake), and the RelayFrameConn     *)
(* both sides then read and write (wrap_frame_conn.go, relay_utils.go).    *)
(*                                                                         *)
(* Below them is a reliable stream; a Read of it takes any part of what    *)
(* has arrived.  A packet travels as Size units <<packet, k>>, and counts  *)
(* for nothing before its last unit is there.                              *)
(***************************************************************************)
EXTENDS Integers, Sequences

CONSTANTS
    Size,        \* units of a packet: its length, delimiters and body
    ChunkMax,    \* bytes a Write puts into one packet
    ReadMax,     \* bytes the buffer of a Read holds
    MaxSent,     \* bound on the bytes an end writes
    Alive,       \* message_alive, 0 to accept any time
    Times,       \* times a client's clock may show
    Now          \* the server's time

ASSUME SizeAssumption == Size \in Nat \ {0}
ASSUME BoundAssumption == ChunkMax \in Nat \ {0} /\ ReadMax \in Nat \ {0} /\ MaxSent \in Nat
ASSUME TimeAssumption == Alive \in Nat /\ Times \subseteq Nat /\ Now \in Nat

Ends == {"client", "server"}
Peer(e) == IF e = "client" THEN "server" ELSE "client"

VARIABLES
    pc,          \* pc[e]: where e is
    wire,        \* wire[e]: units e wrote that its peer has not read
    fin,         \* fin[e]: e closed its end of the stream
    rbuf,        \* rbuf[e]: units e read that it has not used
    rdbuf,       \* rdbuf[e]: bytes of a packet that did not fit a Read's buffer
    sent,        \* sent[e]: bytes the user of e wrote
    got,         \* got[e]: bytes the user of e read
    ts           \* the time in the client's packet

streamVars == <<wire, fin>>
userVars == <<rdbuf, sent, got>>
vars == <<pc, wire, fin, rbuf, rdbuf, sent, got, ts>>

Packet == [kind: {"auth", "rsp", "data"}, ok: BOOLEAN, data: Seq(1 .. MaxSent)]
Units(p) == [k \in 1 .. Size |-> <<p, k>>]

TypeOK ==
    /\ pc["client"] \in {"dialed", "await", "open", "closed"}
    /\ pc["server"] \in {"read", "redirect", "open", "closed"}
    /\ \A e \in Ends : /\ \A k \in DOMAIN rbuf[e] : rbuf[e][k][1] \in Packet
                       /\ \A k \in DOMAIN wire[e] : wire[e][k][1] \in Packet
                       /\ rdbuf[e] \in Seq(1 .. MaxSent) /\ Len(rdbuf[e]) < ChunkMax
                       /\ sent[e] \in 0 .. MaxSent
                       /\ got[e] \in Seq(1 .. MaxSent)
    /\ fin \in [Ends -> BOOLEAN]
    /\ ts \in Times

Init ==
    /\ pc = [e \in Ends |-> IF e = "client" THEN "dialed" ELSE "read"]
    /\ wire = [e \in Ends |-> <<>>] /\ fin = [e \in Ends |-> FALSE]
    /\ rbuf = [e \in Ends |-> <<>>] /\ rdbuf = [e \in Ends |-> <<>>]
    /\ sent = [e \in Ends |-> 0] /\ got = [e \in Ends |-> <<>>]
    /\ ts \in Times

-----------------------------------------------------------------------------
(* CheckRelayPacketReady answers a length                                  *)
Complete(units) == Len(units) >= Size

(* GetPacketData                                                           *)
PacketOf(units) == units[1][1]

Rest(units) == SubSeq(units, Size + 1, Len(units))

(* Read of the stream: one unit or more                                    *)
Take(e, k) ==
    /\ k \in 1 .. Len(wire[Peer(e)])
    /\ wire' = [wire EXCEPT ![Peer(e)] = SubSeq(@, k + 1, Len(@))]

Received(e, k) == rbuf[e] \o SubSeq(wire[Peer(e)], 1, k)

Eof(e) == wire[Peer(e)] = <<>> /\ fin[Peer(e)]

Goto(e, from, to) == pc[e] = from /\ pc' = [pc EXCEPT ![e] = to]

(* The caller closes the stream of a handshake that failed.                *)
Fail(e, from) == /\ Goto(e, from, "closed")
                 /\ fin' = [fin EXCEPT ![e] = TRUE]

-----------------------------------------------------------------------------
(* doAuth                                                                  *)

SendAuth ==
    /\ Goto("client", "dialed", "await")
    /\ wire' = [wire EXCEPT !["client"] =
                   @ \o Units([kind |-> "auth", ok |-> TRUE, data |-> <<>>])]
    /\ UNCHANGED <<fin, rbuf, userVars, ts>>

(* The deadline, or an error, cuts the packet short.                       *)
SendAuthFails ==
    /\ Fail("client", "dialed")
    /\ \E k \in 0 .. Size - 1 :
           wire' = [wire EXCEPT !["client"] =
               SubSeq(Units([kind |-> "auth", ok |-> TRUE, data |-> <<>>]), 1, k)]
    /\ UNCHANGED <<rbuf, userVars, ts>>

(* Bug: what follows the answer is dropped.                                *)
BugSpare(units) == <<>>

(* Units after the handshake's packet go to the RelayFrameConn.            *)
Spare(units) == Rest(units)

ClientRead ==
    /\ pc["client"] = "await"
    /\ \E k \in 1 .. Len(wire["server"]) :
           LET units == Received("client", k)
           IN  /\ Take("client", k)
               /\ IF ~Complete(units)
                  THEN rbuf' = [rbuf EXCEPT !["client"] = units] /\ UNCHANGED <<pc, fin>>
                  ELSE IF PacketOf(units).ok
                  THEN /\ Goto("client", "await", "open")
                       /\ rbuf' = [rbuf EXCEPT !["client"] = Spare(units)]
                       /\ UNCHANGED fin
                  ELSE Fail("client", "await") /\ UNCHANGED rbuf
    /\ UNCHANGED <<userVars, ts>>

(* The deadline of ten seconds, or the end of the stream                   *)
ClientReadFails ==
    /\ Fail("client", "await")
    /\ UNCHANGED <<wire, rbuf, userVars, ts>>

-----------------------------------------------------------------------------
(* doHandshake                                                             *)

(* GetPacketDataCheckTs                                                    *)
Fresh == Alive = 0 \/ ts + Alive >= Now

Answer(ok) == wire' = [wire EXCEPT
    !["client"] = SubSeq(@, Len(@) + 1, Len(@)),
    !["server"] = @ \o Units([kind |-> "rsp", ok |-> ok, data |-> <<>>])]

ServerReadPart ==
    /\ pc["server"] = "read"
    /\ \E k \in 1 .. Len(wire["client"]) :
           /\ ~Complete(Received("server", k))
           /\ Take("server", k)
           /\ rbuf' = [rbuf EXCEPT !["server"] = Received("server", k)]
    /\ UNCHANGED <<pc, fin, userVars, ts>>

(* OnAuth and the address decide; a stale packet is not answered, and the  *)
(* answer to a client that left may fail.  The client sends nothing more   *)
(* before its answer, so the rest is all there.                            *)
ServerReadAuth ==
    /\ pc["server"] = "read" /\ wire["client"] # <<>>
    /\ Complete(Received("server", Len(wire["client"])))
    /\ \/ /\ Fresh /\ Answer(TRUE)
          /\ Goto("server", "read", "open") /\ UNCHANGED fin
          /\ rbuf' = [rbuf EXCEPT !["server"] =
                         Rest(Received("server", Len(wire["client"])))]
       \/ Fresh /\ Answer(FALSE) /\ Fail("server", "read") /\ UNCHANGED rbuf
       \/ /\ ~Fresh \/ fin["client"]
          /\ Fail("server", "read") /\ UNCHANGED <<wire, rbuf>>
    /\ UNCHANGED <<userVars, ts>>

(* Bug: no deadline is set.                                                *)
BugServerTimeout == FALSE /\ UNCHANGED vars

ServerTimeout ==
    /\ Fail("server", "read")
    /\ UNCHANGED <<wire, rbuf, userVars, ts>>

(* An error that is none of the network's, and the end of the stream is    *)
(* one: the connection goes to the redirector as it is.                    *)
ServerEof ==
    /\ Eof("server")
    /\ Goto("server", "read", "redirect")
    /\ UNCHANGED <<streamVars, rbuf, userVars, ts>>

RedirectEnds ==
    /\ Fail("server", "redirect")
    /\ UNCHANGED <<wire, rbuf, userVars, ts>>

-----------------------------------------------------------------------------
(* RelayFrameConn                                                          *)

(* One packet of the next bytes; a longer Write is short.                  *)
Write(e) ==
    /\ pc[e] = "open" /\ ~fin[Peer(e)]
    /\ \E n \in 1 .. ChunkMax :
           /\ sent[e] + n <= MaxSent
           /\ sent' = [sent EXCEPT ![e] = @ + n]
           /\ wire' = [wire EXCEPT ![e] = @ \o
                  Units([kind |-> "data", ok |-> TRUE,
                         data |-> [k \in 1 .. n |-> sent[e] + k]])]
    /\ UNCHANGED <<pc, fin, rbuf, rdbuf, got, ts>>

(* The buffer of the Read is filled, the rest is kept.                     *)
Deliver(e, bytes) ==
    LET n == IF Len(bytes) > ReadMax THEN ReadMax ELSE Len(bytes)
    IN  /\ got' = [got EXCEPT ![e] = @ \o SubSeq(bytes, 1, n)]
        /\ rdbuf' = [rdbuf EXCEPT ![e] = SubSeq(bytes, n + 1, Len(bytes))]

ReadRest(e) ==
    /\ pc[e] = "open" /\ rdbuf[e] # <<>>
    /\ Deliver(e, rdbuf[e])
    /\ UNCHANGED <<pc, streamVars, rbuf, sent, ts>>

(* Bug: the stream is read before the packet that is there.                *)
BugReadPacket(e) ==
    /\ pc[e] = "open" /\ rdbuf[e] = <<>> /\ Complete(rbuf[e]) /\ wire[Peer(e)] # <<>>
    /\ Deliver(e, PacketOf(rbuf[e]).data)
    /\ rbuf' = [rbuf EXCEPT ![e] = Rest(@)]
    /\ UNCHANGED <<pc, streamVars, sent, ts>>

ReadPacket(e) ==
    /\ pc[e] = "open" /\ rdbuf[e] = <<>> /\ Complete(rbuf[e])
    /\ Deliver(e, PacketOf(rbuf[e]).data)
    /\ rbuf' = [rbuf EXCEPT ![e] = Rest(@)]
    /\ UNCHANGED <<pc, streamVars, sent, ts>>

ReadMore(e) ==
    /\ pc[e] = "open" /\ rdbuf[e] = <<>> /\ ~Complete(rbuf[e])
    /\ \E k \in 1 .. Len(wire[Peer(e)]) :
           /\ Take(e, k)
           /\ rbuf' = [rbuf EXCEPT ![e] = Received(e, k)]
    /\ UNCHANGED <<pc, fin, userVars, ts>>

(* The user is done with the connection.  Units that were read and not     *)
(* used keep Close from closing the stream.                                *)
Close(e) ==
    /\ Goto(e, "open", "closed")
    /\ fin' = [fin EXCEPT ![e] = (rbuf[e] = <<>>)]
    /\ UNCHANGED <<wire, rbuf, userVars, ts>>

(* The runtime closes a stream nobody refers to any more, some time.       *)
Finalize(e) ==
    /\ pc[e] = "closed" /\ ~fin[e]
    /\ fin' = [fin EXCEPT ![e] = TRUE]
    /\ UNCHANGED <<pc, wire, rbuf, userVars, ts>>

Await == ClientRead \/ ClientReadFails
Client == SendAuth \/ SendAuthFails \/ Await
Server == ServerReadPart \/ ServerReadAuth \/ ServerTimeout \/ ServerEof
Reader(e) == ReadRest(e) \/ ReadPacket(e) \/ ReadMore(e)

Next == \/ Client \/ Server \/ RedirectEnds
        \/ \E e \in Ends : Write(e) \/ Reader(e) \/ Close(e) \/ Finalize(e)

Spec == Init /\ [][Next]_vars

(* Both ends wait with a deadline, and Pipe reads an open connection again *)
(* and again.  Nobody has to send the handshake, to write or to close.     *)
FairSpec == /\ Spec /\ WF_vars(Await) /\ WF_vars(Server)
            /\ \A e \in Ends : WF_vars(Reader(e))

-----------------------------------------------------------------------------
(* What a user reads is what the other end's user wrote, in order, without *)
(* gap or repetition, however the stream cuts the packets, the buffers cut *)
(* the Reads, and early data runs into the end of the handshake.           *)
StreamIntact ==
    \A e \in Ends : /\ Len(got[e]) <= sent[Peer(e)]
                    /\ \A k \in DOMAIN got[e] : got[e][k] = k

(* On a connection nobody closes all that was written is read: no packet   *)
(* waits in rbuf or rdbuf for the next one to arrive.                      *)
AllDelivered ==
    \A e \in Ends : sent[e] > 0 ~> \/ Len(got[Peer(e)]) = sent[e]
                                   \/ \E f \in Ends : pc[f] \in {"closed", "redirect"}

(* A peer that stops in the middle of the handshake does not keep the      *)
(* other end waiting.                                                      *)
HandshakeEnds == /\ pc["client"] = "await" ~> pc["client"] # "await"
                 /\ []<>(pc["server"] # "read")

(* README: a packet whose time differs from the server's by more than      *)
(* message_alive is refused.  Only a time too early is.                    *)
MessageAlive ==
    pc["server"] = "open" /\ Alive # 0 => ts + Alive >= Now /\ ts <= Now + Alive
=============================================================================
