------------------------------- MODULE ProxyConn -------------------------------
(***************************************************************************)
(* A connection between a client of the local proxy and its acceptor       *)
(* (proxy/socks, proxy/http): the two byte streams, what either side read  *)
(* while it shook hands, and their users: a browser or the transparent     *)
(* redirector on one side, LocalClient with its Pipe on the other.         *)
(*                                                                         *)
(* The module has the operations both protocols share and no behaviour of  *)
(* its own.  A byte is a number; zero is also what a fresh buffer holds.   *)
(***************************************************************************)
EXTENDS Integers, Sequences, SequencesExt

CONSTANTS
    Targets,     \* the hosts asked for: [atyp, len, high], two bytes of a
                 \* request and whether the port is above 32767
    MaxData,     \* bound on the bytes the two users send
    BufSize      \* the buffers of the handshakes (512, 1024, 2048)

Ends == {"client", "server"}
Peer(e) == IF e = "client" THEN "server" ELSE "client"

ASSUME DataAssumption == MaxData \in Nat /\ BufSize \in Nat
ASSUME TargetAssumption == Targets \subseteq [atyp: 0 .. 255, len: 0 .. 255, high: BOOLEAN]

VARIABLES
    proto,       \* socks or http
    kind,        \* the client: connector, browser, or optimist, which sends
                 \* before it is answered
    opening,     \* its first message
    target,      \* the host it asks for
    wire,        \* wire[e]: what e sent that its peer has not read
    fin,         \* fin[e]: e closed the connection
    pc,          \* pc[e]: how far e is
    buf,         \* buf[e]: what e read in the handshake, buf[:index]
    held,        \* held[e]: bytes the connection's Read answers first
    parsed,      \* the address the acceptor read
    sent,        \* sent[e]: bytes the user of e sent
    got,         \* got[e]: bytes the user of e read
    first,       \* length of the acceptor's first Read
    vetoed,      \* the host hook refused
    returned,    \* the acceptor returned a connection
    glued        \* glued[e]: e read data together with the handshake

config == <<proto, kind, opening, target>>
userVars == <<sent, got>>
history == <<first, vetoed, returned, glued>>
proxyVars == <<config, wire, fin, pc, buf, held, parsed, userVars, history>>

Zeros(n) == [i \in 1 .. n |-> 0]
Drop(s, n) == SubSeq(s, n + 1, Len(s))

(* The n-th byte the user of e sends                                       *)
Data(e, n) == IF e = "client" THEN 100 + n ELSE 200 + n

ConnInit ==
    /\ wire = [e \in Ends |-> <<>>] /\ fin = [e \in Ends |-> FALSE]
    /\ pc = [e \in Ends |-> "start"]
    /\ buf = wire /\ held = wire /\ got = wire /\ parsed = <<>>
    /\ sent = [e \in Ends |-> 0]
    /\ first = 0 /\ vetoed = FALSE /\ returned = FALSE
    /\ glued = fin

-----------------------------------------------------------------------------
Put(e, bytes) == wire' = [wire EXCEPT ![e] = @ \o bytes]

(* A Read of k bytes and, in the same step, an answer                      *)
Exchange(e, k, answer) ==
    wire' = [wire EXCEPT ![Peer(e)] = Drop(@, k), ![e] = @ \o answer]

Goes(e, to) == pc' = [pc EXCEPT ![e] = to]

Closes(e) ==
    /\ Goes(e, "closed")
    /\ fin' = [fin EXCEPT ![e] = TRUE]

(* The handshake of e is done; its connection holds the bytes first.       *)
Opens(e, bytes, spare) ==
    /\ Goes(e, "open")
    /\ held' = [held EXCEPT ![e] = bytes]
    /\ glued' = [glued EXCEPT ![e] = spare]
    /\ buf' = [buf EXCEPT ![e] = <<>>]

Shaking(e) == pc[e] \notin {"start", "open", "closed", "crashed"}

-----------------------------------------------------------------------------
(* The users: Write and Read of the proxied connection.  An optimist       *)
(* writes when its request is out.                                         *)
UserSend(e) ==
    /\ sent["client"] + sent["server"] < MaxData
    /\ pc[e] = "open" \/ (e = "client" /\ kind = "optimist" /\ Shaking(e))
    /\ sent' = [sent EXCEPT ![e] = @ + 1]
    /\ Put(e, <<Data(e, sent[e] + 1)>>)
    /\ UNCHANGED <<config, fin, pc, buf, held, parsed, got, history>>

UserRead(e) ==
    /\ pc[e] = "open"
    /\ IF held[e] # <<>>
       THEN /\ got' = [got EXCEPT ![e] = @ \o held[e]]
            /\ held' = [held EXCEPT ![e] = <<>>]
            /\ UNCHANGED wire
       ELSE /\ \E k \in 1 .. Len(wire[Peer(e)]) :
                   /\ got' = [got EXCEPT ![e] = @ \o SubSeq(wire[Peer(e)], 1, k)]
                   /\ Exchange(e, k, <<>>)
            /\ UNCHANGED held
    /\ UNCHANGED <<config, fin, pc, buf, parsed, sent, history>>

(* A browser may leave at any time, the other users when they are done.    *)
Leave(e) ==
    /\ pc[e] = "open" \/ (e = "client" /\ kind # "connector" /\ Shaking(e))
    /\ Closes(e)
    /\ UNCHANGED <<config, wire, buf, held, parsed, userVars, history>>

(* A Read or a Write of the handshake fails when the peer has closed.      *)
Fails(e) ==
    /\ Shaking(e) /\ fin[Peer(e)]
    /\ Closes(e)
    /\ UNCHANGED <<config, wire, buf, held, parsed, userVars, history>>
=============================================================================
