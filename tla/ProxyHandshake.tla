----------------------------- MODULE ProxyHandshake -----------------------------
(***************************************************************************)
(* One connection to the local proxy, socks or http, from the client's     *)
(* first byte to the traffic that follows the handshake.  The client is    *)
(* the connector of this repository, as DialWithTimeout and the            *)
(* transparent redirect use it, a browser, or one that does not wait.      *)
(***************************************************************************)
EXTENDS SocksHandshake, HttpHandshake

ShakeTypeOK ==
    /\ pc["client"] \in {"start", "method", "answer", "response", "open", "closed"}
    /\ pc["server"] \in {"start", "greeting", "request", "hook", "header", "host",
                         "open", "closed", "crashed"}
    /\ \A e \in Ends : /\ wire[e] \in Seq(Int) /\ buf[e] \in Seq(Int)
                       /\ held[e] \in Seq(Int) /\ got[e] \in Seq(Int)
                       /\ sent[e] \in 0 .. MaxData
                       /\ fin[e] \in BOOLEAN /\ glued[e] \in BOOLEAN
    /\ vetoed \in BOOLEAN /\ returned \in BOOLEAN

(* The connector's request is a CONNECT or a greeting with one method, and *)
(* its host an address or a name.                                          *)
ShakeInit ==
    /\ proto \in {"socks", "http"} /\ kind \in {"connector", "browser", "optimist"}
    /\ target \in Targets
    /\ opening \in IF kind = "connector"
                   THEN {IF proto = "http" THEN Header(CONNECT) ELSE <<Version, 1, 0>>}
                   ELSE IF proto = "http" THEN Requests ELSE Greetings
    /\ kind = "connector" => target.atyp \in {IPv4, Domain, IPv6}
    /\ ConnInit

(* The deadline DialWithTimeout sets before the handshake and takes away   *)
(* after it                                                                *)
Timeout ==
    /\ kind = "connector" /\ Shaking("client")
    /\ Closes("client")
    /\ UNCHANGED <<config, wire, buf, held, parsed, userVars, history>>

Acceptor == SocksAccept \/ SocksRead \/ SocksAnswer \/ HttpAccept \/ HttpRead \/ HttpReturn
Client == SocksDial \/ SocksClientRead \/ HttpDial \/ HttpClientRead

ShakeNext ==
    \/ Acceptor \/ Client \/ Timeout
    \/ \E e \in Ends : UserSend(e) \/ UserRead(e) \/ Leave(e) \/ Fails(e)

ShakeSpec == ShakeInit /\ [][ShakeNext]_proxyVars

(* The goroutines run, the hook answers, and the client goes on with what  *)
(* it began.  No user has to send, to read or to leave, and the deadline,  *)
(* which may be an hour, does not have to save anybody.                    *)
ShakeFairSpec ==
    /\ ShakeSpec
    /\ WF_proxyVars(Acceptor) /\ WF_proxyVars(Client)
    /\ \A e \in Ends : WF_proxyVars(Fails(e))

-----------------------------------------------------------------------------
(* What the user of e should read: what its peer sent, behind the          *)
(* rewritten request of a GET.                                             *)
Due(e) ==
    (IF e = "server" /\ opening = Header(GET) \o Body
     THEN <<Rewritten>> \o Tail(opening) ELSE <<>>)
        \o [n \in 1 .. sent[Peer(e)] |-> Data(Peer(e), n)]

(* The code loses or pads the stream at two places: data that came with a  *)
(* socks request, and data that came with the response of an http proxy.   *)
Spoilt(e) ==
    glued[e] /\ IF e = "server" THEN proto = "socks" ELSE proto = "http" /\ kind = "connector"

(* Not a byte of the handshake reaches a user, and none of the users' is   *)
(* lost, however the handshake is cut and what is glued to it.             *)
StreamKept == \A e \in Ends : Spoilt(e) \/ IsPrefix(got[e] \o held[e], Due(e))

(* A client takes the proxy for connected only if the acceptor returned    *)
(* its connection or is about to, with the host that was asked for; the    *)
(* exception is a high port behind an http CONNECT, which is answered      *)
(* before it is refused.                                                   *)
HandshakeAgrees ==
    /\ (pc["server"] = "open" /\ proto = "socks") =>
           parsed = [atyp |-> target.atyp, addr |-> Address(target), port |-> Port]
    /\ (pc["client"] = "open" /\ opening # Header(GET) \o Body) =>
           returned \/ pc["server"] = "host" \/ (proto = "http" /\ target.high)

(* A client with a host the hook allows and a method the proxy has is not  *)
(* turned away, unless it left or the acceptor's first Read cut its        *)
(* greeting.                                                               *)
WellFormed ==
    /\ proto = "socks" /\ target.atyp \in {IPv4, Domain, IPv6}
    /\ opening[1] = Version /\ \E i \in 3 .. Len(opening) : opening[i] = 0

ServedUnlessCut ==
    (WellFormed /\ pc["server"] \in {"closed", "crashed"}) =>
        returned \/ vetoed \/ fin["client"] \/ first < Len(opening)

(* An answer of less than the ten bytes the connector waits for            *)
ShortAnswer ==
    proto = "socks" /\ kind = "connector" /\ target.atyp = Domain /\ target.len < 3

(* Acceptor and client never wait for each other: every handshake ends for *)
(* the client, refused or not, without a deadline; only an answer that is  *)
(* too short for it leaves the connector to its deadline.                  *)
HandshakeEnds ==
    (Shaking("client") /\ ~ShortAnswer) ~> pc["client"] \in {"open", "closed"}

(* Three expectations the code does not meet.  None is checked by a run;   *)
(* each is violated when it stands alone in the configuration.             *)

(* Data a user sends before its connection is proxied arrives.             *)
EarlyDataKept == \A e \in Ends : IsPrefix(got[e] \o held[e], Due(e))

(* However a greeting is cut, the acceptor does not panic.                 *)
NoPanic == pc["server"] # "crashed"

(* A client that is told it is connected is connected.                     *)
ConnectedIsConnected ==
    (pc["client"] = "open" /\ pc["server"] = "closed" /\ ~returned) =>
        opening = Header(GET) \o Body
=============================================================================
