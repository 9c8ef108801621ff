----------------------------- MODULE HttpHandshake -----------------------------
(***************************************************************************)
(* proxy/http: HttpAcceptor.Handshake, with net/http's ReadRequest over a  *)
(* bufio.Reader, against the connector of the same package and against     *)
(* other clients.  A header is three units long, whose last ends it; a GET *)
(* carries a body of one unit and is rewritten for the server.             *)
(***************************************************************************)
EXTENDS ProxyConn

Header(verb) == <<verb, 71, 79>>
HeaderLen == 3
CONNECT == 70
GET == 72
Rewritten == 73
BodyLen(header) == IF header[1] = GET THEN 1 ELSE 0
Body == <<75>>

Requests == {Header(CONNECT), Header(GET) \o Body}

HTTP_END == 89
PROXY_RSP_SUCC == <<80, HTTP_END>>

-----------------------------------------------------------------------------
(* The acceptor                                                            *)

HttpAccept ==
    /\ proto = "http" /\ pc["server"] = "start" /\ pc["client"] # "start"
    /\ Goes("server", "header")
    /\ UNCHANGED <<config, wire, fin, buf, held, parsed, userVars, history>>

(* ReadRequest, and for a GET reqToBytes, which reads the body: the answer *)
(* to CONNECT goes out before the host is looked at.                       *)
HttpRead ==
    /\ pc["server"] = "header"
    /\ \E k \in 1 .. Len(wire["client"]) :
           LET read == buf["server"] \o SubSeq(wire["client"], 1, k)
               whole == Len(read) >= HeaderLen /\ Len(read) >= HeaderLen + BodyLen(read)
           IN  /\ Exchange("server", k,
                           IF whole /\ read[1] = CONNECT THEN PROXY_RSP_SUCC ELSE <<>>)
               /\ buf' = [buf EXCEPT !["server"] = read]
               /\ Goes("server", IF whole THEN "host" ELSE "header")
    /\ UNCHANGED <<config, fin, held, parsed, userVars, history>>

(* Bug: the reader's buffer is left behind.                                *)
BugKept(b) == IF b[1] = CONNECT THEN <<>> ELSE <<Rewritten>> \o SubSeq(b, 2, HeaderLen + BodyLen(b))

(* What HttpConn reads first: the rewritten request, and bReader's bytes   *)
Kept(b) == IF b[1] = CONNECT THEN Drop(b, HeaderLen) ELSE <<Rewritten>> \o Tail(b)

(* The port is parsed as a signed 16-bit number: a high one is an error.   *)
GetUrlInfoFails(t) == t.high

(* Handshake after the request, and the HttpConn                           *)
HttpReturn ==
    /\ pc["server"] = "host"
    /\ IF GetUrlInfoFails(target)
       THEN Closes("server") /\ UNCHANGED <<buf, held, glued, parsed, returned>>
       ELSE LET b == buf["server"]
            IN  /\ Opens("server", Kept(b), Len(b) > HeaderLen + BodyLen(b))
                /\ parsed' = target /\ returned' = TRUE
                /\ UNCHANGED fin
    /\ UNCHANGED <<config, wire, userVars, first, vetoed>>

-----------------------------------------------------------------------------
(* The client                                                              *)

(* A GET is not answered by the proxy.                                     *)
HttpDial ==
    /\ proto = "http" /\ pc["client"] = "start"
    /\ Put("client", opening)
    /\ Goes("client", IF opening[1] = GET THEN "open" ELSE "response")
    /\ UNCHANGED <<config, fin, buf, held, parsed, userVars, history>>

(* The bytes behind the response: the connector keeps its buffer to the    *)
(* end, what it read and what it did not.                                  *)
Behind(b, n) ==
    IF n = Len(b) THEN <<>>
    ELSE Drop(b, n) \o IF kind = "connector" THEN Zeros(BufSize - Len(b)) ELSE <<>>

(* One Read of handleShake, or of a browser                                *)
HttpClientRead ==
    /\ pc["client"] = "response"
    /\ \E k \in 1 .. Len(wire["server"]) :
           LET read == buf["client"] \o SubSeq(wire["server"], 1, k)
               loc  == {i \in DOMAIN read : read[i] = HTTP_END}
           IN  /\ Exchange("client", k, <<>>)
               /\ IF loc = {}
                  THEN /\ buf' = [buf EXCEPT !["client"] = read]
                       /\ UNCHANGED <<pc, held, glued>>
                  ELSE \E n \in loc : Opens("client", Behind(read, n), n < Len(read))
    /\ UNCHANGED <<config, fin, parsed, userVars, first, vetoed, returned>>
=============================================================================
