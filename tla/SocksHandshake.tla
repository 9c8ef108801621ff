----------------------------- MODULE SocksHandshake -----------------------------
(***************************************************************************)
(* proxy/socks: SocksAcceptor.Handshake against the connector of the same  *)
(* package and against other clients.  A Read answers any part of what is  *)
(* on its way.                                                             *)
(***************************************************************************)
EXTENDS ProxyConn

Version == 5
IPv4 == 1
Domain == 3
IPv6 == 4
Port == <<40, 41>>

(* A client's greetings: one method, two with the right one last, none     *)
(* that fits, another protocol                                             *)
Greetings == {<<Version, 1, 0>>, <<Version, 2, 2, 0>>, <<Version, 1, 2>>, <<4, 1, 0>>}

AddrLen(t) == IF t.atyp = IPv4 THEN 4 ELSE IF t.atyp = IPv6 THEN 16 ELSE t.len
Address(t) == [i \in 1 .. AddrLen(t) |-> 50 + i]

BuildSocks5Req(t) ==
    <<Version, 1, 0, t.atyp>> \o (IF t.atyp = Domain THEN <<t.len>> ELSE <<>>)
        \o Address(t) \o Port

(* The length of a request or an answer by its type; 0 for a wrong one     *)
Total(b) ==
    CASE b[4] = IPv4   -> 10
      [] b[4] = Domain -> 7 + b[5]
      [] b[4] = IPv6   -> 22
      [] OTHER         -> 0

-----------------------------------------------------------------------------
(* The acceptor                                                            *)

(* The greeting is looked up in the whole buffer, and what was not read    *)
(* yet is zero there.                                                      *)
InBuffer(b, i) == IF i <= Len(b) THEN b[i] ELSE 0

GreetingLen(b) == InBuffer(b, 2) + 2

(* Bug: only the first method is looked at.                                *)
BugHasMethod(b) == InBuffer(b, 3) = 0

HasMethod(b) == \E i \in 3 .. GreetingLen(b) : InBuffer(b, i) = 0

Judgement(b) ==
    CASE b[1] # Version \/ ~HasMethod(b) -> "refused"
      [] OTHER -> IF GreetingLen(b) <= Len(b) THEN "fine" ELSE "panic"

(* Bug: one byte too few is asked for.                                     *)
BugRequestState(b) ==
    IF Len(b) < 7 THEN "request"
    ELSE IF Total(b) = 0 THEN "closed"
    ELSE IF Len(b) <= Total(b) THEN "request" ELSE "hook"

(* Where the loop over the request goes on                                 *)
RequestState(b) ==
    IF Len(b) < 7 THEN "request"
    ELSE IF Total(b) = 0 THEN "closed"
    ELSE IF Len(b) < Total(b) THEN "request" ELSE "hook"

SocksAccept ==
    /\ proto = "socks" /\ pc["server"] = "start" /\ pc["client"] # "start"
    /\ Goes("server", "greeting")
    /\ UNCHANGED <<config, wire, fin, buf, held, parsed, userVars, history>>

(* One Read of Handshake's loop.  After the greeting's answer the loop     *)
(* goes on with the request in the same buffer; an index below zero is a   *)
(* panic, which ends the process.                                          *)
SocksRead ==
    /\ proto = "socks" /\ pc["server"] \in {"greeting", "request"}
    /\ \E k \in 1 .. Len(wire["client"]) :
           LET new     == pc["server"] = "greeting"
               read    == buf["server"] \o SubSeq(wire["client"], 1, k)
               verdict == IF new THEN Judgement(read) ELSE "fine"
               answer  == CASE ~new                -> <<>>
                            [] verdict = "refused" -> <<Version, 255>>
                            [] OTHER               -> <<Version, 0>>
               left    == IF new /\ verdict = "fine" THEN Drop(read, GreetingLen(read)) ELSE read
               next    == RequestState(left)
           IN  /\ Exchange("server", k, answer)
               /\ first' = IF new THEN k ELSE first
               /\ buf' = [buf EXCEPT !["server"] = left]
               /\ CASE verdict = "panic" -> /\ Goes("server", "crashed")
                                            /\ fin' = [fin EXCEPT !["server"] = TRUE]
                    [] verdict = "refused" \/ (verdict = "fine" /\ next = "closed")
                                         -> Closes("server")
                    [] OTHER             -> Goes("server", next) /\ UNCHANGED fin
    /\ UNCHANGED <<config, held, parsed, userVars, vetoed, returned, glued>>

ParsedFrom(b) ==
    LET from == IF b[4] = Domain THEN 5 ELSE 4
    IN  [atyp |-> b[4], addr |-> SubSeq(b, from + 1, Total(b) - 2),
         port |-> SubSeq(b, Total(b) - 1, Total(b))]

(* Bug: the answer does not say what the hook said.                        *)
BugCode(ck) == 0

Code(ck) == IF ck THEN 0 ELSE 2

(* Bytes that came with the request: the code keeps the unread part of its *)
(* buffer instead.                                                         *)
Spare(b) == IF Total(b) < Len(b) THEN Zeros(BufSize - Len(b)) ELSE <<>>

(* The host hook, the answer, and the SocksConn                            *)
SocksAnswer ==
    /\ pc["server"] = "hook"
    /\ LET b == buf["server"]
       IN  \E ck \in BOOLEAN :
               /\ Put("server", SubSeq([b EXCEPT ![2] = Code(ck)], 1, Total(b)))
               /\ parsed' = ParsedFrom(b)
               /\ vetoed' = ~ck /\ returned' = ck
               /\ IF ck THEN /\ Opens("server", Spare(b), Total(b) < Len(b))
                             /\ UNCHANGED fin
                        ELSE Closes("server") /\ UNCHANGED <<held, glued, buf>>
    /\ UNCHANGED <<config, userVars, first>>

-----------------------------------------------------------------------------
(* The client                                                              *)

(* The connector and an optimist send greeting and request together.       *)
SocksDial ==
    /\ proto = "socks" /\ pc["client"] = "start"
    /\ Put("client", opening \o IF kind = "browser" THEN <<>> ELSE BuildSocks5Req(target))
    /\ Goes("client", "method")
    /\ UNCHANGED <<config, fin, buf, held, parsed, userVars, history>>

(* Bytes of an answer the client waits for before it looks at it.  The     *)
(* connector's CheckSocks5RspResult wants ten, and a short name's answer   *)
(* has less.                                                               *)
AnswerMin == IF kind = "connector" THEN 10 ELSE 5

AnswerState(b) ==
    IF Len(b) < AnswerMin THEN "answer"
    ELSE IF b[2] # 0 THEN "closed"
    ELSE IF Len(b) < Total(b) THEN "answer" ELSE "open"

(* One Read of handleShake, or of a browser: the answer to the greeting    *)
(* and, for all but a browser that has still to ask, the one behind it.    *)
SocksClientRead ==
    /\ proto = "socks" /\ pc["client"] \in {"method", "answer"}
    /\ \E k \in 1 .. Len(wire["server"]) :
           LET new    == pc["client"] = "method"
               read   == buf["client"] \o SubSeq(wire["server"], 1, k)
               whole  == ~new \/ Len(read) >= 2
               asks   == new /\ kind = "browser"
               left   == IF new THEN Drop(read, 2) ELSE read
               state  == IF ~whole THEN "method"
                         ELSE IF new /\ read[2] # 0 THEN "closed" ELSE AnswerState(left)
           IN  /\ Exchange("client", k, IF asks /\ whole /\ state # "closed"
                                        THEN BuildSocks5Req(target) ELSE <<>>)
               /\ CASE state = "closed" -> Closes("client") /\ UNCHANGED <<buf, held, glued>>
                    [] state = "open"   ->
                           /\ Opens("client", Drop(left, Total(left)), Total(left) < Len(left))
                           /\ UNCHANGED fin
                    [] OTHER            ->
                           /\ Goes("client", state)
                           /\ buf' = [buf EXCEPT !["client"] = IF whole THEN left ELSE read]
                           /\ UNCHANGED <<fin, held, glued>>
    /\ UNCHANGED <<config, parsed, userVars, first, vetoed, returned>>
=============================================================================
