------------------------------- MODULE Acceptor -------------------------------
(***************************************************************************)
(* Start and Accept of the acceptors: one goroutine takes connections off  *)
(* the listener, one per connection does its handshake, and their results  *)
(* meet the caller's loop in the channel connectionList.  RelayAcceptor    *)
(* (relay_acceptor.go, read by wcf_server.go) sets a deadline, wraps the   *)
(* connection first and goes on after an error of the listener's Accept;   *)
(* SocksAcceptor and HttpAcceptor (read by wcf_local.go) do not.           *)
(***************************************************************************)
EXTENDS Integers, Sequences, SequencesExt

CONSTANTS
    Conns,       \* the connections
    QueueCap,    \* capacity of connectionList (5)
    MaxErrors,   \* bound on the errors of the listener
    None         \* a result that is an error

ASSUME BoundAssumption == QueueCap \in Nat \ {0} /\ MaxErrors \in Nat
ASSUME NoneAssumption == None \notin Conns

VARIABLES
    relay,           \* the acceptor is the relay's
    padded,          \* its transport is tcp_pad
    loop,            \* where the listener's goroutine is
    errors,          \* errors of the listener so far
    orphan,          \* a goroutine was started without a connection
    at,              \* at[c]: where the goroutine of c is
    closed,          \* the connections the acceptor called Close of
    connectionList,  \* the results that wait
    given,           \* the connections Accept returned, in order
    crashed

vars == <<relay, padded, loop, errors, orphan, at, closed, connectionList, given, crashed>>

TypeOK ==
    /\ relay \in BOOLEAN /\ padded \in BOOLEAN /\ loop \in {"accept", "report"} /\ errors \in 0 .. MaxErrors
    /\ orphan \in BOOLEAN /\ crashed \in BOOLEAN
    /\ at \in [Conns -> {"new", "mix", "mixerr", "handshake", "deliver", "fail", "close",
                         "done"}]
    /\ closed \subseteq Conns
    /\ connectionList \in Seq(Conns \cup {None}) /\ Len(connectionList) <= QueueCap
    /\ given \in Seq(Conns)

Init ==
    /\ relay \in BOOLEAN /\ padded \in BOOLEAN /\ (padded => relay)
    /\ loop = "accept" /\ errors = 0 /\ orphan = FALSE
    /\ at = [c \in Conns |-> "new"]
    /\ closed = {} /\ connectionList = <<>> /\ given = <<>> /\ crashed = FALSE

-----------------------------------------------------------------------------
Goto(c, from, to) == ~crashed /\ at[c] = from /\ at' = [at EXCEPT ![c] = to]

(* A send to the channel waits until there is room.                        *)
Send(r) == /\ Len(connectionList) < QueueCap
           /\ connectionList' = Append(connectionList, r)

(* The goroutine of the listener                                           *)
ListenerAccepts(c) ==
    /\ loop = "accept"
    /\ Goto(c, "new", IF relay THEN "mix" ELSE "handshake")
    /\ UNCHANGED <<relay, padded, loop, errors, orphan, closed, connectionList, given, crashed>>

ListenerFails ==
    /\ ~crashed /\ loop = "accept" /\ errors < MaxErrors
    /\ loop' = "report" /\ errors' = errors + 1
    /\ UNCHANGED <<relay, padded, orphan, at, closed, connectionList, given, crashed>>

(* Without a continue the loop goes on to start a goroutine for nil.       *)
ReportError ==
    /\ ~crashed /\ loop = "report" /\ loop' = "accept"
    /\ Send(None)
    /\ orphan' = relay
    /\ UNCHANGED <<relay, padded, errors, at, closed, given, crashed>>

(* SetDeadline of a nil connection                                         *)
OrphanRuns ==
    /\ ~crashed /\ orphan
    /\ crashed' = TRUE
    /\ UNCHANGED <<relay, padded, loop, errors, orphan, at, closed, connectionList, given>>

-----------------------------------------------------------------------------
(* The goroutine of a connection                                           *)

MixOk(c) ==
    /\ Goto(c, "mix", "handshake")
    /\ UNCHANGED <<relay, padded, loop, errors, orphan, closed, connectionList, given, crashed>>

MixFails(c) ==
    /\ Goto(c, "mix", "mixerr")
    /\ Send(None)
    /\ UNCHANGED <<relay, padded, loop, errors, orphan, closed, given, crashed>>

(* The handshake is tried all the same.                                    *)
MixClose(c) ==
    /\ Goto(c, "mixerr", "handshake")
    /\ closed' = closed \cup {c}
    /\ UNCHANGED <<relay, padded, loop, errors, orphan, connectionList, given, crashed>>

(* Close of a padded transport (exchange_conn.go) closes nothing: a client *)
(* that does not encrypt either is then served after all.                  *)
HandshakeOk(c) ==
    /\ c \notin closed \/ padded
    /\ Goto(c, "handshake", "deliver")
    /\ UNCHANGED <<relay, padded, loop, errors, orphan, closed, connectionList, given, crashed>>

HandshakeFails(c) ==
    /\ Goto(c, "handshake", "fail")
    /\ UNCHANGED <<relay, padded, loop, errors, orphan, closed, connectionList, given, crashed>>

(* A Read that fails with an error that is no net.Error, the io.EOF of a   *)
(* padded transport or what a closed kcp session answers, asks for the     *)
(* redirect: DisableDecode of the nil connection a failed mix returned.    *)
RedirectPanics(c) ==
    /\ ~crashed /\ at[c] = "handshake" /\ c \in closed
    /\ crashed' = TRUE
    /\ UNCHANGED <<relay, padded, loop, errors, orphan, at, closed, connectionList, given>>

(* Bug: the result of a failed handshake is the connection.                *)
BugFail(c) ==
    /\ Goto(c, "fail", "close")
    /\ Send(c)
    /\ UNCHANGED <<relay, padded, loop, errors, orphan, closed, given, crashed>>

Fail(c) ==
    /\ Goto(c, "fail", "close")
    /\ Send(None)
    /\ UNCHANGED <<relay, padded, loop, errors, orphan, closed, given, crashed>>

(* Bug: a connection whose handshake failed is left open.                  *)
BugClose(c) ==
    /\ Goto(c, "close", "done")
    /\ UNCHANGED <<relay, padded, loop, errors, orphan, closed, connectionList, given, crashed>>

Close(c) ==
    /\ Goto(c, "close", "done")
    /\ closed' = closed \cup {c}
    /\ UNCHANGED <<relay, padded, loop, errors, orphan, connectionList, given, crashed>>

Deliver(c) ==
    /\ Goto(c, "deliver", "done")
    /\ Send(c)
    /\ UNCHANGED <<relay, padded, loop, errors, orphan, closed, given, crashed>>

(* What the goroutine does without its peer                                *)
Serve(c) == MixOk(c) \/ MixFails(c) \/ MixClose(c) \/ Fail(c) \/ Close(c) \/ Deliver(c)

-----------------------------------------------------------------------------
(* Bug: the caller's loop ends with the first error.                       *)
BugAccept ==
    /\ ~crashed /\ connectionList # <<>> /\ Head(connectionList) # None
    /\ connectionList' = Tail(connectionList)
    /\ given' = Append(given, Head(connectionList))
    /\ UNCHANGED <<relay, padded, loop, errors, orphan, at, closed, crashed>>

(* Accept, and the caller's loop, which logs an error and starts           *)
(* handleProxy for a connection                                            *)
Accept ==
    /\ ~crashed /\ connectionList # <<>>
    /\ connectionList' = Tail(connectionList)
    /\ given' = IF Head(connectionList) = None THEN given
                ELSE Append(given, Head(connectionList))
    /\ UNCHANGED <<relay, padded, loop, errors, orphan, at, closed, crashed>>

Next == \/ ListenerFails \/ ReportError \/ OrphanRuns \/ Accept
        \/ \E c \in Conns : \/ ListenerAccepts(c) \/ Serve(c)
                            \/ HandshakeOk(c) \/ HandshakeFails(c)
                            \/ RedirectPanics(c)

Spec == Init /\ [][Next]_vars

(* Every goroutine runs, and a channel serves its senders in their order.  *)
(* Only the relay's handshake has a deadline: a browser may keep its       *)
(* handshake waiting for ever.                                             *)
FairSpec ==
    /\ Spec /\ WF_vars(Accept) /\ WF_vars(ReportError)
    /\ \A c \in Conns : SF_vars(Serve(c)) /\ WF_vars(relay /\ HandshakeFails(c))

-----------------------------------------------------------------------------
(* A connection has one owner: it is returned by Accept once at most, and  *)
(* never when the acceptor closed or is about to close it.  A padded       *)
(* connection whose mix failed may be returned after its Close, which left *)
(* it open.                                                                *)
OneOwner ==
    LET out == given \o connectionList
    IN  \A c \in Conns :
            /\ Cardinality({k \in DOMAIN out : out[k] = c}) <= 1
            /\ (c \in closed /\ ~padded) \/ at[c] \in {"fail", "close"} => ~Contains(out, c)

(* No connection is forgotten: the relay's acceptor returns or closes each *)
(* one, though errors take room in the channel too.                        *)
ConnAnswered ==
    \A c \in Conns :
        relay /\ at[c] # "new" ~> Contains(given, c) \/ c \in closed \/ crashed

(* A connection whose handshake is done reaches the caller although others *)
(* never finish theirs and the listener fails.                             *)
ReadyIsServed ==
    \A c \in Conns : at[c] = "deliver" ~> Contains(given, c) \/ crashed

(* The callers log "continue" for an error of Accept.                      *)
ErrorIsSurvived == ~crashed
=============================================================================
