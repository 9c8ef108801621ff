---------------------------- MODULE RemoteServer ----------------------------
(***************************************************************************)
(* wcf_server.go: the handleProxy goroutines of the remote end, from the   *)
(* authenticated handshake to the deferred Release, with the user table    *)
(* that userinfo.go reloads, the per-user contexts of user_context.go, the *)
(* limiter and the report queue.                                           *)
(*                                                                         *)
(* A step is what runs between two points where another goroutine can      *)
(* come in: an RLock, the unlocked read of allctx, mu, a limiter lock, a   *)
(* dial, the pipe, the channel.                                            *)
(***************************************************************************)
EXTENDS Integers, FiniteSets

CONSTANTS
    Users,
    Sess,        \* the goroutines of handleProxy
    Infos,       \* the UserInfo records a users file may hold
    None,        \* no user, no context, no lock holder, a nil *UserInfo
    QueueCap     \* capacity of reportQueue (2000)

ASSUME InfoAssumption == /\ Infos \subseteq [max: Nat \ {0}, forward: BOOLEAN]
                         /\ None \notin Infos \cup Users \cup Sess
ASSUME ContextAssumption == None \notin [cnt: Nat, base: Nat \ {0}]
ASSUME QueueAssumption == QueueCap \in Nat
ASSUME SessAssumption == IsFiniteSet(Sess)

VARIABLES
    table,       \* UserHolder.userinfo: the UserInfo of each user, or None
    allctx,      \* allctx[u]: the Limit of u's UserContext, or None
    mu,          \* the holder of user_context.mu
    pc,          \* pc[s]: where handleProxy is
    user,        \* user[s]: conn.GetUser()
    info,        \* info[s]: the UserInfo handleProxy holds
    queue,       \* the number of reports waiting in reportQueue
    crashed      \* a panic or a fatal error ended the process

vars == <<table, allctx, mu, pc, user, info, queue, crashed>>

Holding == {"admitted", "dial", "redial", "pipe", "report", "release"}
Before == {"free", "redirect", "handle", "peek", "lock", "store", "unlock", "acquire"}
Context == [cnt: Nat, base: Nat \ {0}]

TypeOK ==
    /\ table \in [Users -> Infos \cup {None}]
    /\ allctx \in [Users -> Context \cup {None}]
    /\ mu \in Sess \cup {None}
    /\ pc \in [Sess -> Before \cup Holding]
    /\ user \in [Sess -> Users \cup {None}]
    /\ info \in [Sess -> Infos \cup {None}]
    /\ queue \in 0 .. QueueCap
    /\ crashed \in BOOLEAN

Init ==
    /\ table \in [Users -> Infos \cup {None}]
    /\ allctx = [u \in Users |-> None]
    /\ mu = None
    /\ pc = [s \in Sess |-> "free"]
    /\ user = [s \in Sess |-> None]
    /\ info = [s \in Sess |-> None]
    /\ queue = 0
    /\ crashed = FALSE

At(s, place) == ~crashed /\ pc[s] = place

Goto(s, from, to) == At(s, from) /\ pc' = [pc EXCEPT ![s] = to]

(* handleProxy returns; its deferred calls close the connection.           *)
Finish(s) == /\ pc' = [pc EXCEPT ![s] = "free"]
             /\ user' = [user EXCEPT ![s] = None]
             /\ info' = [info EXCEPT ![s] = None]

-----------------------------------------------------------------------------
(* The users file is reloaded: the map is replaced as a whole, under mu of *)
(* the holder.  A file that does not parse leaves it as it was.            *)
Reload == /\ ~crashed
          /\ table' \in [Users -> Infos \cup {None}]
          /\ UNCHANGED <<allctx, mu, pc, user, info, queue, crashed>>

(* relay_acceptor hands over a connection whose user passed Check.         *)
HandshakeOk(s) ==
    /\ Goto(s, "free", "handle")
    /\ \E u \in Users : table[u] # None /\ user' = [user EXCEPT ![s] = u]
    /\ UNCHANGED <<table, allctx, mu, info, queue, crashed>>

HandshakeErr(s) ==
    /\ Goto(s, "free", "redirect")
    /\ UNCHANGED <<table, allctx, mu, user, info, queue, crashed>>

HandleErrConnect(s) ==
    /\ At(s, "redirect")
    /\ Finish(s)
    /\ UNCHANGED <<table, allctx, mu, queue, crashed>>

GetUserInfo(s) ==
    /\ Goto(s, "handle", "peek")
    /\ info' = [info EXCEPT ![s] = table[user[s]]]
    /\ UNCHANGED <<table, allctx, mu, user, queue, crashed>>

(* GetOrCreateContext                                                      *)

(* info.User of a nil info panics.  The read of allctx outside mu may meet *)
(* another goroutine's write, which the Go runtime may answer with a fatal *)
(* error.                                                                  *)
PeekFails(s) ==
    /\ At(s, "peek")
    /\ info[s] = None \/ \E w \in Sess : pc[w] = "store"
    /\ crashed' = TRUE
    /\ UNCHANGED <<table, allctx, mu, pc, user, info, queue>>

Peek(s) ==
    /\ info[s] # None
    /\ Goto(s, "peek", IF allctx[user[s]] = None THEN "lock" ELSE "acquire")
    /\ UNCHANGED <<table, allctx, mu, user, info, queue, crashed>>

(* Bug: the context is not looked up again under mu.                       *)
BugLock(s) ==
    /\ mu = None
    /\ mu' = s
    /\ Goto(s, "lock", "store")
    /\ UNCHANGED <<table, allctx, user, info, queue, crashed>>

Lock(s) ==
    /\ mu = None
    /\ mu' = s
    /\ Goto(s, "lock", IF allctx[user[s]] = None THEN "store" ELSE "unlock")
    /\ UNCHANGED <<table, allctx, user, info, queue, crashed>>

(* BuildFromUserInfo                                                       *)
Store(s) ==
    /\ Goto(s, "store", "unlock")
    /\ allctx' = [allctx EXCEPT ![user[s]] =
                     [cnt |-> info[s].max, base |-> info[s].max]]
    /\ UNCHANGED <<table, mu, user, info, queue, crashed>>

Unlock(s) ==
    /\ mu' = None
    /\ Goto(s, "unlock", "acquire")
    /\ UNCHANGED <<table, allctx, user, info, queue, crashed>>

TryAcqure(s) ==
    /\ At(s, "acquire")
    /\ IF allctx[user[s]].cnt > 0
       THEN /\ allctx' = [allctx EXCEPT ![user[s]].cnt = @ - 1]
            /\ pc' = [pc EXCEPT ![s] = "admitted"]
            /\ UNCHANGED <<user, info>>
       ELSE Finish(s) /\ UNCHANGED allctx
    /\ UNCHANGED <<table, mu, queue, crashed>>

(* A forward needs EnableForward, any other request a host that is not     *)
(* blocked: host.GetHostRule is left open.                                 *)
Route(s) ==
    /\ At(s, "admitted")
    /\ \E op \in {"proxy", "forward"}, blocked \in BOOLEAN :
           LET denied == IF op = "forward" THEN ~info[s].forward ELSE blocked
           IN  pc' = [pc EXCEPT ![s] = IF denied THEN "release" ELSE "dial"]
    /\ UNCHANGED <<table, allctx, mu, user, info, queue, crashed>>

(* Dial with Timeout, once more with Timeout/2, then Pipe                  *)
Dial(s) ==
    /\ \/ Goto(s, "dial", "pipe") \/ Goto(s, "dial", "redial")
       \/ Goto(s, "redial", "pipe") \/ Goto(s, "redial", "release")
    /\ UNCHANGED <<table, allctx, mu, user, info, queue, crashed>>

(* Pipe, over the connection or, for a user with a speed limit, over the   *)
(* wrapper that delays it                                                  *)
PipeReturns(s) ==
    /\ Goto(s, "pipe", "report")
    /\ UNCHANGED <<table, allctx, mu, user, info, queue, crashed>>

(* Bug: a send that waits for room in the channel.                         *)
BugReport(s) ==
    /\ queue < QueueCap
    /\ Goto(s, "report", "release")
    /\ queue' = queue + 1
    /\ UNCHANGED <<table, allctx, mu, user, info, crashed>>

(* A full queue drops the report.                                          *)
Report(s) ==
    /\ Goto(s, "report", "release")
    /\ queue' = IF queue < QueueCap THEN queue + 1 ELSE queue
    /\ UNCHANGED <<table, allctx, mu, user, info, crashed>>

Release(s) ==
    /\ At(s, "release")
    /\ LET c == allctx[user[s]]
       IN  allctx' = IF c.cnt < c.base THEN [allctx EXCEPT ![user[s]].cnt = @ + 1]
                                       ELSE allctx
    /\ Finish(s)
    /\ UNCHANGED <<table, mu, queue, crashed>>

(* asyncReport: the visitor takes its time.                                *)
OnView == /\ ~crashed /\ queue > 0
          /\ queue' = queue - 1
          /\ UNCHANGED <<table, allctx, mu, pc, user, info, crashed>>

(* What handleProxy does by itself; a pipe and a redirection last as long  *)
(* as their peers.                                                         *)
Step(s) == \/ GetUserInfo(s) \/ PeekFails(s) \/ Peek(s)
           \/ Lock(s) \/ Store(s) \/ Unlock(s) \/ TryAcqure(s) \/ Route(s)
           \/ Dial(s) \/ Report(s) \/ Release(s)

Next ==
    \/ Reload \/ OnView
    \/ \E s \in Sess :
           \/ HandshakeOk(s) \/ HandshakeErr(s) \/ HandleErrConnect(s)
           \/ PipeReturns(s) \/ Step(s)

Spec == Init /\ [][Next]_vars

(* The scheduler runs every goroutine and dials time out; the visitor, the *)
(* peers and the operator need do nothing.                                 *)
FairSpec == Spec /\ \A s \in Sess : WF_vars(Step(s))

-----------------------------------------------------------------------------
Holders(u) == {s \in Sess : user[s] = u /\ pc[s] \in Holding}

(* Every connection of a user that holds a slot is counted once in its     *)
(* limiter, on every return path and although two connections may race to  *)
(* create the user's context: slots neither leak nor multiply.             *)
LimiterConserves ==
    \A u \in Users :
        IF allctx[u] = None THEN Holders(u) = {}
        ELSE allctx[u].cnt + Cardinality(Holders(u)) = allctx[u].base

(* The context of a user, once made, is never replaced by a fresh one.     *)
ContextKept ==
    [][\A u \in Users : allctx[u] # None =>
           allctx'[u] # None /\ allctx'[u].base = allctx[u].base]_vars

(* A connection never waits for ever outside its own pipe: neither the     *)
(* report of a stuck visitor nor another connection's mu holds it.         *)
HandlerMovesOn ==
    \A s \in Sess : pc[s] \notin {"free", "redirect", "pipe"}
                        ~> pc[s] \in {"free", "pipe"} \/ crashed

(* README: max_conn is the maximum number of connections of the user.  The *)
(* limiter keeps the max_conn the user had at its first connection.        *)
MaxConnRespected ==
    [][\A s \in Sess : pc[s] = "acquire" /\ pc'[s] = "admitted" =>
           Cardinality(Holders(user[s]))' <= info[s].max]_vars

(* GetUserInfo answers nil for a user it does not know, and Check tests    *)
(* for it; no user taken off the table brings the process down.            *)
RemovedUserHarmless == \A s \in Sess : pc[s] = "peek" => info[s] # None
=============================================================================
