------------------------- MODULE RemoteServerProofs -------------------------
(***************************************************************************)
(* For any users, any users files, any number of connections: the limiter  *)
(* of a user always accounts for exactly the connections that hold a slot, *)
(* and the context of a user is made once.  And for any content of the     *)
(* users file, any edits of it and any size of the read buffer: the table  *)
(* that the server looks its users up in is the one the file states.       *)
(***************************************************************************)
EXTENDS RemoteServer, UserHolder, FiniteSetTheorems, WellFoundedInduction, TLAPS

Admissible == {"lock", "store", "unlock", "acquire"} \cup Holding

(* From the lookup on a connection has a user, and past it a UserInfo.     *)
UserInv == \A s \in Sess : /\ pc[s] \notin {"free", "redirect"} => user[s] \in Users
                           /\ pc[s] \in Admissible => info[s] \in Infos

MuInv == \A s \in Sess : pc[s] \in {"store", "unlock"} => mu = s

(* Whoever is about to store a context still finds none: that is what the  *)
(* second lookup under mu is for.                                          *)
ContextInv ==
    \A s \in Sess :
        /\ pc[s] = "store" => allctx[user[s]] = None
        /\ pc[s] \in {"unlock", "acquire"} \cup Holding => allctx[user[s]] \in Context

IInv == TypeOK /\ UserInv /\ MuInv /\ ContextInv /\ LimiterConserves

LEMMA NotNone == \A c \in Context : c # None
BY ContextAssumption DEF Context

LEMMA HoldersFinite == \A u \in Users : IsFiniteSet(Holders(u)) /\ Cardinality(Holders(u)) \in Nat
<1> TAKE u \in Users
<1>1. Holders(u) \in SUBSET Sess
  BY DEF Holders
<1>2. IsFiniteSet(Holders(u))
  BY <1>1, SessAssumption, FS_Subset
<1> QED BY <1>2, FS_CardinalityType

(* A step that moves no connection into or out of the holders and leaves   *)
(* the contexts alone keeps the account.                                   *)
LEMMA SameHolders ==
    ASSUME LimiterConserves, allctx' = allctx,
           \A s \in Sess, u \in Users : (user'[s] = u /\ pc'[s] \in Holding)
                                    <=> (user[s] = u /\ pc[s] \in Holding)
    PROVE  LimiterConserves'
<1>1. \A u \in Users : Holders(u)' = Holders(u)
  BY DEF Holders
<1> QED BY <1>1 DEF LimiterConserves

LEMMA InitIInv == Init => IInv
<1> SUFFICES ASSUME Init PROVE IInv
  OBVIOUS
<1>1. TypeOK
  <2>1. pc \in [Sess -> Before \cup Holding] /\ queue \in 0 .. QueueCap
    BY QueueAssumption DEF Init, Before
  <2> QED BY <2>1 DEF Init, TypeOK
<1>2. UserInv /\ MuInv /\ ContextInv
  BY DEF Init, UserInv, MuInv, ContextInv, Admissible, Holding
<1>3. LimiterConserves
  BY DEF Init, LimiterConserves, Holders, Holding
<1> QED BY <1>1, <1>2, <1>3 DEF IInv

(* The steps that leave the contexts alone and keep s out of the holders,  *)
(* or in them.                                                             *)
Quiet(s) == GetUserInfo(s) \/ Peek(s) \/ Lock(s) \/ Unlock(s) \/ Route(s) \/ Dial(s)
            \/ PipeReturns(s) \/ Report(s) \/ HandshakeOk(s) \/ HandshakeErr(s)

LEMMA QuietStep == ASSUME IInv, NEW s \in Sess, Quiet(s) PROVE IInv'
<1> USE DEF Quiet, Goto, At, Holding, Before
<1>1. /\ allctx' = allctx /\ table' = table /\ crashed' = crashed
      /\ pc' = [pc EXCEPT ![s] = pc'[s]] /\ pc'[s] \in Before \cup Holding
      /\ pc[s] \in Holding <=> pc'[s] \in Holding
      /\ queue' \in 0 .. QueueCap
  <2>1. CASE Route(s) \/ Dial(s)
    BY <2>1, QueueAssumption DEF Route, Dial, IInv, TypeOK
  <2>2. CASE GetUserInfo(s) \/ Peek(s) \/ Lock(s) \/ Unlock(s)
    BY <2>2 DEF GetUserInfo, Peek, Lock, Unlock, IInv, TypeOK
  <2>3. CASE PipeReturns(s) \/ Report(s) \/ HandshakeOk(s) \/ HandshakeErr(s)
    BY <2>3, QueueAssumption DEF PipeReturns, Report, HandshakeOk, HandshakeErr, IInv, TypeOK
  <2> QED BY <2>1, <2>2, <2>3
<1>2. /\ user' \in [Sess -> Users \cup {None}] /\ info' \in [Sess -> Infos \cup {None}]
      /\ \A t \in Sess : t # s => user'[t] = user[t] /\ info'[t] = info[t]
      /\ pc[s] # "free" => user'[s] = user[s]
      /\ pc'[s] \notin {"free", "redirect"} => user'[s] \in Users
      /\ pc'[s] \in Admissible => info'[s] \in Infos
  <2>1. CASE HandshakeOk(s) \/ HandshakeErr(s)
    BY <2>1 DEF HandshakeOk, HandshakeErr, IInv, TypeOK, UserInv, Admissible
  <2>2. CASE GetUserInfo(s)
    BY <2>2 DEF GetUserInfo, IInv, TypeOK, UserInv, Admissible
  <2>3. CASE Peek(s) \/ Lock(s) \/ Unlock(s)
    BY <2>3 DEF Peek, Lock, Unlock, IInv, TypeOK, UserInv, Admissible
  <2>4. CASE Route(s) \/ Dial(s) \/ PipeReturns(s) \/ Report(s)
    BY <2>4 DEF Route, Dial, PipeReturns, Report, IInv, TypeOK, UserInv, Admissible
  <2> QED BY <2>1, <2>2, <2>3, <2>4
<1>3. /\ mu' \in Sess \cup {None}
      /\ \A t \in Sess : t # s /\ pc[t] \in {"store", "unlock"} => mu' = t
      /\ pc'[s] \in {"store", "unlock"} => mu' = s
  <2>1. CASE Lock(s)
    BY <2>1, InfoAssumption DEF Lock, IInv, TypeOK, MuInv
  <2>2. CASE Unlock(s)
    BY <2>2 DEF Unlock, IInv, TypeOK, MuInv
  <2>3. CASE GetUserInfo(s) \/ Peek(s) \/ Route(s) \/ Dial(s) \/ PipeReturns(s)
             \/ Report(s) \/ HandshakeOk(s) \/ HandshakeErr(s)
    BY <2>3 DEF GetUserInfo, Peek, Route, Dial, PipeReturns, Report, HandshakeOk,
                HandshakeErr, IInv, TypeOK, MuInv
  <2> QED BY <2>1, <2>2, <2>3
<1>4. \A t \in Sess : t # s => pc'[t] = pc[t]
  BY <1>1 DEF IInv, TypeOK
<1>5. TypeOK'
  BY <1>1, <1>2, <1>3 DEF IInv, TypeOK
<1>6. UserInv'
  BY <1>1, <1>2, <1>4 DEF IInv, UserInv
<1>7. MuInv'
  BY <1>3, <1>4 DEF MuInv
<1>8. ContextInv'
  <2>1. /\ pc'[s] = "store" => allctx[user'[s]] = None
        /\ pc'[s] \in {"unlock", "acquire"} \cup Holding => allctx[user'[s]] \in Context
    <3>1. CASE Peek(s) \/ Lock(s)
      <4>1. user[s] \in Users /\ user' = user
        BY <3>1 DEF Peek, Lock, IInv, UserInv
      <4> QED BY <3>1, <4>1 DEF Peek, Lock, IInv, TypeOK
    <3>2. CASE Unlock(s) \/ Route(s) \/ Dial(s) \/ PipeReturns(s) \/ Report(s)
      BY <3>2 DEF Unlock, Route, Dial, PipeReturns, Report, IInv, TypeOK, ContextInv
    <3>3. CASE GetUserInfo(s) \/ HandshakeOk(s) \/ HandshakeErr(s)
      BY <3>3 DEF GetUserInfo, HandshakeOk, HandshakeErr, IInv, TypeOK
    <3> QED BY <3>1, <3>2, <3>3
  <2> QED BY <1>1, <1>2, <1>4, <2>1 DEF IInv, ContextInv
<1>9. LimiterConserves'
  <2>1. \A t \in Sess, u \in Users : (user'[t] = u /\ pc'[t] \in Holding)
                                 <=> (user[t] = u /\ pc[t] \in Holding)
    BY <1>1, <1>2, <1>4
  <2> QED BY <1>1, <2>1, SameHolders DEF IInv
<1> QED BY <1>5, <1>6, <1>7, <1>8, <1>9 DEF IInv

LEMMA StoreStep == ASSUME IInv, NEW s \in Sess, Store(s) PROVE IInv'
<1> DEFINE u == user[s]
<1>1. /\ pc[s] = "store" /\ pc' = [pc EXCEPT ![s] = "unlock"]
      /\ allctx' = [allctx EXCEPT ![u] = [cnt |-> info[s].max, base |-> info[s].max]]
      /\ UNCHANGED <<table, mu, user, info, queue, crashed>>
  BY DEF Store, Goto, At
<1>2. u \in Users /\ info[s] \in Infos /\ allctx[u] = None /\ mu = s
  BY <1>1 DEF IInv, UserInv, ContextInv, MuInv, Admissible
<1>3. /\ info[s].max \in Nat \ {0}
      /\ [cnt |-> info[s].max, base |-> info[s].max] \in Context
  BY <1>2, InfoAssumption DEF Context
<1>4. TypeOK'
  <2>1. pc' \in [Sess -> Before \cup Holding]
    BY <1>1 DEF IInv, TypeOK, Before
  <2>2. allctx' \in [Users -> Context \cup {None}]
    BY <1>1, <1>2, <1>3 DEF IInv, TypeOK
  <2> QED BY <1>1, <2>1, <2>2 DEF IInv, TypeOK
<1>5. \A t \in Sess : t # s => pc'[t] = pc[t]
  BY <1>1 DEF IInv, TypeOK
<1>6. pc'[s] = "unlock"
  BY <1>1 DEF IInv, TypeOK
<1>7. UserInv' /\ MuInv'
  BY <1>1, <1>2, <1>5, <1>6 DEF IInv, UserInv, MuInv, Admissible
<1>8. ContextInv'
  <2>1. \A t \in Sess : t # s => pc[t] # "store"
    BY <1>2 DEF IInv, MuInv
  <2>2. \A v \in Users : allctx'[v] = IF v = u THEN [cnt |-> info[s].max, base |-> info[s].max]
                                               ELSE allctx[v]
    BY <1>1 DEF IInv, TypeOK
  <2>3. ASSUME NEW t \in Sess, pc'[t] \in {"unlock", "acquire"} \cup Holding
        PROVE  allctx'[user'[t]] \in Context
    <3>1. CASE t = s
      BY <1>1, <1>2, <1>3, <2>2, <3>1
    <3>2. CASE t # s
      <4>1. user[t] \in Users /\ allctx[user[t]] \in Context
        BY <1>5, <2>3, <3>2 DEF IInv, UserInv, ContextInv, Holding
      <4> QED BY <1>1, <1>3, <2>2, <4>1
    <3> QED BY <3>1, <3>2
  <2> QED BY <1>5, <1>6, <2>1, <2>3 DEF ContextInv
<1>9. LimiterConserves'
  <2>1. \A v \in Users : Holders(v)' = Holders(v)
    BY <1>1, <1>5, <1>6 DEF Holders, Holding
  <2>2. Holders(u) = {}
    BY <1>2 DEF IInv, LimiterConserves
  <2>3. allctx'[u].cnt + Cardinality(Holders(u)) = allctx'[u].base
    BY <1>1, <1>2, <1>3, <2>2, FS_EmptySet DEF IInv, TypeOK
  <2>4. allctx'[u] # None
    BY <1>1, <1>2, <1>3, NotNone DEF IInv, TypeOK
  <2>5. \A v \in Users : v # u => allctx'[v] = allctx[v]
    BY <1>1 DEF IInv, TypeOK
  <2> QED BY <2>1, <2>3, <2>4, <2>5 DEF IInv, LimiterConserves
<1> QED BY <1>4, <1>7, <1>8, <1>9 DEF IInv

(* Finish clears what the goroutine held; it may change one context.       *)
LEMMA FinishKeeps ==
    ASSUME IInv, NEW s \in Sess, Finish(s), UNCHANGED <<table, mu, queue, crashed>>,
           pc[s] \notin {"store", "unlock"},
           allctx' \in [Users -> Context \cup {None}],
           \A u \in Users : /\ allctx[u] = None => allctx'[u] = None
                            /\ allctx[u] \in Context => allctx'[u] \in Context
    PROVE  TypeOK' /\ UserInv' /\ MuInv' /\ ContextInv'
<1>1. /\ pc' = [pc EXCEPT ![s] = "free"]
      /\ user' = [user EXCEPT ![s] = None]
      /\ info' = [info EXCEPT ![s] = None]
  BY DEF Finish
<1>2. TypeOK'
  <2>1. pc' \in [Sess -> Before \cup Holding]
    BY <1>1 DEF IInv, TypeOK, Before
  <2> QED BY <1>1, <2>1 DEF IInv, TypeOK
<1>3. \A t \in Sess : IF t = s THEN pc'[t] = "free"
                      ELSE pc'[t] = pc[t] /\ user'[t] = user[t] /\ info'[t] = info[t]
  BY <1>1 DEF IInv, TypeOK
<1>4. UserInv' /\ MuInv'
  BY <1>3 DEF IInv, UserInv, MuInv, Admissible, Holding
<1>5. ContextInv'
  BY <1>3 DEF IInv, UserInv, ContextInv, Holding
<1> QED BY <1>2, <1>4, <1>5

LEMMA TryAcqureStep == ASSUME IInv, NEW s \in Sess, TryAcqure(s) PROVE IInv'
<1>0. PICK u \in Users : u = user[s]
  BY DEF IInv, UserInv, TryAcqure, At, Before, Holding, Admissible
<1> DEFINE c == allctx[u]
<1>1. pc[s] = "acquire" /\ UNCHANGED <<table, mu, queue, crashed>>
  BY DEF TryAcqure, At
<1>2. u \in Users /\ c \in Context
  BY <1>0, <1>1 DEF IInv, UserInv, ContextInv
<1>3. CASE ~(c.cnt > 0)
  <2>1. Finish(s) /\ allctx' = allctx
    BY <1>0, <1>3 DEF TryAcqure
  <2>2. TypeOK' /\ UserInv' /\ MuInv' /\ ContextInv'
    BY <1>1, <2>1, FinishKeeps DEF IInv, TypeOK
  <2>3. \A t \in Sess, v \in Users : (user'[t] = v /\ pc'[t] \in Holding)
                                 <=> (user[t] = v /\ pc[t] \in Holding)
    BY <1>1, <2>1 DEF Finish, IInv, TypeOK, Holding
  <2>4. LimiterConserves'
    BY <2>1, <2>3, SameHolders DEF IInv
  <2> QED BY <2>2, <2>4 DEF IInv
<1>4. CASE c.cnt > 0
  <2>1. /\ allctx' = [allctx EXCEPT ![u].cnt = @ - 1]
        /\ pc' = [pc EXCEPT ![s] = "admitted"]
        /\ user' = user /\ info' = info
    BY <1>0, <1>4 DEF TryAcqure
  <2>2. /\ allctx'[u] = [c EXCEPT !.cnt = @ - 1]
        /\ \A v \in Users : v # u => allctx'[v] = allctx[v]
    BY <1>2, <2>1 DEF IInv, TypeOK
  <2>3. allctx'[u] \in Context /\ allctx'[u].cnt = c.cnt - 1 /\ allctx'[u].base = c.base
    BY <1>2, <1>4, <2>2 DEF Context
  <2>4. \A t \in Sess : pc'[t] = IF t = s THEN "admitted" ELSE pc[t]
    BY <2>1 DEF IInv, TypeOK
  <2>5. TypeOK'
    <3>1. pc' \in [Sess -> Before \cup Holding]
      BY <2>1 DEF IInv, TypeOK, Holding
    <3>2. allctx' \in [Users -> Context \cup {None}]
      BY <1>2, <2>1, <2>3 DEF IInv, TypeOK
    <3> QED BY <1>1, <2>1, <3>1, <3>2 DEF IInv, TypeOK
  <2>6. UserInv' /\ MuInv'
    BY <1>1, <2>1, <2>4 DEF IInv, UserInv, MuInv, Admissible, Holding
  <2>7. ContextInv'
    <3>1. ASSUME NEW t \in Sess, pc'[t] = "store" PROVE allctx'[user'[t]] = None
      <4>1. pc[t] = "store" /\ user[t] \in Users /\ allctx[user[t]] = None
        BY <2>4, <3>1 DEF IInv, UserInv, ContextInv
      <4>2. user[t] # u
        BY <1>2, <4>1, NotNone
      <4> QED BY <2>1, <2>2, <4>1, <4>2
    <3>2. ASSUME NEW t \in Sess, pc'[t] \in {"unlock", "acquire"} \cup Holding
          PROVE  allctx'[user'[t]] \in Context
      <4>1. user[t] \in Users /\ allctx[user[t]] \in Context
        BY <1>1, <2>4, <3>2 DEF IInv, UserInv, ContextInv, Holding
      <4> QED BY <2>1, <2>2, <2>3, <4>1
    <3> QED BY <3>1, <3>2 DEF ContextInv
  <2>8. LimiterConserves'
    <3>1. Holders(u)' = Holders(u) \cup {s} /\ s \notin Holders(u)
      BY <1>0, <1>1, <2>1, <2>4 DEF Holders, Holding
    <3>2. \A v \in Users : v # u => Holders(v)' = Holders(v)
      BY <1>0, <1>1, <2>1, <2>4 DEF Holders, Holding
    <3>3. Cardinality(Holders(u)') = Cardinality(Holders(u)) + 1
      BY <1>2, <3>1, HoldersFinite, FS_AddElement
    <3>4. c # None /\ c.cnt + Cardinality(Holders(u)) = c.base
      BY <1>2, NotNone DEF IInv, LimiterConserves
    <3>5. allctx'[u] # None /\ allctx'[u].cnt + Cardinality(Holders(u)') = allctx'[u].base
      <4>1. c.cnt \in Nat /\ Cardinality(Holders(u)) \in Nat
        BY <1>2, HoldersFinite DEF Context
      <4>2. allctx'[u] # None
        BY <2>3, NotNone
      <4> HIDE DEF c
      <4> QED BY <2>3, <3>3, <3>4, <4>1, <4>2
    <3>6. ASSUME NEW v \in Users, v # u
          PROVE  IF allctx'[v] = None THEN Holders(v)' = {}
                 ELSE allctx'[v].cnt + Cardinality(Holders(v)') = allctx'[v].base
      BY <2>2, <3>2, <3>6 DEF IInv, LimiterConserves
    <3> SUFFICES ASSUME NEW v \in Users
                 PROVE  IF allctx'[v] = None THEN Holders(v)' = {}
                        ELSE allctx'[v].cnt + Cardinality(Holders(v)') = allctx'[v].base
      BY DEF LimiterConserves
    <3> QED BY <3>5, <3>6
  <2> QED BY <2>5, <2>6, <2>7, <2>8 DEF IInv
<1> QED BY <1>3, <1>4

LEMMA ReleaseStep ==
    ASSUME IInv, NEW s \in Sess, Release(s)
    PROVE  IInv' /\ \A u \in Users : allctx[u] # None =>
                        allctx'[u] # None /\ allctx'[u].base = allctx[u].base
<1>0. PICK u \in Users : u = user[s]
  BY DEF IInv, UserInv, Release, At, Holding
<1> DEFINE c == allctx[u]
<1>1. pc[s] = "release" /\ Finish(s) /\ UNCHANGED <<table, mu, queue, crashed>>
  BY DEF Release, At
<1>2. u \in Users /\ c \in Context
  BY <1>0, <1>1 DEF IInv, UserInv, ContextInv, Holding
<1>3. s \in Holders(u)
  BY <1>0, <1>1 DEF Holders, Holding
<1>4. c # None /\ c.cnt + Cardinality(Holders(u)) = c.base
  BY <1>2, NotNone DEF IInv, LimiterConserves
<1>5. Cardinality(Holders(u)) # 0
  BY <1>2, <1>3, HoldersFinite, FS_EmptySet
<1>6. c.cnt < c.base
  <2>1. c.cnt \in Nat /\ c.base \in Nat /\ Cardinality(Holders(u)) \in Nat
    BY <1>2, HoldersFinite DEF Context
  <2> HIDE DEF c
  <2> QED BY <1>4, <1>5, <2>1
<1>7. allctx' = [allctx EXCEPT ![u].cnt = @ + 1]
  BY <1>0, <1>6 DEF Release
<1>8. /\ allctx'[u] = [c EXCEPT !.cnt = @ + 1]
      /\ \A v \in Users : v # u => allctx'[v] = allctx[v]
  BY <1>2, <1>7 DEF IInv, TypeOK
<1>9. allctx'[u] \in Context /\ allctx'[u].cnt = c.cnt + 1 /\ allctx'[u].base = c.base
  BY <1>2, <1>8 DEF Context
<1>10. TypeOK' /\ UserInv' /\ MuInv' /\ ContextInv'
  <2>1. allctx' \in [Users -> Context \cup {None}]
    BY <1>2, <1>7, <1>9 DEF IInv, TypeOK
  <2>2. \A v \in Users : /\ allctx[v] = None => allctx'[v] = None
                         /\ allctx[v] \in Context => allctx'[v] \in Context
    BY <1>4, <1>8, <1>9
  <2> QED BY <1>1, <2>1, <2>2, FinishKeeps
<1>11. LimiterConserves'
  <2>1. Holders(u)' = Holders(u) \ {s} /\ \A v \in Users : v # u => Holders(v)' = Holders(v)
    <3>1. \A t \in Sess : IF t = s THEN pc'[t] = "free"
                          ELSE pc'[t] = pc[t] /\ user'[t] = user[t]
      BY <1>1 DEF Finish, IInv, TypeOK
    <3>2. Holders(u)' = Holders(u) \ {s}
      BY <3>1 DEF Holders, Holding
    <3>3. ASSUME NEW v \in Users, v # u PROVE Holders(v)' = Holders(v)
      <4>1. s \notin Holders(v)
        BY <1>0, <3>3 DEF Holders
      <4>2. s \notin Holders(v)'
        BY <3>1 DEF Holders, Holding
      <4> QED BY <3>1, <4>1, <4>2 DEF Holders
    <3> QED BY <3>2, <3>3
  <2>2. Cardinality(Holders(u)') = Cardinality(Holders(u)) - 1
    BY <1>2, <1>3, <2>1, HoldersFinite, FS_RemoveElement
  <2>3. allctx'[u] # None /\ allctx'[u].cnt + Cardinality(Holders(u)') = allctx'[u].base
    <3>1. c.cnt \in Nat /\ Cardinality(Holders(u)) \in Nat
      BY <1>2, HoldersFinite DEF Context
    <3>2. allctx'[u] # None
      BY <1>9, NotNone
    <3> HIDE DEF c
    <3> QED BY <1>4, <1>9, <2>2, <3>1, <3>2
  <2>4. ASSUME NEW v \in Users, v # u
        PROVE  IF allctx'[v] = None THEN Holders(v)' = {}
               ELSE allctx'[v].cnt + Cardinality(Holders(v)') = allctx'[v].base
    BY <1>8, <2>1, <2>4 DEF IInv, LimiterConserves
  <2> SUFFICES ASSUME NEW v \in Users
               PROVE  IF allctx'[v] = None THEN Holders(v)' = {}
                      ELSE allctx'[v].cnt + Cardinality(Holders(v)') = allctx'[v].base
    BY DEF LimiterConserves
  <2> QED BY <2>3, <2>4
<1>12. \A v \in Users : allctx[v] # None => allctx'[v] # None /\ allctx'[v].base = allctx[v].base
  BY <1>8, <1>9, NotNone
<1> QED BY <1>10, <1>11, <1>12 DEF IInv

(* The steps that change neither the contexts nor a connection that holds  *)
(* a slot.                                                                 *)
LEMMA OtherStep ==
    ASSUME IInv, \/ Reload \/ OnView \/ UNCHANGED vars
                 \/ \E s \in Sess : PeekFails(s) \/ HandleErrConnect(s)
    PROVE  IInv' /\ allctx' = allctx
<1>1. CASE Reload \/ OnView \/ UNCHANGED vars
  <2>1. /\ UNCHANGED <<allctx, mu, pc, user, info, crashed>>
        /\ table' \in [Users -> Infos \cup {None}]
        /\ queue' \in 0 .. QueueCap
    BY <1>1, QueueAssumption DEF Reload, OnView, vars, IInv, TypeOK
  <2>2. TypeOK' /\ UserInv' /\ MuInv' /\ ContextInv'
    BY <2>1 DEF IInv, TypeOK, UserInv, MuInv, ContextInv
  <2>3. LimiterConserves'
    BY <2>1, SameHolders DEF IInv
  <2> QED BY <2>1, <2>2, <2>3 DEF IInv
<1>2. ASSUME NEW s \in Sess, PeekFails(s) PROVE IInv' /\ allctx' = allctx
  <2>1. UNCHANGED <<table, allctx, mu, pc, user, info, queue>> /\ crashed' \in BOOLEAN
    BY <1>2 DEF PeekFails
  <2>2. TypeOK' /\ UserInv' /\ MuInv' /\ ContextInv'
    BY <2>1 DEF IInv, TypeOK, UserInv, MuInv, ContextInv
  <2>3. LimiterConserves'
    BY <2>1, SameHolders DEF IInv
  <2> QED BY <2>1, <2>2, <2>3 DEF IInv
<1>3. ASSUME NEW s \in Sess, HandleErrConnect(s) PROVE IInv' /\ allctx' = allctx
  <2>1. pc[s] = "redirect" /\ Finish(s) /\ UNCHANGED <<table, allctx, mu, queue, crashed>>
    BY <1>3 DEF HandleErrConnect, At
  <2>2. TypeOK' /\ UserInv' /\ MuInv' /\ ContextInv'
    BY <2>1, FinishKeeps DEF IInv, TypeOK
  <2>3. \A t \in Sess, v \in Users : (user'[t] = v /\ pc'[t] \in Holding)
                                 <=> (user[t] = v /\ pc[t] \in Holding)
    BY <2>1 DEF Finish, IInv, TypeOK, Holding
  <2>4. LimiterConserves'
    BY <2>1, <2>3, SameHolders DEF IInv
  <2> QED BY <2>1, <2>2, <2>4 DEF IInv
<1> QED BY <1>1, <1>2, <1>3

Kept(u) == allctx[u] # None => allctx'[u] # None /\ allctx'[u].base = allctx[u].base

LEMMA StepFacts == ASSUME IInv, [Next]_vars PROVE IInv' /\ \A u \in Users : Kept(u)
<1>1. ASSUME NEW s \in Sess, Quiet(s) PROVE IInv' /\ \A u \in Users : Kept(u)
  <2>1. allctx' = allctx
    BY <1>1 DEF Quiet, GetUserInfo, Peek, Lock, Unlock, Route, Dial, PipeReturns,
                Report, HandshakeOk, HandshakeErr
  <2> QED BY <1>1, <2>1, QuietStep DEF Kept
<1>2. ASSUME NEW s \in Sess, Store(s) PROVE IInv' /\ \A u \in Users : Kept(u)
  <2>1. allctx[user[s]] = None /\ \A v \in Users : v # user[s] => allctx'[v] = allctx[v]
    BY <1>2 DEF Store, Goto, At, IInv, ContextInv, TypeOK
  <2> QED BY <1>2, <2>1, StoreStep DEF Kept
<1>3. ASSUME NEW s \in Sess, TryAcqure(s) PROVE IInv' /\ \A u \in Users : Kept(u)
  <2>1. pc[s] = "acquire" /\ user[s] \in Users /\ allctx[user[s]] \in Context
    BY <1>3 DEF TryAcqure, At, IInv, UserInv, ContextInv
  <2>2. IInv'
    BY <1>3, TryAcqureStep
  <2>3. allctx' = allctx \/ allctx' = [allctx EXCEPT ![user[s]].cnt = @ - 1]
    BY <1>3 DEF TryAcqure
  <2>4. \A v \in Users : v # user[s] => allctx'[v] = allctx[v]
    BY <2>1, <2>3 DEF IInv, TypeOK
  <2>5. allctx'[user[s]].base = allctx[user[s]].base /\ allctx'[user[s]] # None
    <3>1. CASE allctx' = allctx
      BY <2>1, <3>1, NotNone
    <3>2. CASE allctx' = [allctx EXCEPT ![user[s]].cnt = @ - 1]
      <4>1. allctx'[user[s]] = [allctx[user[s]] EXCEPT !.cnt = @ - 1]
        BY <2>1, <3>2 DEF IInv, TypeOK
      <4>2. pc'[s] \in {"admitted", "free"}
        BY <1>3 DEF TryAcqure, Finish, IInv, TypeOK
      <4>3. allctx'[user[s]].base = allctx[user[s]].base
        BY <2>1, <4>1 DEF Context
      <4>4. allctx'[user[s]] \in Context
        <5>1. CASE allctx[user[s]].cnt > 0
          <6>1. pc'[s] = "admitted" /\ user' = user
            BY <1>3, <5>1 DEF TryAcqure, IInv, TypeOK
          <6> QED BY <2>2, <6>1 DEF IInv, ContextInv, Holding
        <5>2. CASE ~(allctx[user[s]].cnt > 0)
          <6>1. allctx' = allctx
            BY <1>3, <5>2 DEF TryAcqure
          <6> QED BY <2>1, <6>1
        <5> QED BY <5>1, <5>2
      <4> QED BY <4>3, <4>4, NotNone
    <3> QED BY <2>3, <3>1, <3>2
  <2> QED BY <2>2, <2>4, <2>5 DEF Kept
<1>4. ASSUME NEW s \in Sess, Release(s) PROVE IInv' /\ \A u \in Users : Kept(u)
  BY <1>4, ReleaseStep DEF Kept
<1>5. ASSUME \/ Reload \/ OnView \/ UNCHANGED vars
             \/ \E s \in Sess : PeekFails(s) \/ HandleErrConnect(s)
      PROVE  IInv' /\ \A u \in Users : Kept(u)
  <2>1. IInv' /\ allctx' = allctx
    BY <1>5, OtherStep
  <2> QED BY <2>1 DEF Kept
<1> QED BY <1>1, <1>2, <1>3, <1>4, <1>5 DEF Next, Step, Quiet

LEMMA IInvHolds == Spec => []IInv
<1>1. IInv /\ [Next]_vars => IInv'
  BY StepFacts
<1> QED BY InitIInv, <1>1, PTL DEF Spec

(* No counter of handleProxy leaves its range: a limiter never counts      *)
(* below zero and the report queue never holds more than its capacity.     *)
THEOREM TypeCorrect == Spec => []TypeOK
<1>1. IInv => TypeOK
  BY DEF IInv
<1> QED BY <1>1, IInvHolds, PTL

(* Free slots and connections that hold one always add up to max_conn.     *)
THEOREM SlotsConserved == Spec => []LimiterConserves
<1>1. IInv => LimiterConserves
  BY DEF IInv
<1> QED BY <1>1, IInvHolds, PTL

(* GetOrCreateContext makes the context of a user once.                    *)
THEOREM ContextsKept == Spec => ContextKept
<1> DEFINE A == \A u \in Users : allctx[u] # None =>
                    allctx'[u] # None /\ allctx'[u].base = allctx[u].base
<1>1. IInv /\ [Next]_vars => [A]_vars
  BY StepFacts DEF Kept
<1> QED BY <1>1, IInvHolds, PTL DEF Spec, ContextKept

-----------------------------------------------------------------------------
(* The users file behind the table of users                                *)

USE TimeAssumption, SizeAssumption

LEMMA NatInSet ==
    ASSUME NEW S, 0 \in S, \A n \in Nat : n \in S => n + 1 \in S
    PROVE  Nat \subseteq S
<1> DEFINE Missing == Nat \ S
<1> SUFFICES ASSUME Missing # {} PROVE FALSE
  OBVIOUS
<1>1. PICK x \in Missing : \A y \in Missing : <<y, x>> \notin OpToRel(<, Nat)
  <2>1. Missing \subseteq Nat
    OBVIOUS
  <2> HIDE DEF Missing
  <2> QED BY <2>1, WFMin, NatLessThanWellFounded
<1>2. x - 1 \in Nat /\ (x - 1) + 1 = x
  OBVIOUS
<1>3. <<x - 1, x>> \in OpToRel(<, Nat)
  BY <1>2 DEF OpToRel
<1>4. x - 1 \in S
  BY <1>1, <1>2, <1>3
<1> QED BY <1>2, <1>4

(* What the first rows of s are when they are put behind each other        *)
IsFlat(g, s, m) == g = [i \in 1 .. m |-> IF i = 1 THEN s[i] ELSE g[i - 1] \o s[i]]

LEMMA FlattenUnfolds ==
    ASSUME NEW s, Len(s) \in Nat \ {0}
    PROVE  \E g : IsFlat(g, s, Len(s)) /\ F!FlattenSeq(s) = g[Len(s)]
<1> DEFINE S == {m \in Nat : \E g : IsFlat(g, s, m)}
<1>1. 0 \in S
  <2>1. IsFlat([i \in 1 .. 0 |-> s], s, 0)
    BY DEF IsFlat
  <2> QED BY <2>1
<1>2. ASSUME NEW m \in Nat, m \in S PROVE m + 1 \in S
  <2>1. PICK f : IsFlat(f, s, m)
    BY <1>2
  <2> DEFINE last == IF m + 1 = 1 THEN s[m + 1] ELSE f[m] \o s[m + 1]
             g == [i \in 1 .. m + 1 |-> IF i <= m THEN f[i] ELSE last]
  <2>2. \A i \in 1 .. m : f[i] = IF i = 1 THEN s[i] ELSE f[i - 1] \o s[i]
    BY <2>1 DEF IsFlat
  <2>3. /\ \A i \in 1 .. m : g[i] = f[i]
        /\ g[m + 1] = last /\ (m + 1) - 1 = m /\ (m + 1 # 1 => m \in 1 .. m)
    <3> HIDE DEF last
    <3> QED BY <1>2
  <2>4. \A i \in 1 .. m + 1 : g[i] = IF i = 1 THEN s[i] ELSE g[i - 1] \o s[i]
    <3> SUFFICES ASSUME NEW i \in 1 .. m + 1
                 PROVE  g[i] = IF i = 1 THEN s[i] ELSE g[i - 1] \o s[i]
      OBVIOUS
    <3> HIDE DEF g, last
    <3>1. CASE i = m + 1
      <4>1. i # 1 => g[i - 1] = f[m]
        BY <2>3, <3>1
      <4> QED BY <2>3, <3>1, <4>1 DEF last
    <3>2. CASE i # m + 1
      <4>1. i \in 1 .. m /\ (i # 1 => i - 1 \in 1 .. m)
        BY <3>2
      <4> QED BY <2>2, <2>3, <4>1
    <3> QED BY <3>1, <3>2
  <2>5. IsFlat(g, s, m + 1)
    <3> HIDE DEF last
    <3> QED BY <2>4 DEF IsFlat
  <2> HIDE DEF g
  <2> QED BY <2>5
<1>3. Nat \subseteq S
  <2> HIDE DEF S
  <2> QED BY <1>1, <1>2, NatInSet
<1>4. \E f : IsFlat(f, s, Len(s))
  BY <1>3
<1> DEFINE h == CHOOSE f : IsFlat(f, s, Len(s))
<1>5. IsFlat(h, s, Len(s))
  BY <1>4
<1>6. F!FlattenSeq(s) = h[Len(s)]
  BY DEF F!FlattenSeq, IsFlat
<1> HIDE DEF h
<1> QED BY <1>5, <1>6

Byte == (F!Line \X Nat) \cup {Newline}
Rows(ls) == [k \in 1 .. Len(ls) |-> Append(F!Text(ls[k]), Newline)]

LEMMA RowIs ==
    ASSUME NEW l \in F!Line
    PROVE  LET row == Append(F!Text(l), Newline)
           IN  /\ l.len \in Nat /\ l.len >= 1
               /\ row \in Seq(Byte) /\ Len(row) = l.len + 1 /\ row[l.len + 1] = Newline
               /\ \A i \in 1 .. l.len : row[i] = <<l, i>> /\ row[i] # Newline
<1>1. l.len \in 1 .. MaxLen
  BY DEF F!Line
<1> DEFINE text == F!Text(l)
           n == l.len
<1>2. text = [i \in 1 .. n |-> <<l, i>>]
  BY DEF F!Text
<1>3. n \in Nat /\ n >= 1 /\ \A i \in 1 .. n : <<l, i>> \in Byte
  BY <1>1 DEF Byte
<1> HIDE DEF text, n
<1>4. text \in Seq(Byte) /\ Len(text) = n /\ \A i \in 1 .. n : text[i] = <<l, i>>
  BY <1>2, <1>3
<1>5. Newline \in Byte
  BY DEF Byte
<1>6. \A i \in 1 .. n : <<l, i>> # Newline
  BY <1>1, NewlineAssumption DEF n
<1>7. /\ Append(text, Newline) \in Seq(Byte) /\ Len(Append(text, Newline)) = n + 1
      /\ Append(text, Newline)[n + 1] = Newline
      /\ \A i \in 1 .. n : Append(text, Newline)[i] = text[i]
  BY <1>3, <1>4, <1>5
<1> QED BY <1>3, <1>4, <1>6, <1>7 DEF text, n

(* Where the lines of a file lie among its bytes: line k behind at[k - 1], *)
(* its newline at at[k]                                                    *)
Laid(ls, b, at) ==
    /\ at \in [0 .. Len(ls) -> Nat] /\ at[0] = 0
    /\ b \in Seq(Byte) /\ Len(b) = at[Len(ls)]
    /\ \A k \in 1 .. Len(ls) : /\ at[k] = at[k - 1] + ls[k].len + 1
                               /\ b[at[k]] = Newline
                               /\ \A i \in 1 .. ls[k].len : b[at[k - 1] + i] = <<ls[k], i>>

LEMMA AppendedRow ==
    ASSUME NEW b \in Seq(Byte), NEW row \in Seq(Byte)
    PROVE  /\ b \o row \in Seq(Byte) /\ Len(b \o row) = Len(b) + Len(row)
           /\ \A i \in 1 .. Len(b) : (b \o row)[i] = b[i]
           /\ \A i \in 1 .. Len(row) : (b \o row)[Len(b) + i] = row[i]
OBVIOUS

LEMMA WithinLine ==
    ASSUME NEW p \in Nat, NEW len \in Nat, NEW q \in Nat, NEW m \in Nat, q = p + len + 1, q <= m
    PROVE  q \in 1 .. m /\ \A i \in 1 .. len : p + i \in 1 .. m
OBVIOUS

LEMMA FileIsLaid ==
    ASSUME NEW ls \in Seq(F!Line)
    PROVE  \E at : Laid(ls, F!BytesOf(ls, TRUE), at)
<1> DEFINE n == Len(ls)
           s == Rows(ls)
<1>0. n \in Nat /\ \A k \in 1 .. n : ls[k] \in F!Line
  OBVIOUS
<1>1. Len(s) = n /\ \A k \in 1 .. n : s[k] = Append(F!Text(ls[k]), Newline)
  BY <1>0 DEF Rows
<1>2. F!BytesOf(ls, TRUE) = F!FlattenSeq(s)
  BY DEF F!BytesOf, Rows
<1> HIDE DEF s
<1>3. CASE n = 0
  <2>1. F!BytesOf(ls, TRUE) = s
    BY <1>1, <1>2, <1>3 DEF F!FlattenSeq
  <2>2. s = <<>>
    BY <1>3 DEF Rows, s
  <2> DEFINE at == [k \in 0 .. 0 |-> 0]
  <2>3. Laid(ls, <<>>, at)
    BY <1>3 DEF Laid
  <2> QED BY <2>1, <2>2, <2>3
<1>4. CASE n # 0
  <2>1. PICK g : IsFlat(g, s, n) /\ F!FlattenSeq(s) = g[n]
    BY <1>0, <1>1, <1>4, FlattenUnfolds
  <2> DEFINE at == [k \in 0 .. n |-> IF k = 0 THEN 0 ELSE Len(g[k])]
             P(m) == /\ g[m] \in Seq(Byte)
                     /\ \A k \in 1 .. m :
                           /\ at[k] \in Nat /\ at[k - 1] \in Nat
                           /\ at[k] = at[k - 1] + ls[k].len + 1 /\ at[k] <= Len(g[m])
                           /\ g[m][at[k]] = Newline
                           /\ \A i \in 1 .. ls[k].len : g[m][at[k - 1] + i] = <<ls[k], i>>
             S == {m \in Nat : m \in 1 .. n => P(m)}
  <2>2. \A k \in 1 .. n : g[k] = IF k = 1 THEN s[k] ELSE g[k - 1] \o s[k]
    BY <2>1 DEF IsFlat
  <2>3. at[0] = 0 /\ \A k \in 1 .. n : at[k] = Len(g[k])
    BY <1>0
  <2>4. \A k \in 1 .. n :
           /\ ls[k].len \in Nat /\ ls[k].len >= 1
           /\ s[k] \in Seq(Byte) /\ Len(s[k]) = ls[k].len + 1
           /\ s[k][ls[k].len + 1] = Newline
           /\ \A i \in 1 .. ls[k].len : s[k][i] = <<ls[k], i>>
    <3> SUFFICES ASSUME NEW k \in 1 .. n
                 PROVE  /\ ls[k].len \in Nat /\ ls[k].len >= 1
                        /\ s[k] \in Seq(Byte) /\ Len(s[k]) = ls[k].len + 1
                        /\ s[k][ls[k].len + 1] = Newline
                        /\ \A i \in 1 .. ls[k].len : s[k][i] = <<ls[k], i>>
      OBVIOUS
    <3>1. ls[k] \in F!Line /\ s[k] = Append(F!Text(ls[k]), Newline)
      BY <1>0, <1>1
    <3> HIDE DEF n
    <3> QED BY <3>1, RowIs
  <2> HIDE DEF at
  <2>5. n >= 1 => P(1)
    <3>1. g[1] = s[1] /\ at[1] = Len(s[1])
      BY <1>0, <1>4, <2>2, <2>3
    <3>2. 1 \in 1 .. n
      BY <1>0, <1>4
    <3>3. 1 - 1 = 0 /\ ls[1].len \in Nat /\ at[0] + ls[1].len + 1 = ls[1].len + 1
      BY <3>2, <2>3, <2>4
    <3>4. at[1] = ls[1].len + 1 /\ g[1] \in Seq(Byte) /\ g[1][ls[1].len + 1] = Newline
      BY <3>1, <3>2, <2>4
    <3>5. \A i \in 1 .. ls[1].len : g[1][0 + i] = <<ls[1], i>>
      BY <3>1, <3>2, <2>4
    <3>6. at[1] <= Len(g[1]) /\ at[1] \in Nat /\ at[0] \in Nat
      BY <3>1, <3>3, <3>4, <2>3
    <3>7. \A k \in 1 .. 1 : k = 1
      OBVIOUS
    <3> QED BY <3>3, <3>4, <3>5, <3>6, <3>7, <2>3
  <2>6. ASSUME NEW m \in Nat, m >= 1, m + 1 <= n, P(m) PROVE P(m + 1)
    <3> DEFINE b == g[m]
               l == ls[m + 1]
               row == s[m + 1]
    <3>1. m \in 1 .. n /\ m + 1 \in 1 .. n /\ (m + 1) - 1 = m /\ m + 1 # 1
      BY <2>6, <1>0
    <3>2. g[m + 1] = b \o row
      BY <2>2, <3>1
    <3>3. b \in Seq(Byte)
      BY <2>6
    <3>4. /\ row \in Seq(Byte) /\ Len(row) = l.len + 1 /\ row[l.len + 1] = Newline
          /\ l.len \in Nat /\ \A i \in 1 .. l.len : row[i] = <<l, i>>
      BY <2>4, <3>1
    <3>5. at[m] = Len(b) /\ at[m + 1] = Len(g[m + 1])
      BY <2>3, <3>1
    <3>6. \A k \in 1 .. m :
             /\ at[k] \in Nat /\ at[k - 1] \in Nat
             /\ at[k] = at[k - 1] + ls[k].len + 1 /\ at[k] <= Len(b)
             /\ b[at[k]] = Newline
             /\ \A i \in 1 .. ls[k].len : b[at[k - 1] + i] = <<ls[k], i>>
      BY <2>6
    <3> HIDE DEF P, S
    <3> HIDE DEF b, row, l
    <3>7. /\ b \o row \in Seq(Byte) /\ Len(b \o row) = Len(b) + Len(row)
          /\ \A i \in 1 .. Len(b) : (b \o row)[i] = b[i]
          /\ \A i \in 1 .. Len(row) : (b \o row)[Len(b) + i] = row[i]
      BY <3>3, <3>4, AppendedRow
    <3>8. Len(b) \in Nat /\ g[m + 1] \in Seq(Byte) /\ at[m + 1] = Len(b) + l.len + 1
      <4>1. Len(b) \in Nat
        BY <3>3
      <4>2. g[m + 1] \in Seq(Byte) /\ Len(g[m + 1]) = Len(b) + (l.len + 1)
        BY <3>2, <3>4, <3>7
      <4>3. Len(b) + (l.len + 1) = Len(b) + l.len + 1
        BY <4>1, <3>4
      <4> QED BY <4>1, <4>2, <4>3, <3>5
    <3>9. ASSUME NEW k \in 1 .. m + 1
          PROVE  /\ at[k] \in Nat /\ at[k - 1] \in Nat
                 /\ at[k] = at[k - 1] + ls[k].len + 1 /\ at[k] <= Len(g[m + 1])
                 /\ g[m + 1][at[k]] = Newline
                 /\ \A i \in 1 .. ls[k].len : g[m + 1][at[k - 1] + i] = <<ls[k], i>>
      <4>1. CASE k = m + 1
        <5>1. at[k] = Len(b) + l.len + 1 /\ at[k - 1] = Len(b) /\ ls[k] = l
          BY <4>1, <3>1, <3>5, <3>8 DEF l
        <5>2. (b \o row)[Len(b) + (l.len + 1)] = Newline
          <6>1. l.len + 1 \in 1 .. Len(row)
            BY <3>4
          <6> QED BY <6>1, <3>4, <3>7
        <5>3. Len(b) + (l.len + 1) = Len(b) + l.len + 1
          BY <3>4, <3>8
        <5>4. \A i \in 1 .. l.len : (b \o row)[Len(b) + i] = <<l, i>>
          <6>1. \A i \in 1 .. l.len : i \in 1 .. Len(row)
            BY <3>4
          <6> QED BY <6>1, <3>4, <3>7
        <5>5. at[k] <= Len(g[m + 1])
          BY <4>1, <3>5, <3>8, <3>4
        <5>6. at[k] \in Nat /\ at[k - 1] \in Nat /\ at[k] = at[k - 1] + ls[k].len + 1
          BY <5>1, <3>4, <3>8
        <5>7. g[m + 1][at[k]] = Newline
          BY <5>1, <5>2, <5>3, <3>2
        <5>8. \A i \in 1 .. ls[k].len : g[m + 1][at[k - 1] + i] = <<ls[k], i>>
          BY <5>1, <5>4, <3>2
        <5> QED BY <5>5, <5>6, <5>7, <5>8
      <4>2. CASE k # m + 1
        <5>1. k \in 1 .. m
          BY <4>2, <2>6
        <5>2. /\ at[k] \in Nat /\ at[k - 1] \in Nat /\ ls[k].len \in Nat
              /\ at[k] = at[k - 1] + ls[k].len + 1 /\ at[k] <= Len(b)
              /\ b[at[k]] = Newline /\ \A i \in 1 .. ls[k].len : b[at[k - 1] + i] = <<ls[k], i>>
          <6>1. k \in 1 .. n
            BY <5>1, <3>1
          <6> QED BY <5>1, <6>1, <3>6, <2>4
        <5>3. at[k] \in 1 .. Len(b) /\ \A i \in 1 .. ls[k].len : at[k - 1] + i \in 1 .. Len(b)
          BY <5>2, <3>8, WithinLine
        <5>4. at[k] <= Len(g[m + 1])
          BY <5>2, <3>2, <3>7, <3>8, <3>4
        <5>5. g[m + 1][at[k]] = Newline
          BY <5>2, <5>3, <3>2, <3>7
        <5>6. \A i \in 1 .. ls[k].len : g[m + 1][at[k - 1] + i] = <<ls[k], i>>
          BY <5>2, <5>3, <3>2, <3>7
        <5> QED BY <5>2, <5>4, <5>5, <5>6
      <4> QED BY <4>1, <4>2
    <3> QED BY <3>8, <3>9 DEF P
  <2>7. Nat \subseteq S
    <3> HIDE DEF P
    <3>1. 0 \in S
      OBVIOUS
    <3>2. ASSUME NEW m \in Nat, m \in S PROVE m + 1 \in S
      <4>1. CASE m = 0
        <5>1. m + 1 = 1
          BY <4>1
        <5> QED BY <5>1, <2>5, <1>0
      <4>2. CASE m # 0
        BY <4>2, <3>2, <2>6, <1>0
      <4> QED BY <4>1, <4>2
    <3> HIDE DEF S
    <3> QED BY <3>1, <3>2, NatInSet
  <2>8. P(n)
    <3> HIDE DEF P
    <3> QED BY <1>0, <1>4, <2>7
  <2>9. \A k \in 0 .. n : at[k] \in Nat
    BY <1>0, <2>3, <2>8
  <2>10. at \in [0 .. n -> Nat] /\ at[n] = Len(g[n])
    <3>1. at = [k \in 0 .. n |-> at[k]]
      BY DEF at
    <3>2. n \in 1 .. n
      BY <1>0, <1>4
    <3>3. at[n] = Len(g[n])
      BY <3>2, <2>3
    <3> HIDE DEF P
    <3> QED BY <3>1, <3>3, <2>9
  <2>11. Laid(ls, g[n], at)
    BY <2>3, <2>8, <2>10, <1>0 DEF Laid
  <2> QED BY <1>2, <2>1, <2>11
<1> QED BY <1>3, <1>4

-----------------------------------------------------------------------------
(* The invariant                                                           *)

Content == [lines: Seq(F!Line), ended: BOOLEAN]
Starts(ls) == CHOOSE at : Laid(ls, F!BytesOf(ls, TRUE), at)

(* The file still is what it was when its time was m or less.              *)
Unmoved(m) == Loadable /\ ~silent /\ mtime <= m

(* No time that was noted is later than all the file ever had.             *)
TimeInv ==
    /\ mtime \in Nat /\ newest \in Nat /\ cmParam \in Nat /\ param \in Nat
    /\ mtime <= newest /\ cmParam <= newest /\ param <= newest
    /\ exists \in BOOLEAN /\ silent \in BOOLEAN /\ disk \in Content

(* A load begins with empty locals, and there is one loader.               *)
Fresh ==
    /\ buf = [n \in 1 .. BufSize |-> Newline] /\ r = 0 /\ w = 0 /\ pos = 0 /\ eof = FALSE
    /\ lines = <<>> /\ parsed = 0 /\ userinfo = [u \in Accounts |-> Nobody]

LoaderInv ==
    /\ caller \in {"stat", "add", "start", "failed"} => loader = "off"
    /\ loader # "load" => reading = "closed"
    /\ reading = "closed" => Fresh
    /\ buf = [n \in 1 .. BufSize |-> buf[n]]

(* The whole file is in the buffer, and its first k lines are collected.   *)
InBuffer == \A n \in 1 .. Len(F!BytesOf(file, TRUE)) : buf[n] = F!BytesOf(file, TRUE)[n]
Collected(k) ==
    lines = [j \in 1 .. k |-> [off |-> Starts(file)[j - 1], len |-> file[j].len]]

(* A read that nobody disturbed                                            *)
Reading ==
    /\ parsed = 0 /\ userinfo = [u \in Accounts |-> Nobody]
    /\ InBuffer /\ pos = Len(F!BytesOf(file, TRUE))
    /\ \E k \in 0 .. Len(file) :
           /\ Collected(k)
           /\ \/ eof = FALSE /\ r = Starts(file)[k] /\ w = pos
              \/ eof = TRUE /\ r = 0 /\ w = 0 /\ k = Len(file)

Parsing ==
    /\ InBuffer /\ Collected(Len(file))
    /\ parsed \in 0 .. Len(file)
    /\ userinfo = F!Stated(SubSeq(file, 1, parsed))

CleanRead ==
    /\ file = disk.lines /\ ended = TRUE
    /\ reading \in {"read", "parse", "done"}
    /\ reading = "read" => Fresh \/ Reading
    /\ reading = "parse" => Parsing
    /\ reading = "done" => userinfo = F!Stated(file)

(* What is read, what was read and what is in use is the file's content,   *)
(* unless the file has moved since its time was noted.                     *)
ContentInv ==
    /\ loader = "load" /\ reading # "closed" /\ Unmoved(param) => CleanRead
    /\ loader = "finish" /\ data # Bad /\ Unmoved(param) => data = F!Stated(disk.lines)
    /\ Unmoved(cmParam) => active = F!Stated(disk.lines)

HolderInv == TimeInv /\ LoaderInv /\ ContentInv

-----------------------------------------------------------------------------
(* The content of a file                                                   *)

LEMMA StartsLaid ==
    ASSUME NEW ls \in Seq(F!Line)
    PROVE  Laid(ls, F!BytesOf(ls, TRUE), Starts(ls))
BY FileIsLaid DEF Starts

(* Every line takes room.                                                  *)
LEMMA StartsGrow ==
    ASSUME NEW ls \in Seq(F!Line), NEW k \in 0 .. Len(ls)
    PROVE  /\ Starts(ls)[k] \in Nat /\ Len(ls) \in Nat
           /\ Starts(ls)[k] + (Len(ls) - k) <= Len(F!BytesOf(ls, TRUE))
<1> DEFINE n == Len(ls)
           at == Starts(ls)
           S == {d \in Nat : \A i \in 0 .. n : i + d = n => at[i] + d <= at[n]}
<1>1. /\ n \in Nat /\ at \in [0 .. n -> Nat] /\ Len(F!BytesOf(ls, TRUE)) = at[n]
      /\ \A i \in 1 .. n : at[i] = at[i - 1] + ls[i].len + 1
  <2>1. Laid(ls, F!BytesOf(ls, TRUE), at)
    BY StartsLaid
  <2>2. n \in Nat
    OBVIOUS
  <2> QED BY <2>1, <2>2 DEF Laid
<1>2. \A i \in 1 .. n : ls[i].len \in Nat
  BY <1>1, RowIs
<1>0. k \in 0 .. n
  OBVIOUS
<1> HIDE DEF n, at
<1>3. 0 \in S
  BY <1>1
<1>4. ASSUME NEW d \in Nat, d \in S PROVE d + 1 \in S
  <2> SUFFICES ASSUME NEW i \in 0 .. n, i + (d + 1) = n PROVE at[i] + (d + 1) <= at[n]
    OBVIOUS
  <2>1. i + 1 \in 1 .. n /\ i + 1 \in 0 .. n /\ (i + 1) - 1 = i /\ (i + 1) + d = n
    BY <1>1
  <2>2. at[i + 1] + d <= at[n]
    BY <2>1, <1>4
  <2>3. at[i + 1] = at[i] + ls[i + 1].len + 1 /\ ls[i + 1].len \in Nat
    BY <1>1, <1>2, <2>1
  <2>4. at[i] \in Nat /\ at[i + 1] \in Nat /\ at[n] \in Nat
    <3>1. n \in 0 .. n
      BY <1>1
    <3> QED BY <1>1, <2>1, <3>1
  <2> DEFINE x == at[i]
             y == at[i + 1]
             z == at[n]
             len == ls[i + 1].len
  <2>5. y + d <= z /\ y = x + len + 1 /\ x \in Nat /\ y \in Nat /\ z \in Nat /\ len \in Nat
    BY <2>2, <2>3, <2>4
  <2> HIDE DEF x, y, z, len
  <2>6. x + (d + 1) <= z
    BY <2>5
  <2> QED BY <2>6 DEF x, z
<1>5. Nat \subseteq S
  <2> HIDE DEF S
  <2> QED BY <1>3, <1>4, NatInSet
<1>6. n - k \in Nat /\ k + (n - k) = n /\ at[k] \in Nat
  BY <1>1, <1>0
<1>7. at[k] + (n - k) <= at[n]
  BY <1>0, <1>5, <1>6
<1> QED BY <1>1, <1>6, <1>7 DEF n, at

(* The k-th line is what the file has from its start to its newline.       *)
LEMMA LineAt ==
    ASSUME NEW ls \in Seq(F!Line), NEW k \in 1 .. Len(ls)
    PROVE  LET at == Starts(ls)
               b == F!BytesOf(ls, TRUE)
           IN  /\ ls[k] \in F!Line /\ ls[k].len \in Nat /\ ls[k].len >= 1
               /\ at[k - 1] \in Nat /\ at[k] = at[k - 1] + ls[k].len + 1 /\ at[k] <= Len(b)
               /\ b[at[k]] = Newline
               /\ \A i \in 1 .. ls[k].len : /\ b[at[k - 1] + i] = <<ls[k], i>>
                                            /\ b[at[k - 1] + i] # Newline
<1>1. Laid(ls, F!BytesOf(ls, TRUE), Starts(ls))
  BY StartsLaid
<1>2. ls[k] \in F!Line /\ k - 1 \in 0 .. Len(ls) /\ k \in 0 .. Len(ls) /\ Len(ls) \in Nat
  OBVIOUS
<1>3. ls[k].len \in Nat /\ ls[k].len >= 1 /\ \A i \in 1 .. ls[k].len : <<ls[k], i>> # Newline
  BY <1>2, RowIs
<1>4. Starts(ls)[k - 1] \in Nat
  BY <1>1, <1>2 DEF Laid
<1>5. /\ Starts(ls)[k] \in Nat /\ Len(F!BytesOf(ls, TRUE)) \in Nat
      /\ Starts(ls)[k] + (Len(ls) - k) <= Len(F!BytesOf(ls, TRUE))
  <2>0. Len(ls) \in 0 .. Len(ls)
    BY <1>2
  <2>1. Len(F!BytesOf(ls, TRUE)) = Starts(ls)[Len(ls)] /\ Len(ls) \in 0 .. Len(ls)
    BY <1>1, <2>0 DEF Laid
  <2>2. Starts(ls)[Len(ls)] \in Nat
    BY <2>1, <1>1 DEF Laid
  <2> QED BY <2>1, <2>2, <1>2, StartsGrow
<1>6. Starts(ls)[k] <= Len(F!BytesOf(ls, TRUE))
  <2>1. \A p \in Nat, q \in Nat, d \in Nat : p + d <= q => p <= q
    OBVIOUS
  <2>2. Len(ls) - k \in Nat
    BY <1>2
  <2> QED BY <1>5, <2>1, <2>2
<1>7. /\ Starts(ls)[k] = Starts(ls)[k - 1] + ls[k].len + 1
      /\ F!BytesOf(ls, TRUE)[Starts(ls)[k]] = Newline
      /\ \A i \in 1 .. ls[k].len : F!BytesOf(ls, TRUE)[Starts(ls)[k - 1] + i] = <<ls[k], i>>
  BY <1>1 DEF Laid
<1> QED BY <1>2, <1>3, <1>4, <1>6, <1>7

LEMMA HasLast ==
    ASSUME NEW m \in Nat, NEW A \in SUBSET (1 .. m), A # {}
    PROVE  \E x \in A : \A y \in A : y <= x
<1> DEFINE U == {n \in Nat : \A y \in A : y <= n}
<1>1. U \subseteq Nat /\ m \in U
  OBVIOUS
<1>2. PICK x \in U : \A y \in U : <<y, x>> \notin OpToRel(<, Nat)
  <2> HIDE DEF U
  <2> QED BY <1>1, WFMin, NatLessThanWellFounded
<1>5. x \in Nat /\ \A y \in A : y <= x
  BY <1>2
<1>0. \A y \in A : y \in Nat /\ y >= 1
  OBVIOUS
<1>3. CASE x \in A
  BY <1>2, <1>3
<1>4. CASE x \notin A
  <2>1. PICK z \in A : TRUE
    OBVIOUS
  <2>2. z \in Nat /\ z >= 1 /\ z <= x /\ x \in Nat
    BY <1>0, <1>5
  <2>3. x - 1 \in U
    <3>1. \A y \in A : y \in Nat /\ y <= x /\ y # x
      BY <1>0, <1>4, <1>5
    <3>2. \A y \in A : y <= x - 1
      BY <3>1, <2>2
    <3> QED BY <3>2, <2>2
  <2>4. <<x - 1, x>> \in OpToRel(<, Nat)
    BY <2>3 DEF OpToRel
  <2> QED BY <1>2, <2>3, <2>4
<1> QED BY <1>3, <1>4

(* What the first lines state                                              *)
LEMMA NoneStated == F!Stated(<<>>) = [u \in Accounts |-> Nobody]
BY DEF F!Stated

LEMMA StatedNext ==
    ASSUME NEW ls \in Seq(F!Line), NEW m \in Nat, m + 1 <= Len(ls),
           ls[m + 1].user # Nobody
    PROVE  F!Stated(SubSeq(ls, 1, m + 1)) =
               [F!Stated(SubSeq(ls, 1, m)) EXCEPT ![ls[m + 1].user] = F!MaxConn(ls[m + 1])]
<1> DEFINE s == SubSeq(ls, 1, m)
           t == SubSeq(ls, 1, m + 1)
           l == ls[m + 1]
           About(q, u) == {n \in DOMAIN q : q[n].user = u}
           Last(q, u) == CHOOSE n \in About(q, u) : \A k \in About(q, u) : k <= n
           Limit(x) == IF x.max > 0 THEN x.max ELSE F!DefaultMaxConn
           Entry(q, u) == IF About(q, u) = {} THEN Nobody ELSE Limit(q[Last(q, u)])
<1>1. Len(ls) \in Nat /\ m + 1 \in 1 .. Len(ls)
  OBVIOUS
<1>2. /\ DOMAIN s = 1 .. m /\ DOMAIN t = 1 .. m + 1 /\ t[m + 1] = l
      /\ \A n \in 1 .. m : s[n] = ls[n] /\ t[n] = ls[n]
  BY <1>1
<1>3. l \in F!Line /\ l.user \in Accounts /\ l.max \in Int
  <2>1. l \in F!Line
    BY <1>1
  <2> QED BY <2>1 DEF F!Line
<1>4. F!MaxConn(l) = Limit(l)
  BY <1>3 DEF F!MaxConn
<1>5. /\ F!Stated(s) = [u \in Accounts |-> Entry(s, u)]
      /\ F!Stated(t) = [u \in Accounts |-> Entry(t, u)]
  BY DEF F!Stated
<1> HIDE DEF s, t, l, Limit
<1>6. Entry(t, l.user) = Limit(l)
  <2>1. m + 1 \in About(t, l.user) /\ \A k \in About(t, l.user) : k <= m + 1
    BY <1>2
  <2>2. Last(t, l.user) \in About(t, l.user) /\ m + 1 <= Last(t, l.user)
    BY <2>1
  <2>3. Last(t, l.user) = m + 1
    BY <1>2, <2>1, <2>2
  <2> HIDE DEF Last
  <2> QED BY <1>2, <2>1, <2>3
<1>7. ASSUME NEW u \in Accounts, u # l.user PROVE Entry(t, u) = Entry(s, u)
  <2>1. About(t, u) = About(s, u)
    BY <1>2, <1>7
  <2>2. Last(t, u) = Last(s, u)
    BY <2>1
  <2>3. CASE About(s, u) = {}
    BY <2>1, <2>3
  <2>4. CASE About(s, u) # {}
    <3>1. About(s, u) \in SUBSET (1 .. m)
      BY <1>2
    <3>2. \E x \in About(s, u) : \A y \in About(s, u) : y <= x
      <4> HIDE DEF About
      <4> QED BY <3>1, <2>4, HasLast
    <3>3. Last(s, u) \in 1 .. m
      <4> HIDE DEF About
      <4> QED BY <3>1, <3>2
    <3>4. s[Last(s, u)] = t[Last(t, u)]
      <4> HIDE DEF Last
      <4> QED BY <3>3, <2>2, <1>2
    <3> HIDE DEF Last, About
    <3> QED BY <2>1, <3>4
  <2> QED BY <2>3, <2>4
<1> HIDE DEF Entry
<1> QED BY <1>3, <1>4, <1>5, <1>6, <1>7 DEF s, t, l

-----------------------------------------------------------------------------
(* The steps of a read that nobody disturbs                                *)

(* A file that fits the buffer                                             *)
Fits == /\ file \in Seq(F!Line) /\ ended = TRUE /\ F!Fine(file)
        /\ Len(F!BytesOf(file, TRUE)) <= BufSize

LEMMA CollectedNone == ASSUME lines = <<>> PROVE Collected(0)
BY DEF Collected

LEMMA FitsFacts ==
    ASSUME Fits
    PROVE  /\ Len(F!BytesOf(file, TRUE)) \in Nat /\ Len(file) \in Nat
           /\ Starts(file)[0] = 0
           /\ Starts(file)[Len(file)] = Len(F!BytesOf(file, TRUE))
<1>1. file \in Seq(F!Line)
  BY DEF Fits
<1>2. Laid(file, F!BytesOf(file, TRUE), Starts(file))
  BY <1>1, StartsLaid
<1>3. Len(file) \in Nat /\ Len(file) \in 0 .. Len(file)
  BY <1>1
<1> QED BY <1>2, <1>3 DEF Laid

(* As long as a line is left, its end is in the buffer.                    *)
LEMMA NextLine ==
    ASSUME Fits, InBuffer, NEW k \in 0 .. Len(file), k # Len(file),
           r = Starts(file)[k], w = Len(F!BytesOf(file, TRUE))
    PROVE  /\ F!Ends # {} /\ F!NextEnd = Starts(file)[k + 1] /\ r \in Nat
           /\ k + 1 \in 1 .. Len(file)
           /\ F!NextEnd - 1 - r = file[k + 1].len
<1> DEFINE at == Starts(file)
           b == F!BytesOf(file, TRUE)
           l == file[k + 1]
           e == at[k + 1]
<1>1. k \in Nat /\ k + 1 \in 1 .. Len(file) /\ (k + 1) - 1 = k
  BY FitsFacts
<1>2. /\ l.len \in Nat /\ l.len >= 1 /\ at[k] \in Nat
      /\ e = at[k] + l.len + 1 /\ e <= Len(b) /\ b[e] = Newline
      /\ \A i \in 1 .. l.len : b[at[k] + i] # Newline
  <2>1. file \in Seq(F!Line)
    BY DEF Fits
  <2> DEFINE j == k + 1
  <2>2. /\ file[j].len \in Nat /\ file[j].len >= 1 /\ at[j - 1] \in Nat
        /\ at[j] = at[j - 1] + file[j].len + 1 /\ at[j] <= Len(b) /\ b[at[j]] = Newline
        /\ \A i \in 1 .. file[j].len : b[at[j - 1] + i] # Newline
    <3>1. j \in 1 .. Len(file)
      BY <1>1
    <3> HIDE DEF j
    <3> QED BY <2>1, <3>1, LineAt
  <2>3. j - 1 = k
    BY <1>1
  <2> QED BY <2>2, <2>3
<1>3. r = at[k] /\ w = Len(b) /\ Len(b) \in Nat
  BY FitsFacts
<1>4. \A n \in 1 .. Len(b) : buf[n] = b[n]
  BY DEF InBuffer
<1> HIDE DEF at, b, l, e
<1>5. e \in r + 1 .. w /\ e \in 1 .. Len(b) /\ buf[e] = Newline
  <2>1. e \in Nat /\ e >= at[k] + 1 /\ e >= 1
    BY <1>2
  <2>2. e \in 1 .. Len(b)
    BY <2>1, <1>2, <1>3
  <2>3. e \in r + 1 .. w
    <3>1. e \in at[k] + 1 .. Len(b)
      BY <2>1, <2>2, <1>2, <1>3
    <3> QED BY <3>1, <1>3
  <2> QED BY <2>2, <2>3, <1>2, <1>4
<1>6. e \in F!Ends
  BY <1>5 DEF F!Ends
<1>7. ASSUME NEW n \in F!Ends PROVE e <= n
  <2>1. n \in r + 1 .. w /\ buf[n] = Newline
    BY DEF F!Ends
  <2>2. n \in 1 .. Len(b) /\ n \in Nat
    <3>1. n \in at[k] + 1 .. Len(b) /\ at[k] \in Nat
      BY <2>1, <1>2, <1>3
    <3> QED BY <3>1, <1>3
  <2> SUFFICES ASSUME n < e PROVE FALSE
    BY <2>2, <1>2
  <2>3. n - at[k] \in 1 .. l.len /\ at[k] + (n - at[k]) = n
    BY <2>1, <2>2, <1>2, <1>3
  <2>4. b[n] # Newline
    BY <2>3, <1>2
  <2> QED BY <2>1, <2>2, <2>4, <1>4
<1>8. F!NextEnd = e
  <2>1. F!NextEnd \in F!Ends /\ F!NextEnd <= e
    BY <1>6, <1>7 DEF F!NextEnd
  <2>2. e <= F!NextEnd
    BY <2>1, <1>7
  <2>3. F!NextEnd \in Int /\ e \in Int
    BY <2>1, <1>2, <1>3 DEF F!Ends
  <2> QED BY <2>1, <2>2, <2>3
<1>9. e - 1 - r = l.len
  BY <1>2, <1>3
<1> QED BY <1>1, <1>2, <1>3, <1>6, <1>8, <1>9 DEF at, b, l, e

LEMMA NoEnds == ASSUME r = w, w \in Nat PROVE F!Ends = {}
BY DEF F!Ends

LEMMA ReadingEmpty ==
    ASSUME Fits, Reading, eof = TRUE \/ F!Ends = {}
    PROVE  /\ r = w /\ w \in Nat /\ Collected(Len(file))
           /\ eof = TRUE \/ eof = FALSE
<1>1. PICK k \in 0 .. Len(file) :
          /\ Collected(k)
          /\ \/ eof = FALSE /\ r = Starts(file)[k] /\ w = pos
             \/ eof = TRUE /\ r = 0 /\ w = 0 /\ k = Len(file)
  BY DEF Reading
<1>2. pos = Len(F!BytesOf(file, TRUE)) /\ InBuffer
  BY DEF Reading
<1>3. CASE eof = TRUE /\ r = 0 /\ w = 0 /\ k = Len(file)
  BY <1>1, <1>3
<1>4. CASE eof = FALSE /\ r = Starts(file)[k] /\ w = pos
  <2>1. k = Len(file)
    BY <1>2, <1>4, NextLine
  <2> QED BY <1>1, <1>2, <1>4, <2>1, FitsFacts
<1> QED BY <1>1, <1>3, <1>4

LEMMA CleanReadLine ==
    ASSUME Fits, Fresh \/ Reading, F!ReadLine
    PROVE  Reading'
<1>1. BufSize \in Nat /\ BufSize >= 1
  OBVIOUS
<1>2. ~(w = r /\ w \in Nat)
  <2> SUFFICES ASSUME w = r, w \in Nat PROVE FALSE
    OBVIOUS
  <2>1. F!Ends = {} /\ w - r = 0
    BY NoEnds
  <2> QED BY <1>1, <2>1 DEF F!ReadLine
<1>3. Reading
  BY <1>2 DEF Fresh
<1>4. PICK k \in 0 .. Len(file) :
          /\ Collected(k)
          /\ eof = FALSE /\ r = Starts(file)[k] /\ w = pos
  <2>1. ~(r = 0 /\ w = 0)
    BY <1>2
  <2> QED BY <2>1, <1>3 DEF Reading
<1>5. pos = Len(F!BytesOf(file, TRUE)) /\ InBuffer
  BY <1>3 DEF Reading
<1>6. k # Len(file)
  BY <1>2, <1>4, <1>5, FitsFacts
<1>7. /\ F!Ends # {} /\ F!NextEnd = Starts(file)[k + 1] /\ r \in Nat
      /\ k + 1 \in 1 .. Len(file) /\ F!NextEnd - 1 - r = file[k + 1].len
  BY <1>4, <1>5, <1>6, NextLine
<1>8. /\ lines' = Append(lines, [off |-> r, len |-> file[k + 1].len]) /\ r' = Starts(file)[k + 1]
      /\ UNCHANGED <<file, ended, buf, w, pos, parsed, userinfo, eof>>
  BY <1>7 DEF F!ReadLine, F!Collect
<1>9. Collected(k + 1)'
  <2>1. lines = [j \in 1 .. k |-> [off |-> Starts(file)[j - 1], len |-> file[j].len]]
    BY <1>4 DEF Collected
  <2>2. k \in Nat /\ (k + 1) - 1 = k
    BY FitsFacts
  <2> DEFINE piece(j) == [off |-> Starts(file)[j - 1], len |-> file[j].len]
  <2>3. lines' = Append(lines, piece(k + 1))
    BY <1>4, <1>8, <2>2
  <2> HIDE DEF piece
  <2>4. Append([j \in 1 .. k |-> piece(j)], piece(k + 1)) = [j \in 1 .. k + 1 |-> piece(j)]
    BY <2>2
  <2>5. lines' = [j \in 1 .. k + 1 |-> piece(j)]
    BY <2>1, <2>3, <2>4 DEF piece
  <2> QED BY <2>5, <1>8 DEF Collected, piece
<1>10. InBuffer'
  BY <1>5, <1>8 DEF InBuffer
<1>11. k + 1 \in 0 .. Len(file)
  BY <1>7
<1> QED BY <1>3, <1>4, <1>8, <1>9, <1>10, <1>11 DEF Reading

LEMMA CleanFill ==
    ASSUME Fits, Fresh \/ Reading, F!Fill
    PROVE  Reading'
<1> DEFINE b == F!BytesOf(file, TRUE)
<1>1. /\ UNCHANGED <<file, ended, lines, parsed, userinfo, reading>>
      /\ eof = FALSE /\ F!Ends = {} /\ b = F!Bytes
  <2>1. F!Bytes = b
    BY DEF F!Bytes, Fits
  <2>2. Fresh \/ Reading => eof \in BOOLEAN
    BY DEF Fresh, Reading
  <2> QED BY <2>1, <2>2 DEF F!Fill
<1>2. /\ r = w /\ w \in Nat
      /\ Reading => Collected(Len(file))
  <2>1. Reading => r = w /\ w \in Nat /\ Collected(Len(file))
    BY <1>1, ReadingEmpty
  <2>2. Fresh => r = w /\ w \in Nat
    BY DEF Fresh
  <2> QED BY <2>1, <2>2
<1>3. Len(b) \in Nat /\ Len(b) <= BufSize /\ BufSize \in Nat /\ Len(file) \in Nat
  BY FitsFacts DEF Fits
<1> DEFINE left == IF pos < Len(b) THEN Len(b) - pos ELSE 0
           taken == IF left < BufSize THEN left ELSE BufSize
<1>4. w - r = 0 /\ BufSize - 0 = BufSize
  BY <1>2, <1>3
<1>5. /\ buf' = [n \in 1 .. BufSize |->
                    IF n <= 0 THEN buf[r + n]
                    ELSE IF n <= 0 + taken THEN b[pos + n - 0] ELSE buf[n]]
      /\ r' = 0 /\ w' = 0 + taken /\ pos' = pos + taken /\ eof' = (taken = 0)
  <2> HIDE DEF b
  <2> QED BY <1>1, <1>4 DEF F!Fill
<1> HIDE DEF b
<1>6. CASE Fresh
  <2>1. pos = 0 /\ parsed = 0 /\ userinfo = [u \in Accounts |-> Nobody] /\ Collected(0)
    BY <1>6, CollectedNone DEF Fresh
  <2>2. left = Len(b)
    BY <1>3, <2>1
  <2> HIDE DEF left
  <2>3. taken = Len(b)
    BY <1>3, <2>2
  <2> HIDE DEF taken
  <2>4. w' = Len(b) /\ pos' = Len(b) /\ r' = 0 /\ eof' = (Len(b) = 0)
    BY <1>3, <1>5, <2>1, <2>3
  <2>5. ASSUME NEW n \in 1 .. Len(b) PROVE buf'[n] = b[n]
    <3>1. n \in 1 .. BufSize /\ ~(n <= 0) /\ n <= 0 + Len(b) /\ 0 + n - 0 = n
      BY <1>3
    <3>2. buf'[n] = b[pos + n - 0]
      BY <3>1, <1>5, <2>3
    <3> QED BY <3>1, <3>2, <2>1
  <2>6. InBuffer'
    BY <1>1, <2>5 DEF InBuffer, b
  <2>7. Collected(0)'
    BY <2>1, <1>1 DEF Collected
  <2>8. Starts(file)[0] = 0
    BY FitsFacts
  <2>9. Len(b) = 0 => Len(file) = 0
    <3> SUFFICES ASSUME Len(b) = 0 PROVE Len(file) = 0
      OBVIOUS
    <3>1. 0 \in 0 .. Len(file) /\ file \in Seq(F!Line)
      BY <1>3 DEF Fits
    <3>2. Starts(file)[0] + (Len(file) - 0) <= Len(b)
      BY <3>1, StartsGrow DEF b
    <3> QED BY <3>2, <2>8, <1>3
  <2>10. 0 \in 0 .. Len(file)
    BY <1>3
  <2> QED BY <1>1, <2>1, <2>4, <2>6, <2>7, <2>8, <2>9, <2>10 DEF Reading, b
<1>7. CASE Reading
  <2>1. pos = Len(b) /\ InBuffer /\ parsed = 0 /\ userinfo = [u \in Accounts |-> Nobody]
    BY <1>7 DEF Reading, b
  <2>2. left = 0
    BY <1>3, <2>1
  <2> HIDE DEF left
  <2>3. taken = 0
    BY <1>3, <2>2
  <2> HIDE DEF taken
  <2>4. w' = 0 /\ pos' = Len(b) /\ r' = 0 /\ eof' = TRUE
    <3>1. w' = 0 /\ pos' = Len(b) /\ r' = 0
      BY <1>3, <1>5, <2>1, <2>3
    <3>2. eof' = TRUE
      BY <1>5, <2>3
    <3> QED BY <3>1, <3>2
  <2>5. ASSUME NEW n \in 1 .. Len(b) PROVE buf'[n] = buf[n]
    <3>1. n \in 1 .. BufSize /\ ~(n <= 0) /\ ~(n <= 0 + 0)
      BY <1>3
    <3> QED BY <3>1, <1>5, <2>3
  <2>6. InBuffer'
    BY <1>1, <2>1, <2>5 DEF InBuffer, b
  <2>7. Collected(Len(file))'
    BY <1>1, <1>2, <1>7 DEF Collected
  <2>8. Len(file) \in 0 .. Len(file)
    BY <1>3
  <2> QED BY <1>1, <2>1, <2>4, <2>6, <2>7, <2>8 DEF Reading, b
<1> QED BY <1>6, <1>7

LEMMA CleanReadAllLine ==
    ASSUME Fits, Fresh \/ Reading, F!ReadAllLine
    PROVE  Parsing'
<1>1. eof = TRUE /\ UNCHANGED <<file, ended, buf, r, w, pos, eof, lines, parsed, userinfo>>
  <2>1. Fresh \/ Reading => eof \in BOOLEAN
    BY DEF Fresh, Reading
  <2> QED BY <2>1 DEF F!ReadAllLine, F!readVars
<1>2. Reading
  BY <1>1 DEF Fresh
<1>3. Collected(Len(file)) /\ InBuffer /\ parsed = 0 /\ userinfo = [u \in Accounts |-> Nobody]
  BY <1>1, <1>2, ReadingEmpty DEF Reading
<1>4. Len(file) \in Nat /\ file \in Seq(F!Line)
  BY FitsFacts DEF Fits
<1>5. SubSeq(file, 1, 0) = <<>>
  BY <1>4
<1>6. userinfo = F!Stated(SubSeq(file, 1, 0))
  BY <1>3, <1>5, NoneStated
<1>7. Collected(Len(file))' /\ InBuffer'
  BY <1>1, <1>3 DEF Collected, InBuffer
<1>8. 0 \in 0 .. Len(file)
  BY <1>4
<1> QED BY <1>1, <1>3, <1>6, <1>7, <1>8 DEF Parsing

(* The k-th slice is the k-th line, and can be read as that line only.     *)
LEMMA SliceIsLine ==
    ASSUME Fits, InBuffer, Collected(Len(file)), NEW k \in 1 .. Len(file),
           buf = [n \in 1 .. BufSize |-> buf[n]]
    PROVE  F!Meanings(F!Slice(k)) = {file[k]} /\ file[k] \in F!Line /\ file[k].user # Nobody
<1> DEFINE b == F!BytesOf(file, TRUE)
           l == file[k]
           off == Starts(file)[k - 1]
<1>1. /\ l \in F!Line /\ l.len \in Nat /\ l.len >= 1 /\ off \in Nat
      /\ Starts(file)[k] = off + l.len + 1 /\ Starts(file)[k] <= Len(b)
      /\ \A i \in 1 .. l.len : b[off + i] = <<l, i>>
  <2>1. file \in Seq(F!Line)
    BY DEF Fits
  <2> QED BY <2>1, LineAt
<1>2. Len(b) \in Nat /\ Len(b) <= BufSize /\ BufSize \in Nat
  BY FitsFacts DEF Fits
<1>3. lines[k].off = off /\ lines[k].len = l.len
  BY DEF Collected
<1>4. \A n \in 1 .. Len(b) : buf[n] = b[n]
  BY DEF InBuffer
<1>5. l.user # Nobody
  <2>1. file \in Seq(F!Line) /\ k \in DOMAIN file
    BY DEF Fits
  <2> QED BY <2>1 DEF Fits, F!Fine
<1>6. F!Slice(k) = SubSeq(buf, off + 1, off + l.len)
  BY <1>3 DEF F!Slice
<1> HIDE DEF b, l, off
<1>7. \A i \in 1 .. l.len : off + i \in 1 .. Len(b)
  <2>1. off + l.len <= Len(b)
    BY <1>1, <1>2
  <2> QED BY <2>1, <1>1, <1>2
<1>8. \A i \in 1 .. l.len : buf[off + i] = <<l, i>>
  BY <1>1, <1>4, <1>7
<1>9. F!Slice(k) = [i \in 1 .. l.len |-> <<l, i>>]
  <2> DEFINE S == {buf[n] : n \in 1 .. BufSize}
  <2>1. buf \in Seq(S) /\ Len(buf) = BufSize
    <3>1. [n \in 1 .. BufSize |-> buf[n]] \in [1 .. BufSize -> S]
      OBVIOUS
    <3>2. buf \in [1 .. BufSize -> S]
      BY <3>1
    <3> HIDE DEF S
    <3> QED BY <3>2, <1>2
  <2> HIDE DEF S
  <2>4. off + 1 \in 1 .. Len(buf) /\ off + l.len \in off + 1 .. Len(buf)
    <3>1. off + l.len <= BufSize
      BY <1>1, <1>2
    <3> QED BY <3>1, <2>1, <1>1, <1>2
  <2>5. SubSeq(buf, off + 1, off + l.len)
            = [i \in 1 .. (off + l.len) - (off + 1) + 1 |-> buf[i + (off + 1) - 1]]
    <3> DEFINE p == off + 1
               q == off + l.len
    <3>1. p \in 1 .. Len(buf) /\ q \in p .. Len(buf)
      BY <2>4
    <3> HIDE DEF p, q
    <3>2. SubSeq(buf, p, q) = [i \in 1 .. q - p + 1 |-> buf[i + p - 1]]
      BY <2>1, <3>1
    <3> QED BY <3>2 DEF p, q
  <2>2. (off + l.len) - (off + 1) + 1 = l.len
    BY <1>1
  <2>3. \A i \in 1 .. l.len : i + (off + 1) - 1 = off + i
    BY <1>1
  <2> QED BY <2>5, <2>2, <2>3, <1>6, <1>8
<1>10. F!Text(l) = F!Slice(k)
  BY <1>9 DEF F!Text
<1>11. ASSUME NEW m \in F!Line, F!Text(m) = F!Slice(k) PROVE m = l
  <2>1. [i \in 1 .. m.len |-> <<m, i>>] = [i \in 1 .. l.len |-> <<l, i>>]
    BY <1>9, <1>11 DEF F!Text
  <2>2. 1 \in 1 .. l.len
    BY <1>1
  <2>3. 1 \in 1 .. m.len
    BY <1>11, RowIs
  <2>4. <<m, 1>> = <<l, 1>>
    BY <2>1, <2>2, <2>3
  <2> QED BY <2>4
<1>12. {m \in F!Line : F!Text(m) = F!Slice(k)} = {l}
  BY <1>1, <1>10, <1>11
<1>13. F!Meanings(F!Slice(k)) = {l}
  BY <1>12 DEF F!Meanings
<1> QED BY <1>1, <1>5, <1>13 DEF l

LEMMA CleanParse ==
    ASSUME Fits, Parsing, buf = [n \in 1 .. BufSize |-> buf[n]], F!Parse
    PROVE  Parsing' /\ reading' = reading
<1>1. Collected(Len(file)) /\ InBuffer /\ parsed \in 0 .. Len(file)
      /\ userinfo = F!Stated(SubSeq(file, 1, parsed))
  BY DEF Parsing
<1>2. Len(file) \in Nat /\ file \in Seq(F!Line) /\ parsed \in Nat
  BY <1>1, FitsFacts DEF Fits
<1>3. Len(lines) = Len(file)
  BY <1>1, <1>2 DEF Collected
<1>4. parsed < Len(file) /\ parsed + 1 \in 1 .. Len(file) /\ parsed + 1 <= Len(file)
  BY <1>2, <1>3 DEF F!Parse
<1>5. /\ F!Meanings(F!Slice(parsed + 1)) = {file[parsed + 1]}
      /\ file[parsed + 1].user # Nobody
  BY <1>1, <1>4, SliceIsLine
<1>6. /\ userinfo' = [userinfo EXCEPT ![file[parsed + 1].user] = F!MaxConn(file[parsed + 1])]
      /\ parsed' = parsed + 1 /\ UNCHANGED reading
      /\ UNCHANGED <<file, ended, buf, lines>>
  BY <1>5 DEF F!Parse, F!readVars
<1>7. userinfo' = F!Stated(SubSeq(file, 1, parsed + 1))
  BY <1>1, <1>2, <1>4, <1>5, <1>6, StatedNext
<1>8. Collected(Len(file))' /\ InBuffer'
  BY <1>1, <1>6 DEF Collected, InBuffer
<1>9. parsed + 1 \in 0 .. Len(file)
  BY <1>4
<1> QED BY <1>6, <1>7, <1>8, <1>9 DEF Parsing

LEMMA CleanLoaded ==
    ASSUME Fits, Parsing, F!Loaded
    PROVE  userinfo' = F!Stated(file)
<1>1. Collected(Len(file)) /\ userinfo = F!Stated(SubSeq(file, 1, parsed))
  BY DEF Parsing
<1>2. Len(file) \in Nat /\ file \in Seq(F!Line)
  BY FitsFacts DEF Fits
<1>3. Len(lines) = Len(file)
  BY <1>1, <1>2 DEF Collected
<1>4. parsed = Len(file) /\ userinfo' = userinfo
  BY <1>3 DEF F!Loaded
<1>5. SubSeq(file, 1, Len(file)) = file
  BY <1>2
<1> QED BY <1>1, <1>4, <1>5

LEMMA CleanStep ==
    ASSUME Fits, CleanRead, buf = [n \in 1 .. BufSize |-> buf[n]], disk' = disk, F!Next,
           reading # "closed"
    PROVE  CleanRead'
<1>1. file' = file /\ ended' = ended
  BY DEF F!Next, F!ReadLine, F!Fill, F!ReadAllLine, F!Parse, F!Loaded
<1>2. CASE F!ReadLine
  <2>1. reading = "read" /\ reading' = reading
    BY <1>2 DEF F!ReadLine
  <2> QED BY <1>1, <1>2, <2>1, CleanReadLine DEF CleanRead
<1>3. CASE F!Fill
  <2>1. reading = "read" /\ reading' = reading
    BY <1>3 DEF F!Fill
  <2> QED BY <1>1, <1>3, <2>1, CleanFill DEF CleanRead
<1>4. CASE F!ReadAllLine
  <2>1. reading = "read" /\ reading' = "parse"
    BY <1>4 DEF F!ReadAllLine
  <2> QED BY <1>1, <1>4, <2>1, CleanReadAllLine DEF CleanRead
<1>5. CASE F!Parse
  <2>1. reading = "parse"
    BY <1>5 DEF F!Parse
  <2> QED BY <1>1, <1>5, <2>1, CleanParse DEF CleanRead
<1>6. CASE F!Loaded
  <2>1. reading = "parse" /\ reading' = "done"
    BY <1>6 DEF F!Loaded
  <2> QED BY <1>1, <1>6, <2>1, CleanLoaded DEF CleanRead
<1> QED BY <1>2, <1>3, <1>4, <1>5, <1>6 DEF F!Next

-----------------------------------------------------------------------------
(* The steps of the holder                                                 *)

USE ContentAssumption, EditAssumption

LEMMA NoFileIsContent == NoFile \in Content
<1>1. <<>> \in Seq(F!Line)
  OBVIOUS
<1> QED BY <1>1 DEF NoFile, Content

LEMMA HolderInitHolds == HolderInit => HolderInv
<1> SUFFICES ASSUME HolderInit PROVE HolderInv
  OBVIOUS
<1>1. TimeInv
  <2>1. mtime = 0 /\ newest = 0 /\ cmParam = 0 /\ param = 0 /\ exists = FALSE /\ silent = FALSE
    BY DEF HolderInit, ReloadInit
  <2>2. disk \in Content
    BY NoFileIsContent DEF HolderInit
  <2>3. exists \in BOOLEAN /\ silent \in BOOLEAN
    BY <2>1
  <2>4. /\ mtime \in Nat /\ newest \in Nat /\ cmParam \in Nat /\ param \in Nat
        /\ mtime <= newest /\ cmParam <= newest /\ param <= newest
    BY <2>1
  <2> QED BY <2>2, <2>3, <2>4 DEF TimeInv
<1>2. LoaderInv
  BY DEF HolderInit, ReloadInit, F!ReadInit, LoaderInv, Fresh
<1>3. ContentInv
  BY DEF HolderInit, ReloadInit, ContentInv, Unmoved, Loadable
<1> QED BY <1>1, <1>2, <1>3 DEF HolderInv

(* An edit that moves the file's time moves it past all that was noted.    *)
LEMMA EditHolds == HolderInv /\ Edit => HolderInv'
<1> SUFFICES ASSUME HolderInv, Edit PROVE HolderInv'
  OBVIOUS
<1>1. /\ UNCHANGED <<caller, peeding, loader, cmParam, param, data, wg, active, reading>>
      /\ UNCHANGED <<buf, r, w, pos, eof, lines, parsed, userinfo>>
  BY DEF Edit, loaderVars, localVars
<1>2. TimeInv
  BY DEF HolderInv
<1>3. /\ exists' = TRUE /\ disk' \in Contents /\ mtime' \in 1 .. MaxTime
      /\ silent' = (mtime' <= newest) /\ newest' = IF mtime' > newest THEN mtime' ELSE newest
  BY DEF Edit
<1>4. mtime' \in Nat
  BY <1>3
<1>5. TimeInv'
  <2>1. newest' \in Nat /\ newest <= newest' /\ mtime' <= newest'
    BY <1>2, <1>3, <1>4 DEF TimeInv
  <2>2. silent' \in BOOLEAN
    BY <1>3
  <2>3. disk' \in Content
    BY <1>3 DEF Content
  <2>4. cmParam' <= newest' /\ param' <= newest'
    BY <1>1, <1>2, <2>1 DEF TimeInv
  <2> QED BY <1>1, <1>2, <1>3, <1>4, <2>1, <2>2, <2>3, <2>4 DEF TimeInv
<1>6. ~Unmoved(param)' /\ ~Unmoved(cmParam)'
  <2> SUFFICES ASSUME ~silent' PROVE mtime' > param' /\ mtime' > cmParam'
    BY <1>1, <1>2, <1>4 DEF Unmoved, TimeInv
  <2>1. ~(mtime' <= newest)
    BY <1>3
  <2> QED BY <2>1, <1>1, <1>2, <1>4 DEF TimeInv
<1>7. LoaderInv'
  BY <1>1 DEF HolderInv, LoaderInv, Fresh
<1>8. ContentInv'
  BY <1>6 DEF ContentInv
<1> QED BY <1>5, <1>7, <1>8 DEF HolderInv

LEMMA RemoveHolds == HolderInv /\ Remove => HolderInv'
<1> SUFFICES ASSUME HolderInv, Remove PROVE HolderInv'
  OBVIOUS
<1>1. /\ UNCHANGED <<mtime, newest, silent, caller, peeding, loader, cmParam, param, data, wg>>
      /\ UNCHANGED <<active, reading, buf, r, w, pos, eof, lines, parsed, userinfo>>
      /\ exists' = FALSE /\ disk' = NoFile
  BY DEF Remove, loaderVars, localVars, loadVars
<1>2. TimeInv'
  BY <1>1, NoFileIsContent DEF HolderInv, TimeInv
<1>3. LoaderInv'
  BY <1>1 DEF HolderInv, LoaderInv, Fresh
<1>4. ContentInv'
  BY <1>1 DEF ContentInv, Unmoved, Loadable
<1> QED BY <1>2, <1>3, <1>4 DEF HolderInv

(* A step that leaves the file alone                                       *)
LEMMA FileAlone ==
    ASSUME UNCHANGED <<disk, exists, silent, mtime>>
    PROVE  /\ Unmoved(param)' = (Loadable /\ ~silent /\ mtime <= param')
           /\ Unmoved(cmParam)' = (Loadable /\ ~silent /\ mtime <= cmParam')
           /\ F!Stated(disk.lines)' = F!Stated(disk.lines)
BY DEF Unmoved, Loadable

(* The steps of the caller, and those of the loader before it opens the    *)
(* file                                                                    *)
LEMMA QuietHolds ==
    ASSUME HolderInv, UNCHANGED <<disk, exists, silent, mtime, newest, cmParam, active>>,
           UNCHANGED <<file, ended, buf, r, w, pos, eof, lines, parsed, userinfo, reading>>,
           param' \in Nat, param' <= newest,
           caller' \in {"stat", "add", "start", "failed"} => loader' = "off",
           loader' # "load" => reading = "closed",
           loader' = "load" => reading = "closed" \/ (loader = "load" /\ param' = param),
           loader' = "finish" /\ data' # Bad => loader = "finish" /\ UNCHANGED <<data, param>>
    PROVE  HolderInv'
<1>1. TimeInv'
  BY DEF HolderInv, TimeInv
<1>2. LoaderInv'
  BY DEF HolderInv, LoaderInv, Fresh
<1>3. Unmoved(cmParam)' => active' = F!Stated(disk.lines)'
  BY FileAlone DEF HolderInv, ContentInv, Unmoved
<1>4. loader' = "finish" /\ data' # Bad /\ Unmoved(param)' => data' = F!Stated(disk.lines)'
  BY FileAlone DEF HolderInv, ContentInv, Unmoved
<1>5. loader' = "load" /\ reading' # "closed" /\ Unmoved(param)' => CleanRead'
  <2> SUFFICES ASSUME loader' = "load", reading' # "closed", Unmoved(param)' PROVE CleanRead'
    OBVIOUS
  <2>1. CleanRead
    BY FileAlone DEF HolderInv, ContentInv, Unmoved
  <2> QED BY <2>1 DEF CleanRead, Fresh, Reading, Parsing, Collected, InBuffer
<1> QED BY <1>1, <1>2, <1>3, <1>4, <1>5 DEF HolderInv, ContentInv

LEMMA CallerHolds == HolderInv /\ NewUserHolder => HolderInv'
<1> SUFFICES ASSUME HolderInv, NewUserHolder PROVE HolderInv'
  OBVIOUS
<1>1. /\ UNCHANGED <<disk, exists, silent, mtime, newest, cmParam, active, param, data>>
      /\ UNCHANGED <<file, ended, buf, r, w, pos, eof, lines, parsed, userinfo, reading>>
  BY DEF NewUserHolder, Caller, Stat, AddLoad, Start, Wait, statVars, editVars, loadVars, localVars
<1>2. \/ /\ loader' = loader
         /\ caller' \in {"stat", "add", "start", "failed"}
                => caller \in {"stat", "add", "start", "failed"}
      \/ /\ caller = "start" /\ caller' = "wait" /\ loader' = "adopt"
  BY DEF NewUserHolder, Caller, Stat, AddLoad, Start, Wait
<1>3. LoaderInv /\ param \in Nat /\ param <= newest
  BY DEF HolderInv, TimeInv
<1>4. caller' \in {"stat", "add", "start", "failed"} => loader' = "off"
  BY <1>2, <1>3 DEF LoaderInv
<1>5. loader' # "load" => reading = "closed"
  BY <1>2, <1>3 DEF LoaderInv
<1> QED BY <1>1, <1>2, <1>3, <1>4, <1>5, QuietHolds

LEMMA LoaderRuns ==
    ASSUME LoaderInv, loader # "off", caller' = caller
    PROVE  caller' \notin {"stat", "add", "start", "failed"}
BY DEF LoaderInv

LEMMA AdoptHolds ==
    ASSUME HolderInv, Adopt \/ Check, UNCHANGED <<editVars, linked, loadVars>>
    PROVE  HolderInv'
<1>1. /\ UNCHANGED <<disk, exists, silent, mtime, newest, cmParam, active, data, caller>>
      /\ UNCHANGED <<file, ended, buf, r, w, pos, eof, lines, parsed, userinfo, reading>>
      /\ loader \in {"adopt", "check"} /\ loader' \in {"check", "load", "adopt"}
  BY DEF Adopt, Check, statVars, editVars, loadVars, localVars
<1>2. LoaderInv /\ param \in Nat /\ param <= newest /\ mtime \in Nat /\ mtime <= newest
  BY DEF HolderInv, TimeInv
<1>3. param' \in {param, mtime}
  BY DEF Adopt, Check
<1>4. reading = "closed" /\ caller' \notin {"stat", "add", "start", "failed"}
  BY <1>1, <1>2, LoaderRuns DEF LoaderInv
<1> QED BY <1>1, <1>2, <1>3, <1>4, QuietHolds

LEMMA OpenFailsHolds ==
    ASSUME HolderInv, OpenFails
    PROVE  HolderInv'
<1>1. /\ UNCHANGED <<disk, exists, silent, mtime, newest, cmParam, active, param, caller>>
      /\ UNCHANGED <<file, ended, buf, r, w, pos, eof, lines, parsed, userinfo, reading>>
      /\ loader = "load" /\ loader' = "finish" /\ reading = "closed" /\ data' = Bad
  BY DEF OpenFails, Load, statVars, editVars, loadVars, localVars
<1>2. LoaderInv /\ param \in Nat /\ param <= newest
  BY DEF HolderInv, TimeInv
<1>3. caller' \notin {"stat", "add", "start", "failed"}
  BY <1>1, <1>2, LoaderRuns
<1> QED BY <1>1, <1>2, <1>3, QuietHolds

(* What was noted is what was loaded.                                      *)
LEMMA FinishHolds ==
    ASSUME HolderInv, LoadFinish, UNCHANGED <<editVars, linked, loadVars>>
    PROVE  HolderInv'
<1>1. /\ UNCHANGED <<disk, exists, silent, mtime, newest, param, data, caller>>
      /\ UNCHANGED <<file, ended, buf, r, w, pos, eof, lines, parsed, userinfo, reading>>
      /\ loader = "finish" /\ loader' = "adopt"
      /\ IF data # Bad THEN active' = data /\ cmParam' = param
                       ELSE UNCHANGED <<active, cmParam>>
  BY DEF LoadFinish, statVars, editVars, loadVars, localVars
<1>2. TimeInv'
  BY <1>1 DEF HolderInv, TimeInv
<1>3. LoaderInv'
  BY <1>1, LoaderRuns DEF HolderInv, LoaderInv, Fresh
<1>4. Unmoved(cmParam)' => active' = F!Stated(disk.lines)'
  <2>1. CASE data # Bad
    BY <1>1, <2>1, FileAlone DEF HolderInv, ContentInv, Unmoved
  <2>2. CASE data = Bad
    BY <1>1, <2>2, FileAlone DEF HolderInv, ContentInv, Unmoved
  <2> QED BY <2>1, <2>2
<1> QED BY <1>1, <1>2, <1>3, <1>4 DEF HolderInv, ContentInv

LEMMA OpenHolds ==
    ASSUME HolderInv, Open
    PROVE  HolderInv'
<1>1. /\ UNCHANGED <<disk, exists, silent, mtime, newest, cmParam, param, active, data, caller>>
      /\ UNCHANGED <<buf, r, w, pos, eof, lines, parsed, userinfo, loader>>
      /\ loader = "load" /\ reading = "closed" /\ reading' = "read"
      /\ file' = disk.lines /\ ended' = disk.ended
  BY DEF Open, reloadVars, statVars, loaderVars, editVars, localVars
<1>2. TimeInv'
  BY <1>1 DEF HolderInv, TimeInv
<1>3. LoaderInv'
  BY <1>1 DEF HolderInv, LoaderInv, Fresh
<1>4. Unmoved(cmParam)' => active' = F!Stated(disk.lines)'
  BY <1>1, FileAlone DEF HolderInv, ContentInv, Unmoved
<1>5. Unmoved(param)' => CleanRead'
  <2> SUFFICES ASSUME Unmoved(param)' PROVE CleanRead'
    OBVIOUS
  <2>1. disk.ended /\ disk.ended \in BOOLEAN
    BY <1>1, FileAlone DEF Loadable, HolderInv, TimeInv, Content
  <2>2. ended' = TRUE /\ file' = disk'.lines
    BY <1>1, <2>1
  <2>3. Fresh'
    BY <1>1 DEF HolderInv, LoaderInv, Fresh
  <2> QED BY <1>1, <2>2, <2>3 DEF CleanRead
<1> QED BY <1>1, <1>2, <1>3, <1>4, <1>5 DEF HolderInv, ContentInv

LEMMA ReadHolds ==
    ASSUME HolderInv, ReadAndParse
    PROVE  HolderInv'
<1>1. /\ UNCHANGED <<disk, exists, silent, mtime, newest, cmParam, param, active, data, caller>>
      /\ UNCHANGED <<loader>> /\ loader = "load" /\ F!Next
  BY DEF ReadAndParse, reloadVars, statVars, loaderVars, editVars
<1>2. reading \in {"read", "parse"} /\ reading' # "closed"
  BY <1>1 DEF F!Next, F!ReadLine, F!Fill, F!ReadAllLine, F!Parse, F!Loaded
<1>3. TimeInv'
  BY <1>1 DEF HolderInv, TimeInv
<1>4. buf = [n \in 1 .. BufSize |-> buf[n]]
  BY DEF HolderInv, LoaderInv
<1>5. buf' = [n \in 1 .. BufSize |-> buf'[n]]
  <2>1. CASE F!Fill
    BY <2>1 DEF F!Fill
  <2>2. CASE ~F!Fill
    <3>1. buf' = buf
      BY <1>1, <2>2 DEF F!Next, F!ReadLine, F!ReadAllLine, F!Parse, F!Loaded, F!readVars
    <3> QED BY <3>1, <1>4
  <2> QED BY <2>1, <2>2
<1>6. LoaderInv'
  BY <1>1, <1>2, <1>5 DEF HolderInv, LoaderInv
<1>7. Unmoved(cmParam)' => active' = F!Stated(disk.lines)'
  BY <1>1, FileAlone DEF HolderInv, ContentInv, Unmoved
<1>8. Unmoved(param)' => CleanRead'
  <2> SUFFICES ASSUME Unmoved(param)' PROVE CleanRead'
    OBVIOUS
  <2>1. Unmoved(param)
    BY <1>1, FileAlone DEF Unmoved
  <2>2. CleanRead
    BY <1>1, <1>2, <2>1 DEF HolderInv, ContentInv
  <2>3. disk.lines \in Seq(F!Line) /\ disk.ended = TRUE
    BY <2>1 DEF Unmoved, Loadable, HolderInv, TimeInv, Content
  <2>4. Fits
    BY <2>1, <2>2, <2>3 DEF Fits, CleanRead, Unmoved, Loadable
  <2> QED BY <1>1, <1>2, <1>4, <2>2, <2>4, CleanStep
<1> QED BY <1>1, <1>2, <1>3, <1>6, <1>7, <1>8 DEF HolderInv, ContentInv

LEMMA AnswerHolds ==
    ASSUME HolderInv, Answer
    PROVE  HolderInv'
<1>1. /\ UNCHANGED <<disk, exists, silent, mtime, newest, cmParam, param, active, caller>>
      /\ loader = "load" /\ loader' = "finish"
      /\ reading \in {"done", "failed"} /\ reading' = "closed"
      /\ data' = IF reading = "done" THEN userinfo ELSE Bad
  BY DEF Answer, Load, statVars, editVars
<1>2. TimeInv'
  BY <1>1 DEF HolderInv, TimeInv
<1>3. Fresh'
  BY DEF Answer, Fresh
<1>4. LoaderInv'
  <2>1. caller' \notin {"stat", "add", "start", "failed"}
    BY <1>1, LoaderRuns DEF HolderInv
  <2>2. buf' = [n \in 1 .. BufSize |-> buf'[n]]
    BY <1>3 DEF Fresh
  <2> QED BY <1>1, <1>3, <2>1, <2>2 DEF LoaderInv
<1>5. Unmoved(cmParam)' => active' = F!Stated(disk.lines)'
  BY <1>1, FileAlone DEF HolderInv, ContentInv, Unmoved
<1>6. data' # Bad /\ Unmoved(param)' => data' = F!Stated(disk.lines)'
  <2> SUFFICES ASSUME data' # Bad, Unmoved(param)' PROVE data' = F!Stated(disk.lines)'
    OBVIOUS
  <2>1. Unmoved(param) /\ reading = "done" /\ data' = userinfo
    BY <1>1, FileAlone DEF Unmoved
  <2>2. userinfo = F!Stated(file) /\ file = disk.lines
    BY <1>1, <2>1 DEF HolderInv, ContentInv, CleanRead
  <2> QED BY <1>1, <2>1, <2>2, FileAlone
<1> QED BY <1>1, <1>2, <1>4, <1>5, <1>6 DEF HolderInv, ContentInv

-----------------------------------------------------------------------------
(* A step of the owner of the file that moves its time moves it past every *)
(* time that was noted; until then what open, ReadLine and ParseUser have  *)
(* read, what load returned and what the loader keeps is the file's own.   *)
THEOREM HolderInvariant == HolderSpec => []HolderInv
<1>1. HolderInit => HolderInv
  BY HolderInitHolds
<1>2. HolderInv /\ [HolderNext]_holderVars => HolderInv'
  <2> SUFFICES ASSUME HolderInv, [HolderNext]_holderVars PROVE HolderInv'
    OBVIOUS
  <2>1. CASE Edit
    BY <2>1, EditHolds
  <2>2. CASE Remove
    BY <2>2, RemoveHolds
  <2>3. CASE NewUserHolder
    BY <2>3, CallerHolds
  <2>4. CASE Loader
    BY <2>4, AdoptHolds, FinishHolds, OpenHolds, OpenFailsHolds, ReadHolds, AnswerHolds DEF Loader
  <2>5. CASE UNCHANGED holderVars
    BY <2>5 DEF holderVars, reloadVars, statVars, loaderVars, editVars, loadVars, localVars, HolderInv,
                TimeInv, LoaderInv, Fresh, ContentInv, Unmoved, Loadable, CleanRead, Reading,
                Parsing, InBuffer, Collected
  <2> QED BY <2>1, <2>2, <2>3, <2>4, <2>5 DEF HolderNext
<1> QED BY <1>1, <1>2, PTL DEF HolderSpec

(* Between two turns of the loader the users that are served are those of  *)
(* the file, if it loads and its time is not later than the one noted.     *)
THEOREM FileInUse == HolderSpec => []InUseIsCurrent
<1>1. HolderInv => InUseIsCurrent
  BY DEF HolderInv, ContentInv, Unmoved, InUseIsCurrent
<1> QED BY <1>1, HolderInvariant, PTL

-----------------------------------------------------------------------------
(* The types                                                               *)

Table == [Accounts -> Int \cup {Nobody}]
Typed == HolderTypeOK /\ userinfo \in Table

LEMMA EntryTyped ==
    ASSUME NEW line \in F!Line
    PROVE  F!MaxConn(line) \in Int
<1>1. line.max \in Int
  BY DEF F!Line
<1> QED BY <1>1 DEF F!MaxConn, F!DefaultMaxConn

LEMMA ParseTyped ==
    ASSUME userinfo \in Table, F!Parse
    PROVE  userinfo' \in Table /\ reading' \in {"parse", "failed"}
<1>1. PICK line \in F!Meanings(F!Slice(parsed + 1)) :
          IF line.user = Nobody THEN reading' = "failed" /\ UNCHANGED <<parsed, userinfo>>
          ELSE /\ userinfo' = [userinfo EXCEPT ![line.user] = F!MaxConn(line)]
               /\ parsed' = parsed + 1 /\ UNCHANGED reading
  BY DEF F!Parse
<1>2. line \in F!Line
  BY DEF F!Meanings
<1>3. F!MaxConn(line) \in Int
  BY <1>2, EntryTyped
<1>4. reading = "parse"
  BY DEF F!Parse
<1> QED BY <1>1, <1>3, <1>4 DEF Table

LEMMA TypedStep == Typed /\ [HolderNext]_holderVars => Typed'
<1> SUFFICES ASSUME Typed, [HolderNext]_holderVars PROVE Typed'
  OBVIOUS
<1> USE DEF HolderTypeOK, ReloadTypeOK, Time
<1>1. CASE Edit
  <2>1. mtime' \in Time /\ newest' \in Time
    BY <1>1 DEF Edit, Typed
  <2>2. silent' \in BOOLEAN /\ exists' \in BOOLEAN /\ linked' \in BOOLEAN /\ disk' \in Contents
    <3>1. silent' = (mtime' <= newest) /\ exists' = TRUE /\ disk' \in Contents
      BY <1>1 DEF Edit
    <3>2. linked' = linked \/ linked' = FALSE
      BY <1>1 DEF Edit
    <3>3. linked \in BOOLEAN
      BY DEF Typed
    <3>4. silent' \in BOOLEAN /\ exists' \in BOOLEAN
      BY <3>1
    <3>5. linked' \in BOOLEAN
      BY <3>2, <3>3
    <3> QED BY <3>1, <3>4, <3>5
  <2>3. edits' \in 0 .. MaxEdits
    <3>1. edits < MaxEdits /\ edits' = edits + 1 /\ edits \in 0 .. MaxEdits
      BY <1>1 DEF Edit, Typed
    <3> QED BY <3>1
  <2>4. UNCHANGED <<caller, peeding, loader, cmParam, param, data, wg, active, reading, userinfo>>
    BY <1>1 DEF Edit, loaderVars, localVars
  <2> QED BY <2>1, <2>2, <2>3, <2>4 DEF Typed
<1>2. CASE Remove
  BY <1>2 DEF Remove, Typed, loaderVars, loadVars, localVars
<1>3. CASE NewUserHolder
  <2>1. /\ UNCHANGED <<exists, mtime, disk, edits, newest, silent, linked, reading, userinfo>>
        /\ UNCHANGED <<param, data, active>>
        /\ Stat \/ AddLoad \/ Start \/ Wait
    BY <1>3 DEF NewUserHolder, Caller, Stat, AddLoad, Start, Wait, statVars, editVars, loadVars,
                localVars
  <2>2. ReloadTypeOK'
    BY <2>1 DEF Stat, AddLoad, Start, Wait, statVars, Typed
  <2> HIDE DEF ReloadTypeOK
  <2>3. \A t \in {data', active'} \ {Bad, Nothing} : t \in [Accounts -> Int \cup {Nobody}]
    BY <2>1 DEF Typed
  <2>4. /\ disk' \in Contents \cup {NoFile} /\ edits' \in 0 .. MaxEdits /\ newest' \in Time
        /\ silent' \in BOOLEAN /\ linked' \in BOOLEAN /\ userinfo' \in Table
        /\ reading' \in {"closed", "read", "parse", "done", "failed"}
    BY <2>1 DEF Typed
  <2> QED BY <2>2, <2>3, <2>4 DEF Typed
<1>4. CASE (Adopt \/ Check \/ LoadFinish) /\ UNCHANGED <<editVars, linked, loadVars>>
  <2>1. /\ UNCHANGED <<exists, mtime, disk, edits, newest, silent, linked, reading, userinfo>>
        /\ UNCHANGED <<caller, data>> /\ active' \in {active, data}
    BY <1>4 DEF Adopt, Check, LoadFinish, statVars, editVars, loadVars, localVars
  <2>2. ReloadTypeOK'
    BY <1>4, <2>1 DEF Adopt, Check, LoadFinish, Typed
  <2> HIDE DEF ReloadTypeOK
  <2>3. \A t \in {data', active'} \ {Bad, Nothing} : t \in [Accounts -> Int \cup {Nobody}]
    BY <2>1 DEF Typed
  <2>4. /\ disk' \in Contents \cup {NoFile} /\ edits' \in 0 .. MaxEdits /\ newest' \in Time
        /\ silent' \in BOOLEAN /\ linked' \in BOOLEAN /\ userinfo' \in Table
        /\ reading' \in {"closed", "read", "parse", "done", "failed"}
    BY <2>1 DEF Typed
  <2> QED BY <2>2, <2>3, <2>4 DEF Typed
<1>5. CASE Open \/ OpenFails
  BY <1>5 DEF Open, OpenFails, Load, Typed, reloadVars, statVars, loaderVars, editVars,
              loadVars, localVars
<1>6. CASE ReadAndParse
  <2>0. /\ UNCHANGED <<exists, mtime, caller, peeding, loader, cmParam, param, data, wg, active>>
        /\ UNCHANGED <<disk, edits, newest, silent, linked>>
    BY <1>6 DEF ReadAndParse, reloadVars, statVars, loaderVars, editVars
  <2>1. userinfo' \in Table /\ reading' \in {"read", "parse", "done", "failed"}
    <3>1. CASE F!Parse
      BY <3>1, ParseTyped DEF Typed
    <3>2. CASE ~F!Parse
      BY <1>6, <3>2 DEF ReadAndParse, F!Next, F!ReadLine, F!Fill, F!ReadAllLine, F!Loaded, Typed
    <3> QED BY <3>1, <3>2
  <2>2. ReloadTypeOK'
    BY <2>0 DEF Typed
  <2> HIDE DEF ReloadTypeOK
  <2>3. \A t \in {data', active'} \ {Bad, Nothing} : t \in [Accounts -> Int \cup {Nobody}]
    BY <2>0 DEF Typed
  <2>4. /\ disk' \in Contents \cup {NoFile} /\ edits' \in 0 .. MaxEdits /\ newest' \in Time
        /\ silent' \in BOOLEAN /\ linked' \in BOOLEAN
        /\ reading' \in {"closed", "read", "parse", "done", "failed"}
    BY <2>0, <2>1 DEF Typed
  <2> QED BY <2>1, <2>2, <2>3, <2>4 DEF Typed
<1>7. CASE Answer
  <2>1. userinfo' \in Table /\ data' \in {userinfo, Bad}
    BY <1>7 DEF Answer, Load, Table
  <2> QED BY <1>7, <2>1 DEF Answer, Load, Typed, statVars, editVars, Table
<1>8. CASE UNCHANGED holderVars
  BY <1>8 DEF Typed, holderVars, reloadVars, statVars, loaderVars, editVars, loadVars, localVars
<1> QED BY <1>1, <1>2, <1>3, <1>4, <1>5, <1>6, <1>7, <1>8 DEF HolderNext, Loader

(* Whatever load makes of the lines it reads, a table gives every account  *)
(* a number or nothing.                                                    *)
THEOREM HolderTypeCorrect == HolderSpec => []HolderTypeOK
<1>1. HolderInit => Typed
  <2> SUFFICES ASSUME HolderInit PROVE Typed
    OBVIOUS
  <2>1. ReloadTypeOK
    <3>1. /\ exists = FALSE /\ mtime = 0 /\ caller = "stat" /\ peeding = FALSE /\ loader = "off"
          /\ cmParam = 0 /\ param = 0 /\ wg = FALSE
      BY DEF HolderInit, ReloadInit
    <3>2. 0 \in Time
      BY DEF Time
    <3>3. exists \in BOOLEAN /\ peeding \in BOOLEAN /\ wg \in BOOLEAN
      BY <3>1
    <3> QED BY <3>1, <3>2, <3>3 DEF ReloadTypeOK
  <2>2. userinfo \in Table
    BY DEF HolderInit, F!ReadInit, Table
  <2>3. \A t \in {data, active} \ {Bad, Nothing} : t \in Table
    BY DEF HolderInit, ReloadInit
  <2>4. /\ disk \in Contents \cup {NoFile} /\ edits \in 0 .. MaxEdits /\ newest \in Time
        /\ silent \in BOOLEAN /\ linked \in BOOLEAN
        /\ reading \in {"closed", "read", "parse", "done", "failed"}
    <3>1. /\ disk = NoFile /\ edits = 0 /\ newest = 0 /\ silent = FALSE /\ linked = FALSE
          /\ reading = "closed"
      BY DEF HolderInit
    <3>2. 0 \in Time /\ 0 \in 0 .. MaxEdits
      BY DEF Time
    <3>3. silent \in BOOLEAN /\ linked \in BOOLEAN
      BY <3>1
    <3> QED BY <3>1, <3>2, <3>3
  <2> QED BY <2>1, <2>2, <2>3, <2>4 DEF Typed, HolderTypeOK, Table
<1>2. Typed => HolderTypeOK
  BY DEF Typed
<1> QED BY <1>1, <1>2, TypedStep, PTL DEF HolderSpec
=============================================================================
