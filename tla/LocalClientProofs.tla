-------------------------- MODULE LocalClientProofs --------------------------
(***************************************************************************)
(* Proofs about LoadBalance.tla and about LocalClient.tla, which extends   *)
(* it.  For every set of servers, every weight and every number of         *)
(* overlapping dials: the types of the balancer, the range of its weights, *)
(* the bound on an outage and the exactness of the kick.  Then the         *)
(* sessions that dial: the route of a session is justified by the rules in *)
(* force while it was looked up, the balancer gets an answer for each of   *)
(* its dials, and so what is proved of the balancer holds in the client.   *)
(***************************************************************************)
EXTENDS LocalClient, TLAPS

-----------------------------------------------------------------------------
(* The balancer alone.  The lemmas say what each operation does to one     *)
(* LoadItem; the theorems only route the actions.                          *)

USE DEF AtLeast, AtMost, LoadItem

(* The weights a LoadItem may have: at most the base weight, and at least 1 *)
(* when that base is.                                                       *)
ItemInv(it, w) == /\ it \in LoadItem
                  /\ w > 0 => it.Current \in 1 .. w

(* Every function that rewrites an item keeps its type and its range: the  *)
(* arithmetic of Add, Get, Update and autoScan.                            *)
LEMMA AddKeeps ==
    ASSUME NEW w \in Nat
    PROVE  ItemInv(AddItem(w), w)
BY DEF ItemInv, AddItem

LEMMA TakenKeeps ==
    ASSUME NEW w \in Nat, NEW it, ItemInv(it, w)
    PROVE  ItemInv(Taken(it, w), w)
BY DEF ItemInv, Taken

LEMMA SucceededKeeps ==
    ASSUME NEW w \in Nat, NEW it, ItemInv(it, w)
    PROVE  ItemInv(Succeeded(it, w), w)
<1> DEFINE step == IF it.MarkFail \/ it.Current <= w \div 2 THEN w \div 5 + 1 ELSE 1
           c    == AtMost(it.Current + step, w)
<1>1. it \in LoadItem /\ (w > 0 => it.Current >= 1)
  BY DEF ItemInv
<1>2. step \in Nat \ {0}
  <2>1. w \div 5 \in Nat
    OBVIOUS
  <2> QED BY <2>1
<1>3. c \in Nat /\ (w > 0 => c \in 1 .. w)
  <2> HIDE DEF step
  <2>1. it.Current \in Nat
    BY <1>1
  <2> QED BY <1>1, <1>2, <2>1
<1>4. Succeeded(it, w) = [it EXCEPT !.MarkFail = FALSE, !.Current = c]
  BY DEF Succeeded
<1> HIDE DEF c
<1> QED BY <1>1, <1>3, <1>4 DEF ItemInv

LEMMA FailedKeeps ==
    ASSUME NEW w \in Nat, NEW it, ItemInv(it, w)
    PROVE  ItemInv(Failed(it, w), w)
<1> DEFINE c == AtLeast(it.Current \div 2 - w \div 10, w \div 10 + 1)
           e == CountError(it.Errtime)
           m == it.Errtime + 1 >= MaxErr
<1>1. it \in LoadItem /\ (w > 0 => it.Current \in 1 .. w)
  BY DEF ItemInv
<1>2. c \in Nat /\ (w > 0 => c \in 1 .. w)
  <2>1. it.Current \in Nat
    BY <1>1
  <2>2. it.Current \div 2 \in Int /\ it.Current \div 2 <= it.Current
    BY <2>1
  <2>3. w \div 10 \in Nat /\ (w > 0 => w \div 10 + 1 <= w)
    OBVIOUS
  <2> QED BY <1>1, <2>1, <2>2, <2>3
<1>3. e \in Nat /\ m \in BOOLEAN
  <2>1. it.Errtime \in Nat
    BY <1>1
  <2> QED BY <2>1, LimitAssumption DEF CountError
<1>4. Failed(it, w) = [it EXCEPT !.Errtime = e, !.MarkFail = m, !.Current = c]
  BY DEF Failed
<1> HIDE DEF c, e, m
<1> QED BY <1>1, <1>2, <1>3, <1>4 DEF ItemInv

LEMMA RevivedKeeps ==
    ASSUME NEW w \in Nat, NEW it, ItemInv(it, w)
    PROVE  ItemInv(Revived(it, w), w)
<1> DEFINE c == w \div 2 + 1
<1>1. c \in Nat /\ (w > 0 => c \in 1 .. w)
  OBVIOUS
<1>2. Revived(it, w) = [it EXCEPT !.MarkFail = FALSE, !.Errtime = 0, !.Current = c]
  BY DEF Revived
<1>3. it \in LoadItem
  BY DEF ItemInv
<1> HIDE DEF c
<1>4. [it EXCEPT !.MarkFail = FALSE, !.Errtime = 0, !.Current = c] \in LoadItem
  BY <1>1, <1>3
<1>5. Revived(it, w).Current = c
  BY <1>2, <1>3
<1> QED BY <1>1, <1>2, <1>4, <1>5 DEF ItemInv

(* What each function does to the mark and to the error count.             *)
LEMMA MarksAndErrors ==
    ASSUME NEW w \in Nat, NEW it \in LoadItem
    PROVE  /\ Taken(it, w).MarkFail = it.MarkFail
           /\ Taken(it, w).Errtime = it.Errtime
           /\ Succeeded(it, w).MarkFail = FALSE
           /\ Succeeded(it, w).Errtime = it.Errtime
           /\ Failed(it, w).MarkFail = (it.Errtime + 1 >= MaxErr)
           /\ Failed(it, w).Errtime = CountError(it.Errtime)
           /\ Revived(it, w).MarkFail = FALSE
           /\ Revived(it, w).Errtime = 0
BY DEF Taken, Succeeded, Failed, Revived

-----------------------------------------------------------------------------
ItemsInv == \A a \in Addr : ItemInv(item[a], Weight[a])

(* A kicked server is no older than max_failtime at the last pass, and has *)
(* aged since then by what the pass is old.                                *)
AgeInv == \A a \in Addr : item[a].MarkFail => age[a] <= MaxFail + sinceScan

CountInv ==
    MaxErr > 0 => \A a \in Addr \ revivedLate :
        /\ item[a].Errtime = fails[a]
        /\ fails[a] <= MaxErr
        /\ item[a].MarkFail <=> fails[a] = MaxErr

BalancerInv == LBTypeOK /\ ItemsInv /\ AgeInv /\ CountInv

LEMMA InitBalancer == LBInit => BalancerInv
<1> SUFFICES ASSUME LBInit PROVE BalancerInv
  OBVIOUS
<1> USE WeightAssumption, NoneAssumption, LimitAssumption DEF LBInit
<1>1. \A a \in Addr : ItemInv(AddItem(Weight[a]), Weight[a])
  BY AddKeeps
<1>2. LBTypeOK
  BY <1>1 DEF LBTypeOK, ItemInv
<1>3. ItemsInv
  BY <1>1 DEF ItemsInv
<1>4. AgeInv /\ CountInv
  BY DEF AgeInv, CountInv, AddItem
<1> QED BY <1>2, <1>3, <1>4 DEF BalancerInv

LEMMA StepBalancer == BalancerInv /\ [LBNext]_lbVars => BalancerInv'
<1> SUFFICES ASSUME BalancerInv, [LBNext]_lbVars PROVE BalancerInv'
  OBVIOUS
<1> USE WeightAssumption, NoneAssumption, LimitAssumption
<1>0. \A a \in Addr : /\ ItemInv(item[a], Weight[a])
                     /\ item[a] \in LoadItem
                     /\ Weight[a] \in Nat
  BY DEF BalancerInv, ItemsInv, LBTypeOK, ItemInv
<1>1. ASSUME NEW d \in Sessions, NEW a \in Addr, Get(d, a) PROVE BalancerInv'
  <2>1. /\ ItemInv(item'[a], Weight[a])
        /\ item'[a].MarkFail = item[a].MarkFail
        /\ item'[a].Errtime = item[a].Errtime
    <3>1. item'[a] = Taken(item[a], Weight[a])
      BY <1>1 DEF Get, BalancerInv, LBTypeOK
    <3>2. ItemInv(Taken(item[a], Weight[a]), Weight[a])
      BY <1>0, TakenKeeps
    <3>3. /\ Taken(item[a], Weight[a]).MarkFail = item[a].MarkFail
         /\ Taken(item[a], Weight[a]).Errtime = item[a].Errtime
      <4>1. item[a] \in LoadItem /\ Weight[a] \in Nat
        BY <1>0
      <4> QED BY <4>1, MarksAndErrors, Zenon
    <3> QED BY <3>1, <3>2, <3>3
  <2>2. \A b \in Addr : b # a => item'[b] = item[b]
    BY <1>1 DEF Get, BalancerInv, LBTypeOK
  <2>3. LBTypeOK'
    BY <1>1, <2>1 DEF Get, BalancerInv, LBTypeOK, ItemInv
  <2>4. ItemsInv'
    BY <1>0, <2>1, <2>2 DEF ItemsInv
  <2>5. AgeInv' /\ CountInv'
    BY <1>1, <2>1, <2>2 DEF Get, BalancerInv, AgeInv, CountInv
  <2> QED BY <2>3, <2>4, <2>5 DEF BalancerInv
<1>2. ASSUME NEW d \in Sessions, NEW a \in Addr, UpdateSucc(d, a) PROVE BalancerInv'
  <2>1. /\ ItemInv(item'[a], Weight[a])
        /\ item'[a].MarkFail = FALSE
        /\ item'[a].Errtime = item[a].Errtime
    <3>1. item'[a] = Succeeded(item[a], Weight[a])
      BY <1>2 DEF UpdateSucc, BalancerInv, LBTypeOK
    <3>2. ItemInv(Succeeded(item[a], Weight[a]), Weight[a])
      BY <1>0, SucceededKeeps
    <3>3. /\ Succeeded(item[a], Weight[a]).MarkFail = FALSE
         /\ Succeeded(item[a], Weight[a]).Errtime = item[a].Errtime
      BY <1>0, MarksAndErrors
    <3> QED BY <3>1, <3>2, <3>3
  <2>2. \A b \in Addr : b # a => item'[b] = item[b]
    BY <1>2 DEF UpdateSucc, BalancerInv, LBTypeOK
  <2>3. LBTypeOK'
    BY <1>2, <2>1 DEF UpdateSucc, BalancerInv, LBTypeOK, ItemInv
  <2>4. ItemsInv'
    BY <1>0, <2>1, <2>2 DEF ItemsInv
  <2>5. AgeInv'
    BY <1>2, <2>1, <2>2 DEF UpdateSucc, BalancerInv, AgeInv
  <2>6. CountInv'
    <3>1. CASE item[a].MarkFail
      BY <1>2, <2>2, <3>1 DEF UpdateSucc, BalancerInv, CountInv, LBTypeOK
    <3>2. CASE ~item[a].MarkFail
      BY <1>2, <2>1, <2>2, <3>2 DEF UpdateSucc, BalancerInv, CountInv
    <3> QED BY <3>1, <3>2
  <2> QED BY <2>3, <2>4, <2>5, <2>6 DEF BalancerInv
<1>3. ASSUME NEW d \in Sessions, NEW a \in Addr, UpdateFail(d, a) PROVE BalancerInv'
  <2>0. dialing' = [dialing EXCEPT ![d] = None] /\ UNCHANGED <<sinceScan, revivedLate>>
    BY <1>3 DEF UpdateFail
  <2>1. CASE item[a].MarkFail
    <3>1. UNCHANGED <<item, age, fails>>
      BY <1>3, <2>1 DEF UpdateFail
    <3> QED BY <2>0, <3>1 DEF BalancerInv, LBTypeOK, ItemsInv, AgeInv, CountInv
  <2>2. CASE ~item[a].MarkFail
    <3>1. /\ ItemInv(item'[a], Weight[a])
          /\ item'[a].MarkFail = (item[a].Errtime + 1 >= MaxErr)
          /\ item'[a].Errtime = CountError(item[a].Errtime)
      <4>1. item'[a] = Failed(item[a], Weight[a])
        BY <1>3, <2>2 DEF UpdateFail, BalancerInv, LBTypeOK
      <4>2. ItemInv(Failed(item[a], Weight[a]), Weight[a])
        BY <1>0, FailedKeeps
      <4>3. /\ Failed(item[a], Weight[a]).MarkFail = (item[a].Errtime + 1 >= MaxErr)
           /\ Failed(item[a], Weight[a]).Errtime = CountError(item[a].Errtime)
        BY <1>0, MarksAndErrors
      <4> QED BY <4>1, <4>2, <4>3
    <3>2. \A b \in Addr : b # a => item'[b] = item[b]
      BY <1>3, <2>2 DEF UpdateFail, BalancerInv, LBTypeOK
    <3>3. /\ age' = [age EXCEPT ![a] = IF item'[a].MarkFail THEN 0 ELSE @]
          /\ fails' = [fails EXCEPT ![a] = CountError(@)]
      BY <1>3, <2>2 DEF UpdateFail
    <3>4. LBTypeOK'
      <4>1. item' \in [Addr -> LoadItem]
        BY <1>3, <2>2, <3>1 DEF UpdateFail, BalancerInv, LBTypeOK, ItemInv
      <4>2. age' \in [Addr -> Nat]
        BY <3>3 DEF BalancerInv, LBTypeOK
      <4>3. fails' \in [Addr -> Nat]
        BY <3>3 DEF BalancerInv, LBTypeOK, CountError
      <4> QED BY <2>0, <4>1, <4>2, <4>3 DEF BalancerInv, LBTypeOK
    <3>5. ItemsInv'
      BY <1>0, <3>1, <3>2 DEF ItemsInv
    <3>6. AgeInv'
      BY <2>0, <3>2, <3>3 DEF BalancerInv, AgeInv, LBTypeOK
    <3>7. CountInv'
      <4>1. fails[a] \in Nat /\ fails'[a] = CountError(fails[a])
        BY <3>3 DEF BalancerInv, LBTypeOK
      <4>2. \A b \in Addr : b # a => fails'[b] = fails[b]
        BY <3>3 DEF BalancerInv, LBTypeOK
      <4>3. ASSUME MaxErr > 0, a \notin revivedLate
            PROVE  /\ item'[a].Errtime = fails'[a]
                   /\ fails'[a] <= MaxErr
                   /\ item'[a].MarkFail <=> fails'[a] = MaxErr
        <5>1. item[a].Errtime = fails[a] /\ fails[a] < MaxErr
          BY <2>2, <4>1, <4>3 DEF BalancerInv, CountInv
        <5>2. fails'[a] = fails[a] + 1
          BY <4>1, <5>1 DEF CountError
        <5>3. item'[a].Errtime = fails'[a]
          BY <3>1, <4>1, <5>1
        <5>4. (item[a].Errtime + 1 >= MaxErr) <=> fails'[a] = MaxErr
          BY <4>1, <5>1, <5>2
        <5>5. fails'[a] <= MaxErr
          BY <4>1, <5>1, <5>2
        <5>6. item'[a].MarkFail <=> fails'[a] = MaxErr
          BY <3>1, <5>4, Zenon
        <5> QED BY <5>3, <5>5, <5>6
      <4> QED BY <2>0, <3>2, <4>2, <4>3 DEF BalancerInv, CountInv
    <3> QED BY <3>4, <3>5, <3>6, <3>7 DEF BalancerInv
  <2> QED BY <2>1, <2>2
<1>4. CASE AutoScan
  <2>1. \A a \in Addr :
           IF Expired(a)
           THEN /\ ItemInv(item'[a], Weight[a])
                /\ item'[a].MarkFail = FALSE
                /\ item'[a].Errtime = 0
                /\ age'[a] = 0
                /\ fails'[a] = 0
           ELSE item'[a] = item[a] /\ age'[a] = age[a] /\ fails'[a] = fails[a]
    <3> TAKE a \in Addr
    <3>1. /\ item'[a] = IF Expired(a) THEN Revived(item[a], Weight[a]) ELSE item[a]
          /\ age'[a] = IF Expired(a) THEN 0 ELSE age[a]
          /\ fails'[a] = IF Expired(a) THEN 0 ELSE fails[a]
      BY <1>4 DEF AutoScan
    <3>2. ItemInv(item[a], Weight[a]) /\ item[a] \in LoadItem /\ Weight[a] \in Nat
      BY <1>0
    <3>3. ItemInv(Revived(item[a], Weight[a]), Weight[a])
      BY <3>2, RevivedKeeps
    <3>4. /\ Revived(item[a], Weight[a]).MarkFail = FALSE
          /\ Revived(item[a], Weight[a]).Errtime = 0
      BY <3>2, MarksAndErrors
    <3> QED BY <3>1, <3>3, <3>4, Zenon
  <2>2. LBTypeOK'
    <3>1. \A a \in Addr : item'[a] \in LoadItem /\ age'[a] \in Nat /\ fails'[a] \in Nat
      BY <1>0, <2>1 DEF ItemInv, BalancerInv, LBTypeOK
    <3>2. /\ item' = [a \in Addr |-> item'[a]]
          /\ age' = [a \in Addr |-> age'[a]]
          /\ fails' = [a \in Addr |-> fails'[a]]
      BY <1>4 DEF AutoScan
    <3> QED BY <1>4, <3>1, <3>2 DEF AutoScan, BalancerInv, LBTypeOK
  <2>3. ItemsInv'
    BY <1>0, <2>1 DEF ItemsInv
  <2>4. AgeInv'
    <3>1. ASSUME NEW a \in Addr, item'[a].MarkFail PROVE age'[a] <= MaxFail + sinceScan'
      <4>1. ~Expired(a)
        BY <2>1, <3>1
      <4>2. age[a] <= MaxFail /\ age'[a] = age[a]
        BY <2>1, <3>1, <4>1 DEF Expired, BalancerInv, LBTypeOK
      <4> QED BY <1>4, <4>2 DEF AutoScan
    <3> QED BY <3>1 DEF AgeInv
  <2>5. CountInv'
    BY <1>4, <2>1 DEF AutoScan, BalancerInv, CountInv
  <2> QED BY <2>2, <2>3, <2>4, <2>5 DEF BalancerInv
<1>5. CASE Tick
  <2>1. LBTypeOK'
    BY <1>5 DEF Tick, BalancerInv, LBTypeOK
  <2>2. AgeInv'
    BY <1>5 DEF Tick, BalancerInv, AgeInv, LBTypeOK
  <2>3. ItemsInv' /\ CountInv'
    BY <1>5 DEF Tick, BalancerInv, ItemsInv, CountInv
  <2> QED BY <2>1, <2>2, <2>3 DEF BalancerInv
<1>6. CASE UNCHANGED lbVars
  BY <1>6 DEF lbVars, BalancerInv, LBTypeOK, ItemsInv, AgeInv, CountInv
<1> QED BY <1>1, <1>2, <1>3, <1>4, <1>5, <1>6 DEF LBNext, GetFail

LEMMA BalancerInvHolds == LBSpec => []BalancerInv
BY InitBalancer, StepBalancer, PTL DEF LBSpec

(* The variables keep their types: no weight and no error count is ever    *)
(* negative.                                                               *)
THEOREM BalancerTypes == LBSpec => []LBTypeOK
<1>1. BalancerInv => LBTypeOK
  BY DEF BalancerInv
<1> QED BY <1>1, BalancerInvHolds, PTL

(* Get, Update and autoScan keep a weight of at least 1 between 1 and the  *)
(* configured one.                                                         *)
THEOREM WeightsInRange == LBSpec => []WeightInRange
<1>1. BalancerInv => WeightInRange
  BY DEF BalancerInv, ItemsInv, ItemInv, WeightInRange
<1> QED BY <1>1, BalancerInvHolds, PTL

(* No step takes a server that stays kicked back in its outage.            *)
LEMMA OutageGoesOn ==
    ASSUME BalancerInv, [LBNext]_lbVars, NEW b \in Addr, item[b].MarkFail, item'[b].MarkFail
    PROVE  age[b] <= age'[b]
<1>0. age[b] \in Nat
  BY DEF BalancerInv, LBTypeOK
<1>1. ASSUME NEW d \in Sessions, NEW a \in Addr, Get(d, a) \/ UpdateSucc(d, a)
      PROVE  age[b] <= age'[b]
  BY <1>0, <1>1 DEF Get, UpdateSucc
<1>2. ASSUME NEW d \in Sessions, NEW a \in Addr, UpdateFail(d, a)
      PROVE  age[b] <= age'[b]
  <2>1. CASE item[a].MarkFail
    BY <1>0, <1>2, <2>1 DEF UpdateFail
  <2>2. CASE ~item[a].MarkFail
    <3>1. a # b
      BY <2>2
    <3>2. age'[b] = age[b]
      BY <1>2, <2>2, <3>1 DEF UpdateFail, BalancerInv, LBTypeOK
    <3> QED BY <1>0, <3>2
  <2> QED BY <2>1, <2>2
<1>3. CASE AutoScan
  <2>1. CASE Expired(b)
    <3>1. item'[b] = Revived(item[b], Weight[b])
      BY <1>3, <2>1 DEF AutoScan
    <3>2. item[b] \in LoadItem /\ Weight[b] \in Nat
      BY WeightAssumption DEF BalancerInv, LBTypeOK
    <3>3. Revived(item[b], Weight[b]).MarkFail = FALSE
      BY <3>2, MarksAndErrors
    <3> QED BY <3>1, <3>3
  <2>2. CASE ~Expired(b)
    BY <1>0, <1>3, <2>2 DEF AutoScan
  <2> QED BY <2>1, <2>2
<1>4. CASE Tick
  BY <1>0, <1>4 DEF Tick
<1>5. CASE UNCHANGED lbVars
  BY <1>0, <1>5 DEF lbVars
<1> QED BY <1>1, <1>2, <1>3, <1>4, <1>5 DEF LBNext, GetFail

(* A kicked server is out for at most max_failtime and one autoScan        *)
(* period, counted from the kick.                                          *)
THEOREM OutagesBounded == LBSpec => OutageBounded
<1> DEFINE A == \A a \in Addr : item'[a].MarkFail =>
                    /\ age'[a] <= MaxFail + ScanPeriod
                    /\ item[a].MarkFail => age[a] <= age'[a]
<1>1. ASSUME BalancerInv, [LBNext]_lbVars PROVE A
  <2>1. ASSUME NEW a \in Addr, item'[a].MarkFail PROVE age'[a] <= MaxFail + ScanPeriod
    <3>1. BalancerInv'
      BY <1>1, StepBalancer
    <3>2. /\ age'[a] <= MaxFail + sinceScan'
          /\ age'[a] \in Nat /\ sinceScan' \in 0 .. ScanPeriod
      BY <2>1, <3>1 DEF BalancerInv, AgeInv, LBTypeOK
    <3> QED BY <3>2, LimitAssumption
  <2> QED BY <1>1, <2>1, OutageGoesOn
<1>2. BalancerInv /\ [LBNext]_lbVars => [A]_lbVars
  BY <1>1
<1> QED BY <1>2, BalancerInvHolds, PTL DEF LBSpec, OutageBounded

(* Update kicks a server after exactly max_errcnt failures, unless a late  *)
(* success put it back since.                                              *)
THEOREM KicksExact == LBSpec => []KickedExactly
<1>1. BalancerInv => KickedExactly
  BY DEF BalancerInv, CountInv, KickedExactly
<1> QED BY <1>1, BalancerInvHolds, PTL

-----------------------------------------------------------------------------
(* The types of what the arguments below read                              *)
Types ==
    /\ dialing \in [Sessions -> Addr \cup {None}]
    /\ rule \in [Hosts -> Rules \cup {None}]
    /\ smart \in [Names -> {"direct", "proxy", None}]
    /\ pc \in [Sessions -> {"idle", "hook", "rule", "smart", "get", "dial", "wrap", "pipe"}]
    /\ kind \in [Sessions -> Kinds] /\ host \in [Sessions -> Hosts]
    /\ route \in [Sessions -> Rules \cup {None}]
    /\ smartRule \in [Sessions -> BOOLEAN]
    /\ seen \in [Sessions -> SUBSET (Rules \cup {None})]

(* What a session has seen of the file's rules when it looks one up        *)
SeenSoFar ==
    \A s \in Sessions :
        /\ pc[s] \in {"hook", "rule"} => rule[host[s]] \in seen[s] /\ route[s] = None
        /\ pc[s] = "smart" => None \in seen[s] /\ route[s] = None
        /\ pc[s] = "get" => route[s] = "proxy"

IInv == Types /\ SeenSoFar /\ RouteJustified /\ ServersAnswered

-----------------------------------------------------------------------------
(* The steps of LoadBalance, as far as a session can tell                  *)
LEMMA BalancerFrame ==
    ASSUME AutoScan \/ Tick PROVE dialing' = dialing
BY DEF AutoScan, Tick

LEMMA GetHolds ==
    ASSUME NEW s \in Sessions, \E a \in Addr : Get(s, a)
    PROVE  \E a \in Addr : dialing' = [dialing EXCEPT ![s] = a]
BY DEF Get

LEMMA AnswerFrees ==
    ASSUME NEW s \in Sessions,
           \/ UpdateSucc(s, dialing[s]) \/ UpdateFail(s, dialing[s]) \/ NoUpdate(s)
    PROVE  dialing' = [dialing EXCEPT ![s] = None]
BY DEF UpdateSucc, UpdateFail, NoUpdate

-----------------------------------------------------------------------------
LEMMA InitHolds == Init => IInv
<1> SUFFICES ASSUME Init PROVE IInv
    OBVIOUS
<1>1. dialing = [s \in Sessions |-> None]
    BY DEF Init, LBInit
<1>2. Types
    BY <1>1, NoneAssumption, NoRuleAssumption DEF Types, Init, Rules
<1>3. SeenSoFar /\ RouteJustified /\ ServersAnswered
    BY <1>1, NoneAssumption, NoRuleAssumption DEF SeenSoFar, RouteJustified, ServersAnswered, Init, Rules
<1> QED BY <1>2, <1>3 DEF IInv

(* A session looks its route up: r is proxy, direct or block, and comes    *)
(* from what the session has seen.                                         *)
LEMMA FollowHolds ==
    ASSUME IInv, NEW s \in Sessions, NEW from \in {"rule", "smart"},
           NEW r \in Rules, NEW bySmart \in BOOLEAN,
           Follow(s, from, r, bySmart), UNCHANGED <<lbVars, rule, smart>>,
           IF r = "proxy" THEN seen[s] \cap {"proxy", None} # {}
           ELSE IF bySmart THEN None \in seen[s] ELSE r \in seen[s]
    PROVE  IInv'
<1> DEFINE followed == IF kind[s] = "forward" THEN "proxy" ELSE r
<1>1. /\ pc[s] = from
      /\ pc' = [pc EXCEPT ![s] = IF followed = "proxy" THEN "get" ELSE "dial"]
      /\ route' = [route EXCEPT ![s] = followed]
      /\ smartRule' = [smartRule EXCEPT ![s] = bySmart]
      /\ UNCHANGED <<kind, host, seen, rule, smart, dialing>>
    BY DEF Follow, Goto, lbVars
<1>2. Types'
    BY <1>1 DEF IInv, Types, Rules
<1>3. SeenSoFar'
    BY <1>1 DEF IInv, Types, SeenSoFar, Rules
<1>4. RouteJustified'
    BY <1>1 DEF IInv, Types, RouteJustified, Rules
<1>5. ServersAnswered'
    BY <1>1, NoneAssumption, NoRuleAssumption DEF IInv, Types, ServersAnswered, Rules
<1> QED BY <1>2, <1>3, <1>4, <1>5 DEF IInv

LEMMA SessionHolds ==
    ASSUME IInv, NEW s \in Sessions, Accept(s) \/ HandleProxy(s) \/ Piped(s)
    PROVE  IInv'
<1> USE DEF IInv
<1>1. CASE Accept(s)
  <2>1. PICK k \in Kinds, h \in Hosts :
           /\ pc[s] = "idle"
           /\ pc' = [pc EXCEPT ![s] = IF k = "socks" THEN "hook" ELSE "rule"]
           /\ kind' = [kind EXCEPT ![s] = k]
           /\ host' = [host EXCEPT ![s] = h]
           /\ seen' = [seen EXCEPT ![s] = {rule[h]}]
           /\ route' = [route EXCEPT ![s] = None]
           /\ smartRule' = [smartRule EXCEPT ![s] = FALSE]
           /\ UNCHANGED <<dialing, rule, smart>>
      BY <1>1 DEF Accept, Goto, lbVars, ruleVars
  <2>2. Types'
      BY <2>1 DEF Types
  <2>3. SeenSoFar'
      BY <2>1 DEF Types, SeenSoFar
  <2>4. RouteJustified' /\ ServersAnswered'
      BY <2>1, NoneAssumption, NoRuleAssumption DEF Types, RouteJustified, ServersAnswered, Rules
  <2> QED BY <2>2, <2>3, <2>4
<1>2. CASE HostHook(s)
  <2>1. /\ pc[s] = "hook"
        /\ pc' = [pc EXCEPT ![s] = IF rule[host[s]] = "block" THEN "idle" ELSE "rule"]
        /\ UNCHANGED <<dialing, rule, smart, kind, host, route, smartRule, seen>>
      BY <1>2 DEF HostHook, Goto, lbVars, ruleVars
  <2> QED BY <2>1 DEF Types, SeenSoFar, RouteJustified, ServersAnswered
<1>3. CASE HostRule(s)
  <2>1. pc[s] = "rule" /\ rule[host[s]] \in seen[s] /\ rule[host[s]] \in Rules \cup {None}
      BY <1>3 DEF HostRule, Follow, Goto, SeenSoFar, Types
  <2>2. UNCHANGED <<lbVars, rule, smart>>
      BY <1>3 DEF HostRule, ruleVars
  <2>3. CASE rule[host[s]] # None /\ Follow(s, "rule", rule[host[s]], FALSE)
      BY <2>1, <2>2, <2>3, FollowHolds DEF Rules
  <2>4. CASE /\ rule[host[s]] = None
             /\ Goto(s, "rule", "smart") /\ UNCHANGED <<kind, host, route, smartRule, seen>>
    <3>1. /\ pc' = [pc EXCEPT ![s] = "smart"]
          /\ UNCHANGED <<dialing, rule, smart, kind, host, route, smartRule, seen>>
        BY <2>2, <2>4 DEF Goto, lbVars
    <3> QED BY <2>1, <2>4, <3>1
            DEF Types, SeenSoFar, RouteJustified, ServersAnswered
  <2>5. CASE rule[host[s]] = None /\ Follow(s, "rule", "proxy", FALSE)
      BY <2>1, <2>2, <2>5, FollowHolds DEF Rules
  <2> QED BY <1>3, <2>3, <2>4, <2>5 DEF HostRule
<1>4. CASE SmartHost(s)
  <2>1. pc[s] = "smart" /\ None \in seen[s] /\ smart[host[s]] \in {"direct", "proxy", None}
      BY <1>4 DEF SmartHost, Follow, Goto, SeenSoFar, Types, Names
  <2>2. UNCHANGED <<lbVars, rule, smart>>
      BY <1>4 DEF SmartHost
  <2>3. CASE smart[host[s]] # None /\ Follow(s, "smart", smart[host[s]], TRUE)
      BY <2>1, <2>2, <2>3, FollowHolds DEF Rules
  <2>4. CASE Follow(s, "smart", "proxy", FALSE)
      BY <2>1, <2>2, <2>4, FollowHolds DEF Rules
  <2> QED BY <1>4, <2>3, <2>4 DEF SmartHost
<1>5. CASE GetServer(s)
  <2>1. PICK a \in Addr : dialing' = [dialing EXCEPT ![s] = a]
      BY <1>5, GetHolds DEF GetServer
  <2>2. /\ pc[s] = "get" /\ pc' = [pc EXCEPT ![s] = "dial"]
        /\ UNCHANGED <<rule, smart, kind, host, route, smartRule, seen>>
      BY <1>5 DEF GetServer, Goto, ruleVars
  <2>3. Types' /\ SeenSoFar' /\ RouteJustified'
      BY <2>1, <2>2 DEF Types, SeenSoFar, RouteJustified
  <2>4. ServersAnswered'
      BY <2>1, <2>2, NoneAssumption, NoRuleAssumption DEF Types, SeenSoFar, ServersAnswered
  <2> QED BY <2>3, <2>4
<1>6. CASE GetFails(s)
  <2>1. UNCHANGED <<dialing, rule, smart, pc, kind, host, route, smartRule, seen>>
      BY <1>6 DEF GetFails, GetFail, lbVars, ruleVars, sessVars
  <2> QED BY <2>1 DEF Types, SeenSoFar, RouteJustified, ServersAnswered
<1>7. CASE Dialed(s) \/ DialFails(s)
  <2>1. /\ pc[s] = "dial"
        /\ \E to \in {"wrap", "pipe", "idle"} : pc' = [pc EXCEPT ![s] = to]
        /\ UNCHANGED <<rule, smart, kind, host, route, smartRule, seen>>
      BY <1>7 DEF Dialed, DialFails, Goto, ruleVars
  <2>2. dialing' = IF route[s] = "proxy" THEN [dialing EXCEPT ![s] = None] ELSE dialing
      BY <1>7, AnswerFrees DEF Dialed, DialFails, lbVars
  <2>3. Types' /\ SeenSoFar' /\ RouteJustified'
      BY <2>1, <2>2 DEF Types, SeenSoFar, RouteJustified
  <2>4. ServersAnswered'
      BY <2>1, <2>2 DEF Types, ServersAnswered
  <2> QED BY <2>3, <2>4
<1>8. CASE Wrapped(s) \/ WrapFails(s) \/ Piped(s)
  <2>1. /\ pc[s] \in {"wrap", "pipe"}
        /\ \E to \in {"pipe", "idle"} : pc' = [pc EXCEPT ![s] = to]
        /\ UNCHANGED <<dialing, rule, smart, kind, host, route, smartRule, seen>>
      BY <1>8 DEF Wrapped, WrapFails, Piped, Goto, lbVars, ruleVars
  <2> QED BY <2>1 DEF Types, SeenSoFar, RouteJustified, ServersAnswered
<1> QED BY <1>1, <1>2, <1>3, <1>4, <1>5, <1>6, <1>7, <1>8 DEF HandleProxy

LEMMA ReloadHolds == ASSUME IInv, Reload PROVE IInv'
<1> USE DEF IInv
<1>1. /\ rule' \in [Hosts -> Rules \cup {None}]
      /\ seen' = [s \in Sessions |-> IF Deciding(s) THEN seen[s] \cup {rule'[host[s]]}
                                                    ELSE seen[s]]
      /\ UNCHANGED <<dialing, smart, pc, kind, host, route, smartRule>>
    BY DEF Reload, lbVars
<1>2. \A s \in Sessions : seen[s] \subseteq seen'[s]
    BY <1>1 DEF Types
<1>3. Types'
    BY <1>1 DEF Types
<1>4. SeenSoFar'
    BY <1>1, <1>2 DEF Types, SeenSoFar, Deciding
<1>5. RouteJustified'
    BY <1>1, <1>2 DEF RouteJustified
<1>6. ServersAnswered'
    BY <1>1 DEF ServersAnswered
<1> QED BY <1>3, <1>4, <1>5, <1>6

LEMMA OtherHolds == ASSUME IInv, Probed \/ Balance PROVE IInv'
<1>1. /\ UNCHANGED <<dialing, rule, pc, kind, host, route, smartRule, seen>>
      /\ smart' \in [Names -> {"direct", "proxy", None}]
    BY BalancerFrame DEF IInv, Types, Probed, Balance, lbVars, ruleVars, sessVars
<1> QED BY <1>1 DEF IInv, Types, SeenSoFar, RouteJustified, ServersAnswered

LEMMA NextHolds == IInv /\ [Next]_vars => IInv'
<1> SUFFICES ASSUME IInv, [Next]_vars PROVE IInv'
    OBVIOUS
<1>1. CASE UNCHANGED vars
    BY <1>1 DEF vars, IInv, Types, SeenSoFar, RouteJustified, ServersAnswered
<1> QED BY <1>1, SessionHolds, ReloadHolds, OtherHolds DEF Next

LEMMA Invariance == Spec => []IInv
BY InitHolds, NextHolds, PTL DEF Spec

(* handleProxy goes where the rules that were in force during its lookup   *)
(* say, for any number of sessions, hosts, reloads and probes.             *)
THEOREM RoutesJustified == Spec => []RouteJustified
<1>1. IInv => RouteJustified
    BY DEF IInv
<1> QED BY <1>1, Invariance, PTL

(* handleProxy answers every Get of the balancer by the end of its dial.   *)
THEOREM DialsAnswered == Spec => []ServersAnswered
<1>1. IInv => ServersAnswered
    BY DEF IInv
<1> QED BY <1>1, Invariance, PTL

(* Each step of a session is a step of one dialer or none of the balancer, *)
(* but for a dial that ends while the balancer is off.                     *)
LEMMA SessionIsDialer ==
    ASSUME IInv, NEW s \in Sessions, Accept(s) \/ HandleProxy(s) \/ Piped(s)
    PROVE  LBNext \/ UNCHANGED lbVars \/ (~Enable /\ NoUpdate(s))
<1>1. CASE \/ Accept(s) \/ HostHook(s) \/ HostRule(s) \/ SmartHost(s)
           \/ Wrapped(s) \/ WrapFails(s) \/ Piped(s)
    BY <1>1 DEF Accept, HostHook, HostRule, SmartHost, Wrapped, WrapFails, Piped, lbVars
<1>2. CASE GetServer(s)
    BY <1>2 DEF GetServer, LBNext
<1>3. CASE GetFails(s)
    BY <1>3 DEF GetFails, LBNext
<1>4. CASE Dialed(s) \/ DialFails(s)
  <2>1. CASE route[s] # "proxy"
      BY <1>4, <2>1 DEF Dialed, DialFails, lbVars
  <2>2. CASE route[s] = "proxy"
    <3>1. \/ UpdateSucc(s, dialing[s]) \/ UpdateFail(s, dialing[s])
          \/ (~Enable /\ NoUpdate(s))
        BY <1>4, <2>2 DEF Dialed, DialFails
    <3>2. pc[s] = "dial"
        BY <1>4 DEF Dialed, DialFails, Goto
    <3>3. dialing[s] \in Addr
        BY <2>2, <3>2 DEF IInv, Types, ServersAnswered
    <3> QED BY <3>1, <3>3 DEF LBNext
  <2> QED BY <2>1, <2>2
<1> QED BY <1>1, <1>2, <1>3, <1>4 DEF HandleProxy

LEMMA StepOfBalancer ==
    ASSUME IInv, [Next]_vars
    PROVE  LBNext \/ UNCHANGED lbVars \/ (~Enable /\ \E s \in Sessions : NoUpdate(s))
<1>1. CASE \E s \in Sessions : Accept(s) \/ HandleProxy(s) \/ Piped(s)
    BY <1>1, SessionIsDialer
<1>2. CASE Reload \/ Probed
    BY <1>2 DEF Reload, Probed, lbVars
<1>3. CASE Balance
    BY <1>3 DEF Balance, LBNext
<1>4. CASE UNCHANGED vars
    BY <1>4 DEF vars, lbVars
<1> QED BY <1>1, <1>2, <1>3, <1>4 DEF Next

(* With loadbalance.enable on, handleProxy uses the balancer as its        *)
(* contract asks: a Get, then one Update for the server it returned.  Off, *)
(* no Update ever comes and the contract is not kept.                      *)
THEOREM BalancerIsUsed == Enable => (Spec => IsBalancer)
<1> SUFFICES ASSUME Enable PROVE Spec => IsBalancer
    OBVIOUS
<1>1. Init => LBInit
    BY DEF Init
<1>2. IInv /\ [Next]_vars => [LBNext]_lbVars
    BY StepOfBalancer
<1> QED BY <1>1, <1>2, Invariance, PTL DEF Spec, IsBalancer, LBSpec

-----------------------------------------------------------------------------
(* The balancer in the client, on or off                                   *)

LEMMA BalancerKept == IInv /\ BalancerInv /\ [Next]_vars => BalancerInv'
<1> SUFFICES ASSUME IInv, BalancerInv, [Next]_vars PROVE BalancerInv'
    OBVIOUS
<1>1. CASE LBNext \/ UNCHANGED lbVars
    BY <1>1, StepBalancer
<1>2. CASE \E s \in Sessions : NoUpdate(s)
    BY <1>2 DEF NoUpdate, BalancerInv, LBTypeOK, ItemsInv, AgeInv, CountInv
<1> QED BY <1>1, <1>2, StepOfBalancer

LEMMA BalancerInClient == Spec => []BalancerInv
<1>1. Init => BalancerInv
    BY InitBalancer DEF Init
<1> QED BY <1>1, BalancerKept, Invariance, PTL DEF Spec

(* With the balancer off too, the servers handleProxy may be given keep    *)
(* their weights: none leaves the draw but by being kicked.                *)
THEOREM ClientKeepsWeights == Spec => []WeightInRange
<1>1. BalancerInv => WeightInRange
    BY DEF BalancerInv, ItemsInv, ItemInv, WeightInRange
<1> QED BY <1>1, BalancerInClient, PTL

(* With the balancer on, what its own theorems say of a kick and of an     *)
(* outage holds of the servers handleProxy dials.                          *)
THEOREM ClientKicksAndReturns ==
    Enable => (Spec => []KickedExactly /\ OutageBounded)
<1> SUFFICES ASSUME Enable PROVE Spec => []KickedExactly /\ OutageBounded
    OBVIOUS
<1>1. Spec => LBSpec
    BY BalancerIsUsed DEF IsBalancer
<1> QED BY <1>1, KicksExact, OutagesBounded, PTL

(* The rest of the types                                                   *)
OtherTypes == reloads \in 0 .. MaxReloads /\ checks \subseteq Names /\ crashed \in BOOLEAN

LEMMA OtherTypesKept == IInv /\ OtherTypes /\ [Next]_vars => OtherTypes'
<1> SUFFICES ASSUME IInv, OtherTypes, [Next]_vars PROVE OtherTypes'
    OBVIOUS
<1> USE DEF OtherTypes
<1>1. ASSUME NEW s \in Sessions, Accept(s) \/ Piped(s) \/ HostHook(s) \/ HostRule(s)
                                 \/ GetServer(s) \/ Dialed(s) \/ Wrapped(s) \/ WrapFails(s)
      PROVE  OtherTypes'
    BY <1>1 DEF Accept, Piped, HostHook, HostRule, GetServer, Dialed, Wrapped, WrapFails, ruleVars
<1>2. ASSUME NEW s \in Sessions, SmartHost(s) PROVE OtherTypes'
    BY <1>2 DEF SmartHost, AddToCheck, Names, IInv, Types
<1>3. ASSUME NEW s \in Sessions, GetFails(s) PROVE OtherTypes'
    BY <1>3 DEF GetFails, ruleVars
<1>4. ASSUME NEW s \in Sessions, DialFails(s) PROVE OtherTypes'
  <2>1. pc[s] = "dial" /\ UNCHANGED <<reloads, crashed>>
        /\ IF smartRule[s] THEN AddToCheck(IF route[s] = "proxy" THEN dialing[s] ELSE host[s])
                           ELSE UNCHANGED checks
      BY <1>4 DEF DialFails, Goto
  <2>2. (IF route[s] = "proxy" THEN dialing[s] ELSE host[s]) \in Names
      BY <2>1 DEF IInv, Types, ServersAnswered, Names
  <2> QED BY <2>1, <2>2 DEF AddToCheck
<1>5. CASE Reload
    BY <1>5, FlagAssumption DEF Reload
<1>6. CASE Probed
    BY <1>6 DEF Probed
<1>7. CASE Balance
    BY <1>7 DEF Balance, ruleVars
<1>8. CASE UNCHANGED vars
    BY <1>8 DEF vars
<1> QED BY <1>1, <1>2, <1>3, <1>4, <1>5, <1>6, <1>7, <1>8 DEF Next, HandleProxy

(* The variables of handleProxy keep their types, and those of the         *)
(* balancer below it theirs, also when no Update comes; what is probed is  *)
(* a host or the server that was dialled.                                  *)
THEOREM TypeCorrect == Spec => []TypeOK
<1>1. ASSUME Init PROVE OtherTypes
  <2>1. reloads = 0 /\ checks = {} /\ crashed = FALSE
      BY <1>1 DEF Init
  <2>2. 0 \in 0 .. MaxReloads
      BY FlagAssumption
  <2>3. crashed \in BOOLEAN
      BY <2>1, Zenon
  <2> QED BY <2>1, <2>2, <2>3 DEF OtherTypes
<1>2. IInv /\ BalancerInv /\ OtherTypes => TypeOK
    BY DEF IInv, Types, BalancerInv, OtherTypes, TypeOK
<1> QED BY <1>1, <1>2, OtherTypesKept, BalancerInClient, Invariance, PTL DEF Spec
=============================================================================
