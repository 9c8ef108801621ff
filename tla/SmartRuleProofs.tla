---------------------------- MODULE SmartRuleProofs ----------------------------
(***************************************************************************)
(* For any names, any number of probe goroutines, any queue and any limit: *)
(* two probes of one host never overlap, and the limiter accounts for      *)
(* exactly the probes that dial.                                           *)
(***************************************************************************)
EXTENDS SmartRule, FiniteSetTheorems, TLAPS

(* A goroutine that is not idle has a host, and its host is in checkMap.   *)
ProbeInv ==
    \A p \in Probes : /\ at[p] = "idle" <=> probe[p] = None
                      /\ probe[p] # None => probe[p] \in checkMap

(* From the look-up in checkMap to the store in it, startCheck's host is   *)
(* not there: no one else stores.                                          *)
CheckInv == /\ pc # "recv" => check \in Request
            /\ pc \in {"acquire", "store"} => check.name \notin checkMap

Apart == \A p, q \in Probes : probe[p] = probe[q] /\ probe[p] # None => p = q

Dialing == {p \in Probes : at[p] \in {"dial", "release"}}

Taken == IF pc = "store" /\ result THEN 1 ELSE 0

(* Only finitely many probes dial, however many there may be.              *)
SlotInv == IsFiniteSet(Dialing) /\ cnt + Cardinality(Dialing) + Taken = Limit

IInv == TypeOK /\ ProbeInv /\ CheckInv /\ Apart /\ SlotInv

USE BoundAssumption, NoneAssumption

LEMMA NoneIsNoRequest == ASSUME TypeOK, pc # "recv" => check \in Request, pc # "recv"
                         PROVE  check.name \in Names
BY DEF Request

LEMMA InitIInv == Init => IInv
<1> SUFFICES ASSUME Init PROVE IInv
  OBVIOUS
<1>1. TypeOK
  <2>1. checkQueue \in Seq(Request) /\ Len(checkQueue) <= QueueCap
    BY DEF Init
  <2>2. /\ domain \in [Names -> Rules \cup {None}] /\ probe \in [Probes -> Names \cup {None}]
        /\ stat \in [Probes -> Rules \cup {None}]
        /\ at \in [Probes -> {"idle", "dial", "release", "add", "write", "clear"}]
    BY DEF Init
  <2>3. checkMap \in SUBSET Names /\ check \in Request \cup {None} /\ pc = "recv"
    BY Zenon DEF Init
  <2>4. cnt \in 0 .. Limit
    BY DEF Init
  <2>5. result \in BOOLEAN /\ crashed \in BOOLEAN
    BY Zenon DEF Init
  <2> QED BY <2>1, <2>2, <2>3, <2>4, <2>5 DEF TypeOK
<1>2. ProbeInv /\ CheckInv /\ Apart
  BY DEF Init, ProbeInv, CheckInv, Apart
<1>3. SlotInv
  <2>1. Dialing = {}
    BY DEF Init, Dialing
  <2>2. IsFiniteSet(Dialing) /\ Cardinality(Dialing) = 0
    BY <2>1, FS_EmptySet
  <2> QED BY <2>2 DEF Init, SlotInv, Taken
<1> QED BY <1>1, <1>2, <1>3 DEF IInv

(* A step that moves no probe keeps the probes' part of the invariant.     *)
LEMMA ProbesRest ==
    ASSUME IInv, UNCHANGED <<probe, at>>, checkMap \subseteq checkMap'
    PROVE  ProbeInv' /\ Apart' /\ Dialing' = Dialing
BY DEF IInv, ProbeInv, Apart, Dialing

LEMMA HandlerStep ==
    ASSUME IInv, NEW n \in Names, NEW force \in BOOLEAN, AddToCheck(n, force)
    PROVE  IInv'
<1>1. TypeOK'
  <2>1. [name |-> n, force |-> force] \in Request
    BY DEF Request
  <2>2. checkQueue' \in Seq(Request) /\ Len(checkQueue') <= QueueCap
    BY <2>1 DEF AddToCheck, IInv, TypeOK
  <2> QED BY <2>2 DEF AddToCheck, IInv, TypeOK, chkVars
<1>2. ProbeInv' /\ Apart' /\ Dialing' = Dialing
  BY ProbesRest DEF AddToCheck
<1>3. CheckInv' /\ SlotInv'
  BY <1>2 DEF AddToCheck, chkVars, IInv, CheckInv, SlotInv, Taken
<1> QED BY <1>1, <1>2, <1>3 DEF IInv

(* startCheck up to the store                                              *)
LEMMA CheckStep ==
    ASSUME IInv, Recv \/ ReadFails \/ CheckDomain \/ CheckProgress \/ TryAcqure
    PROVE  IInv'
<1>1. ProbeInv' /\ Apart' /\ Dialing' = Dialing
  BY ProbesRest DEF Recv, ReadFails, CheckDomain, CheckProgress, TryAcqure
<1>2. Cardinality(Dialing) \in Nat
  BY FS_CardinalityType DEF IInv, SlotInv
<1>3. CASE Recv
  <2>1. Head(checkQueue) \in Request /\ checkQueue' \in Seq(Request)
        /\ Len(checkQueue') <= QueueCap
    BY <1>3 DEF Recv, IInv, TypeOK
  <2>2. TypeOK'
    BY <1>3, <2>1 DEF Recv, Goto, IInv, TypeOK
  <2>3. CheckInv' /\ SlotInv'
    BY <1>1, <1>3, <2>1 DEF Recv, Goto, IInv, CheckInv, SlotInv, Taken
  <2> QED BY <1>1, <2>2, <2>3 DEF IInv
<1>4. CASE ReadFails
  <2>1. TypeOK' /\ CheckInv' /\ SlotInv'
    BY <1>1, <1>4 DEF ReadFails, chkVars, IInv, TypeOK, CheckInv, SlotInv, Taken
  <2> QED BY <1>1, <2>1 DEF IInv
<1>5. CASE CheckDomain \/ CheckProgress
  <2>1. TypeOK'
    BY <1>5 DEF CheckDomain, CheckProgress, Goto, IInv, TypeOK
  <2>2. CheckInv'
    BY <1>5 DEF CheckDomain, CheckProgress, Goto, IInv, CheckInv
  <2>3. Taken' = Taken /\ cnt' = cnt
    BY <1>5 DEF CheckDomain, CheckProgress, Goto, Taken
  <2>4. SlotInv'
    BY <1>1, <2>3 DEF IInv, SlotInv
  <2> QED BY <1>1, <2>1, <2>2, <2>4 DEF IInv
<1>6. CASE TryAcqure
  <2>1. TypeOK'
    BY <1>6 DEF TryAcqure, Goto, IInv, TypeOK
  <2>2. CheckInv'
    BY <1>6 DEF TryAcqure, Goto, IInv, CheckInv
  <2>3. Taken = 0 /\ cnt' + Taken' = cnt
    <3>1. pc = "acquire" /\ pc' = "store" /\ cnt \in Nat
      BY <1>6 DEF TryAcqure, Goto, IInv, TypeOK
    <3>2. CASE cnt > 0
      <4>1. result' /\ cnt' = cnt - 1
        BY <1>6, <3>2 DEF TryAcqure
      <4> QED BY <3>1, <4>1 DEF Taken
    <3>3. CASE ~(cnt > 0)
      <4>1. ~result' /\ cnt' = cnt
        BY <1>6, <3>3 DEF TryAcqure
      <4> QED BY <3>1, <4>1 DEF Taken
    <3> QED BY <3>2, <3>3
  <2>4. cnt \in Nat /\ cnt' \in Nat /\ Taken' \in Nat
    BY <1>6 DEF TryAcqure, IInv, TypeOK, Taken
  <2>5. SlotInv'
    <3>1. IsFiniteSet(Dialing) /\ cnt + Cardinality(Dialing) + Taken = Limit
      BY DEF IInv, SlotInv
    <3>2. \A d, c, t \in Nat : c + t = cnt /\ cnt + d + 0 = Limit => c + d + t = Limit
      BY <2>4
    <3>3. cnt + Cardinality(Dialing) + 0 = Limit
      BY <2>3, <3>1
    <3>4. cnt' + Cardinality(Dialing) + Taken' = Limit
      BY <1>2, <2>3, <2>4, <3>2, <3>3, Zenon
    <3> QED BY <1>1, <3>1, <3>4 DEF SlotInv
  <2> QED BY <1>1, <2>1, <2>2, <2>5 DEF IInv
<1> QED BY <1>3, <1>4, <1>5, <1>6

LEMMA StoreStep == ASSUME IInv, Store PROVE IInv'
<1>1. pc = "store" /\ pc' = "recv" /\ check.name \in Names /\ check.name \notin checkMap
  BY NoneIsNoRequest DEF Store, Goto, IInv, CheckInv
<1>2. CheckInv' /\ Taken' = 0
  BY <1>1 DEF Store, CheckInv, Taken
<1>3. CASE ~result
  <2>1. TypeOK'
    BY <1>1, <1>3 DEF Store, IInv, TypeOK
  <2>2. ProbeInv' /\ Apart' /\ Dialing' = Dialing
    BY <1>3, ProbesRest DEF Store
  <2>3. SlotInv'
    BY <1>1, <1>2, <1>3, <2>2 DEF Store, IInv, SlotInv, Taken
  <2> QED BY <1>2, <2>1, <2>2, <2>3 DEF IInv
<1>4. CASE result
  <2>1. PICK p \in Probes : /\ at[p] = "idle" /\ at' = [at EXCEPT ![p] = "dial"]
                            /\ probe' = [probe EXCEPT ![p] = check.name]
    BY <1>4 DEF Store
  <2>2. TypeOK'
    BY <1>1, <2>1 DEF Store, IInv, TypeOK
  <2>3. ProbeInv'
    BY <1>1, <2>1 DEF Store, IInv, TypeOK, ProbeInv
  <2>4. Apart'
    BY <1>1, <2>1 DEF IInv, TypeOK, ProbeInv, Apart
  <2>5. SlotInv'
    <3>1. Dialing' = Dialing \cup {p} /\ p \notin Dialing
      BY <2>1 DEF Dialing, IInv, TypeOK
    <3>2. IsFiniteSet(Dialing') /\ Cardinality(Dialing') = Cardinality(Dialing) + 1
      BY <3>1, FS_AddElement DEF IInv, SlotInv
    <3>3. Cardinality(Dialing) \in Nat /\ cnt' = cnt /\ cnt \in Nat
      BY FS_CardinalityType DEF IInv, SlotInv, TypeOK, Store
    <3> QED BY <1>1, <1>2, <1>4, <3>2, <3>3 DEF IInv, SlotInv, Taken
  <2> QED BY <1>2, <2>2, <2>3, <2>4, <2>5 DEF IInv
<1> QED BY <1>3, <1>4 DEF IInv, TypeOK

(* A probe between its dial and its last step                              *)
LEMMA ProbeStepKeeps ==
    ASSUME IInv, NEW p \in Probes, Dialed(p) \/ AddRule(p) \/ AddedRule(p)
    PROVE  IInv'
<1>1. TypeOK'
  BY DEF Dialed, AddRule, AddedRule, Move, chkVars, IInv, TypeOK, ProbeInv
<1>2. ProbeInv' /\ Apart' /\ CheckInv'
  BY DEF Dialed, AddRule, AddedRule, Move, chkVars, IInv, TypeOK, ProbeInv, Apart, CheckInv
<1>3. Dialing' = Dialing
  BY DEF Dialed, AddRule, AddedRule, Move, IInv, TypeOK, Dialing
<1>4. SlotInv'
  BY <1>3 DEF Dialed, AddRule, AddedRule, chkVars, IInv, SlotInv, Taken
<1> QED BY <1>1, <1>2, <1>4 DEF IInv

(* The slot a probe gives back was one of Limit, so it is not refused.     *)
LEMMA ReleaseStep == ASSUME IInv, NEW p \in Probes, Release(p) PROVE IInv'
<1>1. Dialing' = Dialing \ {p} /\ p \in Dialing
  BY DEF Release, Move, IInv, TypeOK, Dialing
<1>2. IsFiniteSet(Dialing') /\ Cardinality(Dialing') = Cardinality(Dialing) - 1
  BY <1>1, FS_RemoveElement DEF IInv, SlotInv
<1>3. Cardinality(Dialing) \in Nat /\ Cardinality(Dialing') \in Nat /\ cnt \in Nat
      /\ Taken \in 0 .. 1
  BY <1>2, FS_CardinalityType DEF IInv, SlotInv, TypeOK, Taken
<1>4. cnt < Limit /\ cnt' = cnt + 1
  BY <1>2, <1>3 DEF Release, IInv, SlotInv
<1>5. SlotInv'
  BY <1>2, <1>3, <1>4 DEF Release, chkVars, IInv, SlotInv, Taken
<1>6. TypeOK'
  BY <1>3, <1>4 DEF Release, Move, chkVars, IInv, TypeOK
<1>7. ProbeInv' /\ Apart' /\ CheckInv'
  BY DEF Release, Move, chkVars, IInv, TypeOK, ProbeInv, Apart, CheckInv
<1> QED BY <1>5, <1>6, <1>7 DEF IInv

(* The host leaves checkMap with its only probe.                           *)
LEMMA DeleteStep == ASSUME IInv, NEW p \in Probes, Delete(p) PROVE IInv'
<1>1. TypeOK'
  BY DEF Delete, Move, chkVars, IInv, TypeOK
<1>2. Apart' /\ CheckInv'
  BY DEF Delete, Move, chkVars, IInv, TypeOK, Apart, CheckInv
<1>3. ProbeInv'
  BY DEF Delete, Move, IInv, TypeOK, ProbeInv, Apart
<1>4. Dialing' = Dialing
  BY DEF Delete, Move, IInv, TypeOK, Dialing
<1>5. SlotInv'
  BY <1>4 DEF Delete, chkVars, IInv, SlotInv, Taken
<1> QED BY <1>1, <1>2, <1>3, <1>5 DEF IInv

LEMMA NextIInv == IInv /\ [Next]_vars => IInv'
<1> SUFFICES ASSUME IInv, [Next]_vars PROVE IInv'
  OBVIOUS
<1>1. CASE \E n \in Names, force \in BOOLEAN : AddToCheck(n, force)
  BY <1>1, HandlerStep
<1>2. CASE Recv \/ ReadFails \/ CheckDomain \/ CheckProgress \/ TryAcqure
  BY <1>2, CheckStep
<1>3. CASE Store
  BY <1>3, StoreStep
<1>4. ASSUME NEW p \in Probes, ProbeStep(p) PROVE IInv'
  BY <1>4, ProbeStepKeeps, ReleaseStep, DeleteStep DEF ProbeStep
<1>5. CASE UNCHANGED vars
  BY <1>5 DEF vars, chkVars, IInv, TypeOK, ProbeInv, CheckInv, Apart, SlotInv, Dialing, Taken
<1> QED BY <1>1, <1>2, <1>3, <1>4, <1>5 DEF Next, StartCheck

LEMMA Invariance == Spec => []IInv
BY InitIInv, NextIInv, PTL DEF Spec

-----------------------------------------------------------------------------
(* The variables keep their types, whatever the bounds.                    *)
THEOREM TypeCorrect == Spec => []TypeOK
<1>1. IInv => TypeOK
  BY DEF IInv
<1> QED BY <1>1, Invariance, PTL

(* startCheck never starts a probe for a host one goroutine already dials, *)
(* so an older outcome cannot replace a newer one.                         *)
THEOREM ProbesApart == Spec => []OneProbePerHost
<1>1. IInv => OneProbePerHost
  <2> SUFFICES ASSUME IInv, NEW n \in Names PROVE Cardinality(InFlight(n)) <= 1
    BY DEF OneProbePerHost
  <2>1. CASE InFlight(n) = {}
    BY <2>1, FS_EmptySet
  <2>2. ASSUME NEW p \in InFlight(n) PROVE Cardinality(InFlight(n)) <= 1
    <3>1. InFlight(n) = {p}
      BY <2>2 DEF InFlight, IInv, Apart
    <3>2. Cardinality({p}) = 1
      BY FS_Singleton
    <3> QED BY <3>1, <3>2
  <2> QED BY <2>1, <2>2
<1> QED BY <1>1, Invariance, PTL

(* TryAcqure and Release keep the account: free slots and dialing probes   *)
(* are Limit together, so no slot is lost and none is made.                *)
THEOREM SlotsAreConserved == Spec => []SlotsConserved
<1>1. IInv => SlotsConserved
  BY DEF IInv, SlotInv, SlotsConserved, Dialing, Taken
<1> QED BY <1>1, Invariance, PTL
=============================================================================
