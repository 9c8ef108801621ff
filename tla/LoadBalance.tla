---------------------------- MODULE LoadBalance ----------------------------
(***************************************************************************)
(* lb/loadbalance.go: the weighted choice among the remote servers, with   *)
(* the dials that handleProxy of wcf_local.go has in flight between a Get  *)
(* and its Update.  One action per critical section of LoadBalance.mu.     *)
(*                                                                         *)
(* Time is counted in ticks of the autoScan goroutine's clock: age[a] is   *)
(* the time since LastFail of a kicked server, sinceScan the time since    *)
(* the last pass of autoScan.                                              *)
(***************************************************************************)
EXTENDS Integers, FiniteSets, FiniteSetsExt

CONSTANTS
    Addr,        \* the configured remote servers, the keys of mp
    Weight,      \* Weight[a] is the configured weight of a, LoadItem.Base
    Sessions,    \* the handleProxy goroutines
    None,        \* a dialer that holds no server
    MaxErr,      \* maxErr
    MaxFail,     \* maxFail, in ticks
    ScanPeriod   \* the 10 seconds of autoScan, in ticks

ASSUME WeightAssumption == Weight \in [Addr -> Nat]
ASSUME NoneAssumption == None \notin Addr
ASSUME LimitAssumption == /\ MaxErr \in Nat
                          /\ MaxFail \in Nat
                          /\ ScanPeriod \in Nat \ {0}

VARIABLES
    item,        \* item[a]: the LoadItem of a
    age,         \* age[a]: ticks from item[a].LastFail, while a is kicked
    sinceScan,   \* ticks since the last pass of autoScan
    dialing,     \* dialing[d]: the server d got from Get and is dialling
    fails,       \* history: failed dials of a counted since it was put in service
    revivedLate  \* history: the servers put back by a late success, not by autoScan

lbVars == <<item, age, sinceScan, dialing, fails, revivedLate>>

LoadItem == [Current: Nat, MarkFail: BOOLEAN, Errtime: Nat]

LBTypeOK ==
    /\ item \in [Addr -> LoadItem]
    /\ age \in [Addr -> Nat]
    /\ sinceScan \in 0..ScanPeriod
    /\ dialing \in [Sessions -> Addr \cup {None}]
    /\ fails \in [Addr -> Nat]
    /\ revivedLate \subseteq Addr

-----------------------------------------------------------------------------
AtLeast(n, low) == IF n <= 0 THEN low ELSE n
AtMost(n, high) == IF n > high THEN high ELSE n

(* Errtime is only compared with maxErr, so it is counted up to maxErr.    *)
CountError(n) == AtMost(n + 1, MaxErr)

AddItem(w) == [Current |-> AtLeast(w, 1), MarkFail |-> FALSE, Errtime |-> 0]

(* Bug: the floor of 1 is forgotten.                                       *)
BugTaken(it, w) ==
    [it EXCEPT !.Current = IF @ > w \div 2 THEN @ - 1 ELSE @]

Taken(it, w) ==
    LET c == IF it.Current > w \div 2 THEN it.Current - 1 ELSE it.Current
    IN  [it EXCEPT !.Current = AtLeast(c, 1)]

Succeeded(it, w) ==
    LET step == IF it.MarkFail \/ it.Current <= w \div 2 THEN w \div 5 + 1 ELSE 1
    IN  [it EXCEPT !.MarkFail = FALSE, !.Current = AtMost(it.Current + step, w)]

(* Bug: > for >=.                                                          *)
BugFailedLate(it, w) ==
    [it EXCEPT !.Errtime = CountError(@), !.MarkFail = it.Errtime >= MaxErr,
               !.Current = AtLeast(@ \div 2 - w \div 10, w \div 10 + 1)]

Failed(it, w) ==
    [it EXCEPT !.Errtime = CountError(it.Errtime),
               !.MarkFail = it.Errtime + 1 >= MaxErr,
               !.Current = AtLeast(it.Current \div 2 - w \div 10, w \div 10 + 1)]

(* Bug: the mark stays.                                                    *)
BugRevived(it, w) ==
    [it EXCEPT !.Errtime = 0, !.Current = w \div 2 + 1]

Revived(it, w) ==
    [it EXCEPT !.MarkFail = FALSE, !.Errtime = 0, !.Current = w \div 2 + 1]

-----------------------------------------------------------------------------
Up == {a \in Addr : ~item[a].MarkFail}

TotalOf(S) == MapThenSumSet(LAMBDA a : item[a].Current, S)

(* The map is walked in an order Go chooses: before is what the walk meets *)
(* ahead of a.                                                             *)
PickedAfter(a, before, rnd) ==
    /\ TotalOf(before) < rnd \/ before = {}
    /\ rnd <= TotalOf(before) + item[a].Current

LBInit ==
    /\ item = [a \in Addr |-> AddItem(Weight[a])]
    /\ age = [a \in Addr |-> 0]
    /\ sinceScan = ScanPeriod
    /\ dialing = [d \in Sessions |-> None]
    /\ fails = [a \in Addr |-> 0]
    /\ revivedLate = {}

Get(d, a) ==
    /\ dialing[d] = None
    /\ a \in Up
    /\ TotalOf(Up) > 0
    /\ \E before \in SUBSET (Up \ {a}), rnd \in 0 .. TotalOf(Up) - 1 :
           PickedAfter(a, before, rnd)
    /\ dialing' = [dialing EXCEPT ![d] = a]
    /\ item' = [item EXCEPT ![a] = Taken(@, Weight[a])]
    /\ UNCHANGED <<age, sinceScan, fails, revivedLate>>

(* "all ip fail"                                                           *)
GetFail(d) ==
    /\ dialing[d] = None
    /\ TotalOf(Up) <= 0
    /\ UNCHANGED lbVars

UpdateSucc(d, a) ==
    /\ dialing[d] = a
    /\ dialing' = [dialing EXCEPT ![d] = None]
    /\ item' = [item EXCEPT ![a] = Succeeded(@, Weight[a])]
    /\ IF item[a].MarkFail
       THEN /\ revivedLate' = revivedLate \cup {a}
            /\ fails' = [fails EXCEPT ![a] = 0]
       ELSE UNCHANGED <<revivedLate, fails>>
    /\ UNCHANGED <<age, sinceScan>>

(* Bug: the early return for a kicked server is lost.                      *)
BugUpdateFail(d, a) ==
    /\ dialing[d] = a
    /\ dialing' = [dialing EXCEPT ![d] = None]
    /\ item' = [item EXCEPT ![a] = Failed(@, Weight[a])]
    /\ age' = [age EXCEPT ![a] = IF item'[a].MarkFail THEN 0 ELSE @]
    /\ fails' = [fails EXCEPT ![a] = CountError(@)]
    /\ UNCHANGED <<sinceScan, revivedLate>>

UpdateFail(d, a) ==
    /\ dialing[d] = a
    /\ dialing' = [dialing EXCEPT ![d] = None]
    /\ IF item[a].MarkFail
       THEN UNCHANGED <<item, age, fails>>
       ELSE /\ item' = [item EXCEPT ![a] = Failed(@, Weight[a])]
            /\ age' = [age EXCEPT ![a] = IF item'[a].MarkFail THEN 0 ELSE @]
            /\ fails' = [fails EXCEPT ![a] = CountError(@)]
    /\ UNCHANGED <<sinceScan, revivedLate>>

Expired(a) == item[a].MarkFail /\ age[a] > MaxFail

AutoScan ==
    /\ sinceScan = ScanPeriod
    /\ sinceScan' = 0
    /\ item' = [a \in Addr |-> IF Expired(a) THEN Revived(item[a], Weight[a])
                                             ELSE item[a]]
    /\ age' = [a \in Addr |-> IF Expired(a) THEN 0 ELSE age[a]]
    /\ fails' = [a \in Addr |-> IF Expired(a) THEN 0 ELSE fails[a]]
    /\ revivedLate' = {a \in revivedLate : ~Expired(a)}
    /\ UNCHANGED dialing

(* Time passes; a pass of autoScan is not delayed beyond its period.       *)
Tick ==
    /\ sinceScan < ScanPeriod
    /\ sinceScan' = sinceScan + 1
    /\ age' = [a \in Addr |-> IF item[a].MarkFail THEN age[a] + 1 ELSE age[a]]
    /\ UNCHANGED <<item, dialing, fails, revivedLate>>

LBNext ==
    \/ \E d \in Sessions : GetFail(d)
    \/ \E d \in Sessions, a \in Addr :
           Get(d, a) \/ UpdateSucc(d, a) \/ UpdateFail(d, a)
    \/ AutoScan
    \/ Tick

LBSpec == LBInit /\ [][LBNext]_lbVars

(* autoScan runs for ever and time passes; nothing is assumed of the dials. *)
LBFairSpec == LBSpec /\ WF_lbVars(Tick) /\ WF_lbVars(AutoScan)

-----------------------------------------------------------------------------
(* Get's decrement, Update's halving and cap and autoScan's Base/2+1 all   *)
(* keep a configured weight of at least 1 between 1 and that weight, so no *)
(* sequence of dials can take a server that is up out of the draw.         *)
WeightInRange ==
    \A a \in Addr : Weight[a] > 0 => item[a].Current \in 1 .. Weight[a]

(* A kicked server stays out for at most max_failtime and one period of    *)
(* autoScan, counted from the kick on: the late failure of a dial that was *)
(* in flight when it was kicked does not start its time again (the early   *)
(* return of Update).                                                      *)
OutageBounded ==
    [][\A a \in Addr : item'[a].MarkFail =>
           /\ age'[a] <= MaxFail + ScanPeriod
           /\ item[a].MarkFail => age[a] <= age'[a]]_lbVars

(* A server that no late success put back is out exactly when it has       *)
(* failed max_errcnt times since it was put in service, whatever dials     *)
(* overlap: no failure is lost and none is counted twice.                  *)
KickedExactly ==
    MaxErr > 0 => \A a \in Addr \ revivedLate :
                      item[a].MarkFail <=> fails[a] = MaxErr

(* README: a server is kicked after max_errcnt errors.  A late success     *)
(* puts a kicked server back without resetting Errtime.                    *)
KickNeedsMaxErr ==
    \A a \in Addr : item[a].MarkFail => fails[a] >= MaxErr

(* "The smallest weight is 1": Get has something to draw as long as a      *)
(* server is up.                                                           *)
DrawWhileUp == Up # {} => TotalOf(Up) > 0

(* A kicked server always comes back, although no dial reaches it.         *)
KickedReturns == \A a \in Addr : item[a].MarkFail ~> ~item[a].MarkFail
=============================================================================
