------------------------------ MODULE SmartRule ------------------------------
(***************************************************************************)
(* check/smart_host.go: hosts without a rule of their own are probed with  *)
(* a direct dial, and the outcome becomes their rule.  One goroutine       *)
(* (startCheck) takes requests off checkQueue and starts a probe goroutine *)
(* for each host that needs one, as long as the limiter has a slot.        *)
(***************************************************************************)
EXTENDS Integers, Sequences, FiniteSets

CONSTANTS
    Names,       \* the host names, ports aside
    Probes,      \* the probe goroutines that can be alive at once
    None,
    QueueCap,    \* capacity of checkQueue (300)
    Limit        \* probes that may dial at once (200)

ASSUME BoundAssumption == QueueCap \in Nat \ {0} /\ Limit \in Nat
ASSUME NoneAssumption == None \notin Names

VARIABLES
    domain,      \* domain[n]: the rule of n, or None
    checkQueue,  \* the CheckContexts waiting for startCheck
    checkMap,    \* the names startCheck takes to be in progress
    cnt,         \* free slots of limit
    check,       \* the request startCheck works on
    pc,          \* where startCheck is
    result,      \* what TryAcqure answered
    probe,       \* probe[p]: the host p dials, or None
    at,          \* at[p]: where p is
    stat,        \* stat[p]: the rule its dial speaks for
    crashed      \* the runtime met an unlocked map read during a write

chkVars == <<check, pc, result>>
vars == <<domain, checkQueue, checkMap, cnt, check, pc, result, probe, at, stat,
          crashed>>

Rules == {"direct", "proxy"}
Request == [name: Names, force: BOOLEAN]

TypeOK ==
    /\ domain \in [Names -> Rules \cup {None}]
    /\ checkQueue \in Seq(Request) /\ Len(checkQueue) <= QueueCap
    /\ checkMap \in SUBSET Names
    /\ cnt \in 0 .. Limit
    /\ check \in Request \cup {None}
    /\ pc \in {"recv", "domain", "progress", "acquire", "store"}
    /\ result \in BOOLEAN
    /\ probe \in [Probes -> Names \cup {None}]
    /\ at \in [Probes -> {"idle", "dial", "release", "add", "write", "clear"}]
    /\ stat \in [Probes -> Rules \cup {None}]
    /\ crashed \in BOOLEAN

Init ==
    /\ domain = [n \in Names |-> None]
    /\ checkQueue = <<>> /\ checkMap = {}
    /\ cnt = Limit
    /\ check = None /\ pc = "recv" /\ result = FALSE
    /\ probe = [p \in Probes |-> None]
    /\ at = [p \in Probes |-> "idle"]
    /\ stat = [p \in Probes |-> None]
    /\ crashed = FALSE

-----------------------------------------------------------------------------
(* A handleProxy that found no rule asks for a check; one whose dial       *)
(* failed after a learnt rule forces one, of the address it dialled, which *)
(* may be a server's and have no rule.  A full queue drops it.             *)
AddToCheck(n, force) ==
    /\ ~crashed
    /\ checkQueue' = IF Len(checkQueue) < QueueCap
                     THEN Append(checkQueue, [name |-> n, force |-> force])
                     ELSE checkQueue
    /\ UNCHANGED <<domain, checkMap, cnt, chkVars, probe, at, stat, crashed>>

-----------------------------------------------------------------------------
(* startCheck                                                              *)

Goto(from, to) == ~crashed /\ pc = from /\ pc' = to

Recv ==
    /\ checkQueue # <<>>
    /\ Goto("recv", "domain")
    /\ check' = Head(checkQueue)
    /\ checkQueue' = Tail(checkQueue)
    /\ UNCHANGED <<domain, checkMap, cnt, result, probe, at, stat, crashed>>

Writing(p) == at[p] = "write"

(* domain is read without mu.                                              *)
ReadFails ==
    /\ ~crashed /\ pc = "domain"
    /\ \E p \in Probes : Writing(p)
    /\ crashed' = TRUE
    /\ UNCHANGED <<domain, checkQueue, checkMap, cnt, chkVars, probe, at, stat>>

CheckDomain ==
    /\ Goto("domain", IF domain[check.name] # None /\ ~check.force
                      THEN "recv" ELSE "progress")
    /\ UNCHANGED <<domain, checkQueue, checkMap, cnt, check, result, probe, at, stat, crashed>>

(* Bug: the host is not looked up in checkMap.                             *)
BugCheckProgress ==
    /\ Goto("progress", "acquire")
    /\ UNCHANGED <<domain, checkQueue, checkMap, cnt, check, result, probe, at, stat, crashed>>

CheckProgress ==
    /\ Goto("progress", IF check.name \in checkMap THEN "recv" ELSE "acquire")
    /\ UNCHANGED <<domain, checkQueue, checkMap, cnt, check, result, probe, at, stat, crashed>>

TryAcqure ==
    /\ Goto("acquire", "store")
    /\ result' = (cnt > 0)
    /\ cnt' = IF cnt > 0 THEN cnt - 1 ELSE cnt
    /\ UNCHANGED <<domain, checkQueue, checkMap, check, probe, at, stat, crashed>>

(* checkMap.Store, and the probe when there was a slot.                    *)
Store ==
    /\ Goto("store", "recv")
    /\ checkMap' = checkMap \cup {check.name}
    /\ IF result
       THEN \E p \in Probes :
                /\ at[p] = "idle"
                /\ at' = [at EXCEPT ![p] = "dial"]
                /\ probe' = [probe EXCEPT ![p] = check.name]
       ELSE UNCHANGED <<probe, at>>
    /\ UNCHANGED <<domain, checkQueue, cnt, check, result, stat, crashed>>

StartCheck == Recv \/ CheckDomain \/ CheckProgress \/ TryAcqure \/ Store

-----------------------------------------------------------------------------
(* The goroutine of a probe                                                *)

Move(p, from, to) == ~crashed /\ at[p] = from /\ at' = [at EXCEPT ![p] = to]

(* net.DialTimeout answers within a second; conn.Close                     *)
Dialed(p) ==
    /\ Move(p, "dial", "release")
    /\ \E r \in Rules : stat' = [stat EXCEPT ![p] = r]
    /\ UNCHANGED <<domain, checkQueue, checkMap, cnt, chkVars, probe, crashed>>

(* Bug: the slot is released only after a dial that succeeded.             *)
BugRelease(p) ==
    /\ Move(p, "release", "add")
    /\ cnt' = IF cnt < Limit /\ stat[p] = "direct" THEN cnt + 1 ELSE cnt
    /\ UNCHANGED <<domain, checkQueue, checkMap, chkVars, probe, stat, crashed>>

Release(p) ==
    /\ Move(p, "release", "add")
    /\ cnt' = IF cnt < Limit THEN cnt + 1 ELSE cnt
    /\ UNCHANGED <<domain, checkQueue, checkMap, chkVars, probe, stat, crashed>>

(* AddRule: the write of domain, under mu, begins and ends.                *)
AddRule(p) ==
    /\ \A q \in Probes : ~Writing(q)
    /\ Move(p, "add", "write")
    /\ UNCHANGED <<domain, checkQueue, checkMap, cnt, chkVars, probe, stat, crashed>>

(* Bug: only a dial that succeeded leaves a rule.                          *)
BugAddedRule(p) ==
    /\ Move(p, "write", "clear")
    /\ domain' = [domain EXCEPT ![probe[p]] = IF stat[p] = "direct" THEN stat[p] ELSE @]
    /\ UNCHANGED <<checkQueue, checkMap, cnt, chkVars, probe, stat, crashed>>

AddedRule(p) ==
    /\ Move(p, "write", "clear")
    /\ domain' = [domain EXCEPT ![probe[p]] = stat[p]]
    /\ UNCHANGED <<checkQueue, checkMap, cnt, chkVars, probe, stat, crashed>>

(* Bug: the goroutine returns without checkMap.Delete.                     *)
BugDelete(p) ==
    /\ Move(p, "clear", "idle")
    /\ probe' = [probe EXCEPT ![p] = None]
    /\ stat' = [stat EXCEPT ![p] = None]
    /\ UNCHANGED <<domain, checkQueue, checkMap, cnt, chkVars, crashed>>

Delete(p) ==
    /\ Move(p, "clear", "idle")
    /\ checkMap' = checkMap \ {probe[p]}
    /\ probe' = [probe EXCEPT ![p] = None]
    /\ stat' = [stat EXCEPT ![p] = None]
    /\ UNCHANGED <<domain, checkQueue, cnt, chkVars, crashed>>

ProbeStep(p) == Dialed(p) \/ Release(p) \/ AddRule(p) \/ AddedRule(p) \/ Delete(p)

Next ==
    \/ \E n \in Names, force \in BOOLEAN : AddToCheck(n, force)
    \/ StartCheck \/ ReadFails
    \/ \E p \in Probes : ProbeStep(p)

Spec == Init /\ [][Next]_vars

(* The scheduler runs startCheck and every probe; a dial has a timeout;    *)
(* sync.Mutex does not starve a goroutine that waits for mu.               *)
FairSpec ==
    /\ Spec /\ WF_vars(StartCheck)
    /\ \A p \in Probes : WF_vars(ProbeStep(p)) /\ SF_vars(AddRule(p))

-----------------------------------------------------------------------------
InFlight(n) == {p \in Probes : probe[p] = n}

(* Two probes of the same host never overlap, so a late outcome cannot     *)
(* overwrite the outcome of a probe that began after it.                   *)
OneProbePerHost == \A n \in Names : Cardinality(InFlight(n)) <= 1

(* A slot is taken for as long as a probe dials, whatever the dial         *)
(* answers: the free slots and those in use are always Limit.              *)
SlotsConserved ==
    cnt + Cardinality({p \in Probes : at[p] \in {"dial", "release"}})
        + (IF pc = "store" /\ result THEN 1 ELSE 0) = Limit

(* A host whose probe never began although checkMap has it.                *)
Forgotten(n) == n \in checkMap /\ InFlight(n) = {}

(* A host a handler asked about gets a rule, unless its check was dropped  *)
(* for want of a slot.                                                     *)
AskedIsAnswered ==
    \A n \in Names :
        (\E i \in 1 .. Len(checkQueue) : checkQueue[i].name = n)
            ~> (domain[n] # None \/ Forgotten(n) \/ crashed)

(* Every probe that starts ends, and lets its host be probed again.        *)
ProbeClears ==
    \A n \in Names : InFlight(n) # {} ~> (n \notin checkMap \/ crashed)

(* The comment on the look-up in checkMap: a host in it is in progress.    *)
InProgress == \A n \in checkMap : InFlight(n) # {}
=============================================================================
