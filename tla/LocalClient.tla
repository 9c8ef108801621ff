----------------------------- MODULE LocalClient -----------------------------
(***************************************************************************)
(* wcf_local.go: handleProxy, one goroutine per connection of a browser,   *)
(* with the host hook of Start, on top of the load balancer (LoadBalance)  *)
(* and next to the host rules that a reload replaces and the smart rules   *)
(* that probes write.  A session's number is used again when it is over.   *)
(***************************************************************************)
EXTENDS LoadBalance

CONSTANTS
    Kinds,       \* the local listeners: socks, http, forward
    Hosts,       \* the target names
    SmartProxy,  \* smart_proxy
    Enable,      \* loadbalance.enable
    MaxReloads   \* bound on the reloads of the host file

ASSUME KindAssumption == Kinds \subseteq {"socks", "http", "forward"}
ASSUME FlagAssumption == SmartProxy \in BOOLEAN /\ Enable \in BOOLEAN /\ MaxReloads \in Nat

VARIABLES
    rule,        \* rule[h]: the rule of h in the host file, or None
    reloads,     \* reloads so far
    smart,       \* smart[n]: the rule a probe found for n, or None
    checks,      \* names the smart rule's queue holds
    pc,          \* pc[s]: where handleProxy is
    kind, host,  \* the listener of s and its target
    route,       \* route[s]: the rule s follows
    smartRule,   \* smartRule[s]: it is the smart rule's
    seen,        \* history: the file's rules for host[s] while s was deciding
    crashed      \* handleProxy panicked, and the process with it

ruleVars == <<rule, reloads, smart, checks>>
sessVars == <<pc, kind, host, route, smartRule, seen>>
vars == <<item, age, sinceScan, dialing, fails, revivedLate, rule, reloads, smart,
          checks, pc, kind, host, route, smartRule, seen, crashed>>

Rules == {"block", "direct", "proxy"}
ASSUME NoRuleAssumption == None \notin Rules

Names == Hosts \cup Addr

TypeOK ==
    /\ LBTypeOK
    /\ rule \in [Hosts -> Rules \cup {None}]
    /\ reloads \in 0 .. MaxReloads
    /\ smart \in [Names -> {"direct", "proxy", None}]
    /\ checks \subseteq Names
    /\ pc \in [Sessions -> {"idle", "hook", "rule", "smart", "get", "dial", "wrap", "pipe"}]
    /\ kind \in [Sessions -> Kinds] /\ host \in [Sessions -> Hosts]
    /\ route \in [Sessions -> Rules \cup {None}]
    /\ smartRule \in [Sessions -> BOOLEAN]
    /\ seen \in [Sessions -> SUBSET (Rules \cup {None})]
    /\ crashed \in BOOLEAN

Init ==
    /\ LBInit
    /\ rule \in [Hosts -> Rules \cup {None}] /\ reloads = 0
    /\ smart = [n \in Names |-> None] /\ checks = {}
    /\ pc = [s \in Sessions |-> "idle"]
    /\ kind \in [Sessions -> Kinds] /\ host \in [Sessions -> Hosts]
    /\ route = [s \in Sessions |-> None]
    /\ smartRule = [s \in Sessions |-> FALSE]
    /\ seen = [s \in Sessions |-> {}]
    /\ crashed = FALSE

-----------------------------------------------------------------------------
Goto(s, from, to) == ~crashed /\ pc[s] = from /\ pc' = [pc EXCEPT ![s] = to]

Deciding(s) == pc[s] \in {"hook", "rule"}

(* A listener accepts a connection.  Only the socks listener calls the     *)
(* hook of AddHostHook.                                                    *)
Accept(s) ==
    /\ \E k \in Kinds, h \in Hosts :
           /\ Goto(s, "idle", IF k = "socks" THEN "hook" ELSE "rule")
           /\ kind' = [kind EXCEPT ![s] = k]
           /\ host' = [host EXCEPT ![s] = h]
           /\ seen' = [seen EXCEPT ![s] = {rule[h]}]
    /\ route' = [route EXCEPT ![s] = None]
    /\ smartRule' = [smartRule EXCEPT ![s] = FALSE]
    /\ UNCHANGED <<lbVars, ruleVars, crashed>>

(* The hook of Start                                                       *)
HostHook(s) ==
    /\ Goto(s, "hook", IF rule[host[s]] = "block" THEN "idle" ELSE "rule")
    /\ UNCHANGED <<lbVars, ruleVars, kind, host, route, smartRule, seen, crashed>>

(* A connection to be forwarded goes through a server whatever the rule.   *)
Follow(s, from, r, bySmart) ==
    LET followed == IF kind[s] = "forward" THEN "proxy" ELSE r
    IN  /\ Goto(s, from, IF followed = "proxy" THEN "get" ELSE "dial")
        /\ route' = [route EXCEPT ![s] = followed]
        /\ smartRule' = [smartRule EXCEPT ![s] = bySmart]
        /\ UNCHANGED <<kind, host, seen>>

(* Bug: the smart rule is asked before the file's.                         *)
BugHostRule(s) ==
    /\ \/ SmartProxy /\ smart[host[s]] # None /\ Follow(s, "rule", smart[host[s]], TRUE)
       \/ rule[host[s]] # None /\ Follow(s, "rule", rule[host[s]], FALSE)
       \/ /\ rule[host[s]] = None /\ SmartProxy
          /\ Goto(s, "rule", "smart") /\ UNCHANGED <<kind, host, route, smartRule, seen>>
       \/ rule[host[s]] = None /\ ~SmartProxy /\ Follow(s, "rule", "proxy", FALSE)
    /\ UNCHANGED <<lbVars, ruleVars, crashed>>

(* CheckAndGetRuleOptional, under the read lock; no rule means proxy.      *)
HostRule(s) ==
    /\ \/ rule[host[s]] # None /\ Follow(s, "rule", rule[host[s]], FALSE)
       \/ /\ rule[host[s]] = None /\ SmartProxy
          /\ Goto(s, "rule", "smart") /\ UNCHANGED <<kind, host, route, smartRule, seen>>
       \/ rule[host[s]] = None /\ ~SmartProxy /\ Follow(s, "rule", "proxy", FALSE)
    /\ UNCHANGED <<lbVars, ruleVars, crashed>>

(* AddToCheck: a full queue drops the name.                                *)
AddToCheck(n) == checks' \in {checks, checks \cup {n}}

(* SmartRule.CheckAndGetRule; a host it does not know is to be probed.     *)
SmartHost(s) ==
    /\ \/ /\ smart[host[s]] # None /\ Follow(s, "smart", smart[host[s]], TRUE)
          /\ UNCHANGED checks
       \/ /\ smart[host[s]] = None /\ Follow(s, "smart", "proxy", FALSE)
          /\ AddToCheck(host[s])
    /\ UNCHANGED <<lbVars, rule, reloads, smart, crashed>>

(* Bug: a session waits for a server that is up.                           *)
BugGetFails(s) == FALSE /\ UNCHANGED vars

GetServer(s) ==
    /\ Goto(s, "get", "dial")
    /\ \E a \in Addr : Get(s, a)
    /\ UNCHANGED <<ruleVars, kind, host, route, smartRule, seen, crashed>>

(* Get failed: extra is nil, and its type is asserted before err is tested. *)
GetFails(s) ==
    /\ ~crashed /\ pc[s] = "get"
    /\ GetFail(s)
    /\ crashed' = TRUE
    /\ UNCHANGED <<ruleVars, sessVars>>

(* With the balancer off no Update follows the Get.                        *)
NoUpdate(s) == /\ dialing' = [dialing EXCEPT ![s] = None]
               /\ UNCHANGED <<item, age, sinceScan, fails, revivedLate>>

Dialed(s) ==
    /\ Goto(s, "dial", IF route[s] = "proxy" THEN "wrap" ELSE "pipe")
    /\ IF route[s] # "proxy" THEN UNCHANGED lbVars
       ELSE IF Enable THEN UpdateSucc(s, dialing[s]) ELSE NoUpdate(s)
    /\ UNCHANGED <<ruleVars, kind, host, route, smartRule, seen, crashed>>

(* Bug: the error returns before Update.                                   *)
BugDialFails(s) ==
    /\ Goto(s, "dial", "idle")
    /\ IF smartRule[s] THEN AddToCheck(IF route[s] = "proxy" THEN dialing[s] ELSE host[s])
                       ELSE UNCHANGED checks
    /\ UNCHANGED <<lbVars, rule, reloads, smart, kind, host, route, smartRule, seen, crashed>>

(* After the dial that a smart rule led to, the address that was dialled   *)
(* is to be probed again: the server's, if the rule was proxy.             *)
DialFails(s) ==
    /\ Goto(s, "dial", "idle")
    /\ IF route[s] # "proxy" THEN UNCHANGED lbVars
       ELSE IF Enable THEN UpdateFail(s, dialing[s]) ELSE NoUpdate(s)
    /\ IF smartRule[s] THEN AddToCheck(IF route[s] = "proxy" THEN dialing[s] ELSE host[s])
                       ELSE UNCHANGED checks
    /\ UNCHANGED <<rule, reloads, smart, kind, host, route, smartRule, seen, crashed>>

Wrapped(s) ==
    /\ Goto(s, "wrap", "pipe")
    /\ UNCHANGED <<lbVars, ruleVars, kind, host, route, smartRule, seen, crashed>>

(* Bug: a failed handshake is reported to the balancer too.                *)
BugWrapFails(s) ==
    /\ Goto(s, "wrap", "idle")
    /\ \E a \in Addr : item' = [item EXCEPT ![a] = Failed(@, Weight[a])]
    /\ UNCHANGED <<age, sinceScan, dialing, fails, revivedLate, ruleVars, kind, host,
                   route, smartRule, seen, crashed>>

(* mix_delegate.Wrap or relay.WrapConnection                               *)
WrapFails(s) ==
    /\ Goto(s, "wrap", "idle")
    /\ UNCHANGED <<lbVars, ruleVars, kind, host, route, smartRule, seen, crashed>>

(* Pipe returns.                                                           *)
Piped(s) ==
    /\ Goto(s, "pipe", "idle")
    /\ UNCHANGED <<lbVars, ruleVars, kind, host, route, smartRule, seen, crashed>>

HandleProxy(s) ==
    \/ HostHook(s) \/ HostRule(s) \/ SmartHost(s) \/ GetServer(s) \/ GetFails(s)
    \/ Dialed(s) \/ DialFails(s) \/ Wrapped(s) \/ WrapFails(s)

-----------------------------------------------------------------------------
(* The loader puts other rules in use.                                     *)
Reload ==
    /\ ~crashed /\ reloads < MaxReloads /\ reloads' = reloads + 1
    /\ rule' \in [Hosts -> Rules \cup {None}]
    /\ seen' = [s \in Sessions |-> IF Deciding(s) THEN seen[s] \cup {rule'[host[s]]}
                                                  ELSE seen[s]]
    /\ UNCHANGED <<lbVars, smart, checks, pc, kind, host, route, smartRule, crashed>>

(* A probe of SmartRule answers.                                           *)
Probed ==
    /\ ~crashed
    /\ \E n \in checks, r \in {"direct", "proxy"} :
           smart' = [smart EXCEPT ![n] = r] /\ checks' = checks \ {n}
    /\ UNCHANGED <<lbVars, rule, reloads, sessVars, crashed>>

(* The balancer's own goroutine and clock                                  *)
Balance == /\ ~crashed
           /\ AutoScan \/ Tick
           /\ UNCHANGED <<ruleVars, sessVars, crashed>>

Next == \/ \E s \in Sessions : Accept(s) \/ HandleProxy(s) \/ Piped(s)
        \/ Reload \/ Probed \/ Balance

Spec == Init /\ [][Next]_vars

(* Every goroutine runs; a dial and the relay's handshake have timeouts.   *)
FairSpec == Spec /\ \A s \in Sessions : WF_vars(HandleProxy(s))

-----------------------------------------------------------------------------
(* A session goes round the proxy only if the rule of its target, at some  *)
(* moment while it was looked up, was not proxy: the file's direct (or     *)
(* block), or none and the smart rule's direct.  It takes the proxy only   *)
(* if that was proxy or none, or it is a forward.  Reloads and probes in   *)
(* between, and the rules of other hosts, change nothing.                  *)
RouteJustified ==
    \A s \in Sessions :
        /\ route[s] \in {"direct", "block"} =>
               /\ kind[s] # "forward"
               /\ IF smartRule[s] THEN None \in seen[s] ELSE route[s] \in seen[s]
        /\ route[s] = "proxy" /\ kind[s] # "forward" =>
               seen[s] \cap {"proxy", None} # {}

(* The balancer waits for the answer of a dial only while that dial is     *)
(* under way: no Get is left without its Update when a session ends.       *)
ServersAnswered ==
    \A s \in Sessions :
        dialing[s] # None <=> pc[s] = "dial" /\ route[s] = "proxy"

(* To the balancer the sessions are its dialers, each with a Get and one   *)
(* Update in turn, whatever a session does before and after.               *)
IsBalancer == LBSpec

(* Every connection that was accepted is refused, fails or is piped.       *)
Decided ==
    \A s \in Sessions : pc[s] # "idle" ~> pc[s] \in {"idle", "pipe"} \/ crashed

(* README: block forbids the connection.  handleProxy dials what is not    *)
(* proxy directly, and the hook that refuses is not called by every        *)
(* listener, nor again after a reload.                                     *)
BlockedIsRefused ==
    \A s \in Sessions : route[s] = "block" => pc[s] \notin {"dial", "pipe"}

(* handleProxy means to log that no server is up and to give the           *)
(* connection up.                                                          *)
NoServerIsReported == ~crashed
=============================================================================
