------------------------------ MODULE HostRule ------------------------------
(***************************************************************************)
(* check/host.go: loading of a host rule file (onLoad, sortAndMerge) and   *)
(* the lookup of a host in it (CheckAndGetRuleOptional,                    *)
(* checkIPInRangeList).  The file is loaded once, then hosts are looked    *)
(* up; a lookup holds the read lock from its first step to its last, so    *)
(* that a reload never comes between them.                                 *)
(***************************************************************************)
EXTENDS Integers, Sequences

CONSTANTS
    Bits,         \* width of an address (32)
    Hosts,        \* the hosts looked up and the keys of the rule lines
    Lines,        \* the lines a rule file may hold
    MaxLines,     \* bound on their number
    Lower,        \* Lower[l]: the label l in lower case
    None

Ops == {"block", "direct", "proxy"}

(* Size[n] is the number of addresses n free bits make, 2^n.               *)
Size[n \in 0 .. Bits] == IF n = 0 THEN 1 ELSE 2 * Size[n - 1]

Addr == 0 .. Size[Bits] - 1
CIDRRange == [Start: Addr, End: Addr]
Label == DOMAIN Lower
Host == [kind: {"name", "v4", "v6"}, name: Seq(Label), ip: Addr]
Line == [kind: {"domain", "v4", "v6"}, host: Host, prefix: 0 .. Bits,
         text: Ops \cup {"other"}]

(* Lines are put in lower case before anything else.                       *)
Lowered(h) == [h EXCEPT !.name = [k \in DOMAIN @ |-> Lower[@[k]]]]

ASSUME BoundAssumption == Bits \in Nat /\ MaxLines \in Nat
ASSUME InputAssumption ==
    /\ \A h \in Hosts : /\ h \in Host /\ (h.kind = "name" => h.ip = 0)
                        /\ Lowered(h) \in Hosts
                        /\ Len(h.name) > 1 => [h EXCEPT !.name = Tail(@)] \in Hosts
    /\ \A l \in Lines : l \in Line /\ l.host \in Hosts
ASSUME NoneAssumption == None \notin Ops /\ None \notin Hosts

VARIABLES
    file,         \* the lines of the rule file
    domain,       \* domain[h]: the rule of the key h, or None
    cidr,         \* the v6 blocks, each with its rule
    routeV4,      \* routeV4[o]: the v4 ranges of rule o
    pc,           \* where onLoad or the lookup is
    i,            \* the index of the loop it is in
    todo,         \* the rules whose ranges are still to be merged or searched
    op,           \* the rule of the ranges it is at
    lst,          \* the sorted ranges sortAndMerge works on
    host, safe,   \* the arguments of the lookup
    suffix,       \* tmpaddr
    ip,           \* the address host is or resolves to, or None
    start, end,   \* the interval of the binary search
    answer        \* the rule found, or None

rules == <<file, domain, cidr, routeV4>>
search == <<start, end>>
vars == <<file, domain, cidr, routeV4, pc, i, todo, op, lst, host, safe, suffix, ip,
          start, end, answer>>

Init ==
    /\ file \in UNION {[1 .. n -> Lines] : n \in 0 .. MaxLines}
    /\ domain = [h \in Hosts |-> None] /\ cidr = {}
    /\ routeV4 = [o \in Ops |-> <<>>]
    /\ pc = "parse" /\ i = 1 /\ todo = {} /\ op = None /\ lst = <<>>
    /\ host = None /\ safe = FALSE /\ suffix = <<>> /\ ip = None
    /\ start = 0 /\ end = 0 /\ answer = None

-----------------------------------------------------------------------------
(* onLoad                                                                  *)

(* A rule the switch does not know is 0, RULE_BLOCK.                       *)
RuleOf(line) == IF line.text \in Ops THEN line.text ELSE "block"

(* ResolveIPRange, and the masked network of net.ParseCIDR                 *)
ResolveIPRange(line) ==
    LET size == Size[Bits - line.prefix]
        min  == (line.host.ip \div size) * size
    IN  [Start |-> min, End |-> min + size - 1]

Parse ==
    /\ pc = "parse" /\ i <= Len(file)
    /\ LET line == file[i]
           o    == RuleOf(line)
       IN  /\ domain'  = IF line.kind = "domain"
                         THEN [domain EXCEPT ![Lowered(line.host)] = o] ELSE domain
           /\ cidr'    = IF line.kind = "v6"
                         THEN cidr \cup {[net |-> ResolveIPRange(line), op |-> o]} ELSE cidr
           /\ routeV4' = IF line.kind = "v4"
                         THEN [routeV4 EXCEPT ![o] = Append(@, ResolveIPRange(line))]
                         ELSE routeV4
    /\ i' = i + 1
    /\ UNCHANGED <<file, pc, todo, op, lst, host, safe, suffix, ip, search, answer>>

Parsed ==
    /\ pc = "parse" /\ i > Len(file)
    /\ pc' = "pick" /\ todo' = Ops
    /\ UNCHANGED <<rules, i, op, lst, host, safe, suffix, ip, search, answer>>

(* sort.Sort with RouteList.Less                                           *)
Less(r, s) == r.Start < s.Start \/ (r.Start = s.Start /\ r.End < s.End)
Sorts(s, t) ==
    /\ \A k \in 1 .. Len(t) - 1 : ~Less(t[k + 1], t[k])
    /\ \E f \in [DOMAIN t -> DOMAIN s] :
           /\ \A k \in DOMAIN t : t[k] = s[f[k]]
           /\ \A k, l \in DOMAIN t : k # l => f[k] # f[l]

(* Nothing to merge, or the first range                                    *)
First(s) == IF Len(s) <= 1 THEN s ELSE <<s[1]>>

(* The first steps of sortAndMerge for the next rule of the map            *)
Sort ==
    /\ pc = "pick"
    /\ \E o \in todo :
           /\ op' = o /\ todo' = todo \ {o}
           /\ \E t \in [1 .. Len(routeV4[o]) -> {routeV4[o][k] : k \in DOMAIN routeV4[o]}] :
                  /\ Sorts(routeV4[o], t)
                  /\ lst' = t
                  /\ routeV4' = [routeV4 EXCEPT ![o] = First(t)]
    /\ pc' = "merge" /\ i' = 2
    /\ UNCHANGED <<file, domain, cidr, host, safe, suffix, ip, search, answer>>

(* Bug: < for <=.                                                          *)
BugMerged(tmp, r) ==
    LET back == tmp[Len(tmp)]
    IN  IF r.Start < back.End
        THEN [tmp EXCEPT ![Len(tmp)].End = IF r.End > @ THEN r.End ELSE @]
        ELSE Append(tmp, r)

(* One turn of sortAndMerge's loop: tmp is the result so far.              *)
Merged(tmp, r) ==
    LET back == tmp[Len(tmp)]
    IN  IF r.Start <= back.End
        THEN [tmp EXCEPT ![Len(tmp)].End = IF r.End > @ THEN r.End ELSE @]
        ELSE Append(tmp, r)

Merge ==
    /\ pc = "merge"
    /\ IF i <= Len(lst)
       THEN /\ routeV4' = [routeV4 EXCEPT ![op] = Merged(@, lst[i])]
            /\ i' = i + 1 /\ pc' = pc
       ELSE /\ pc' = "pick"
            /\ UNCHANGED <<routeV4, i>>
    /\ UNCHANGED <<file, domain, cidr, todo, op, lst, host, safe, suffix, ip, search, answer>>

(* onLoadSucc                                                              *)
Loaded ==
    /\ pc = "pick" /\ todo = {}
    /\ pc' = "ready" /\ lst' = <<>> /\ op' = None /\ i' = 0
    /\ UNCHANGED <<rules, todo, host, safe, suffix, ip, search, answer>>

-----------------------------------------------------------------------------
(* CheckAndGetRuleOptional                                                 *)

(* safe makes no difference to an address.                                 *)
Ask(h, s) ==
    /\ pc = "ready" /\ (s => h.kind = "name")
    /\ host' = h /\ safe' = s
    /\ answer' = None /\ ip' = IF h.kind = "name" THEN None ELSE h
    /\ suffix' = h.name
    /\ pc' = IF h.kind = "name" THEN "name" ELSE "key"
    /\ UNCHANGED <<rules, i, todo, op, lst, search>>

Find(o) == answer' = o /\ pc' = "ready"

(* Bug: only the whole name is looked up.                                  *)
BugParents == FALSE

(* The rest of the name after its first dot is a name too.                 *)
Parents == Len(suffix) > 1

(* The name, then each of its parent domains                               *)
LookupName ==
    /\ pc = "name"
    /\ LET key == [host EXCEPT !.name = suffix]
       IN  \/ /\ domain[key] # None
              /\ Find(domain[key]) /\ suffix' = suffix
           \/ /\ domain[key] = None /\ Parents
              /\ suffix' = Tail(suffix) /\ UNCHANGED <<pc, answer>>
           \/ /\ domain[key] = None /\ ~Parents
              /\ pc' = IF safe THEN "resolve" ELSE "ready"
              /\ UNCHANGED <<suffix, answer>>
    /\ UNCHANGED <<rules, i, todo, op, lst, host, safe, ip, search>>

(* net.ResolveIPAddr: any address, or a failure                            *)
Resolve ==
    /\ pc = "resolve"
    /\ \/ pc' = "ready" /\ UNCHANGED ip
       \/ /\ \E h \in Hosts : h.kind # "name" /\ ip' = h
          /\ pc' = "key"
    /\ UNCHANGED <<rules, i, todo, op, lst, host, safe, suffix, search, answer>>

(* The host as it was asked for is a key, or its address is in a block.    *)
LookupKey ==
    /\ pc = "key"
    /\ IF domain[host] # None THEN Find(domain[host]) /\ UNCHANGED todo
       ELSE /\ todo' = Ops
            /\ pc' = IF ip.kind = "v4" THEN "route" ELSE "cidr"
            /\ UNCHANGED answer
    /\ UNCHANGED <<rules, i, op, lst, host, safe, suffix, ip, search>>

LookupV6 ==
    /\ pc = "cidr"
    /\ LET hit == {c \in cidr : c.net.Start <= ip.ip /\ ip.ip <= c.net.End}
       IN  IF hit = {} THEN pc' = "ready" /\ UNCHANGED answer
                       ELSE \E c \in hit : Find(c.op)
    /\ UNCHANGED <<rules, i, todo, op, lst, host, safe, suffix, ip, search>>

(* The next rule, in the order the runtime walks the map                   *)
NextRoute ==
    /\ pc = "route"
    /\ IF todo = {} THEN pc' = "ready" /\ UNCHANGED <<todo, op, start, end>>
       ELSE \E o \in todo :
                /\ op' = o /\ todo' = todo \ {o}
                /\ start' = 0 /\ end' = Len(routeV4[o]) - 1
                /\ pc' = "search"
    /\ UNCHANGED <<rules, i, lst, host, safe, suffix, ip, answer>>

(* Bug: the interval is halved towards a middle it keeps.                  *)
BugHalve(list, mid) ==
    IF ip.ip > list[mid + 1].Start THEN start' = mid /\ end' = end
    ELSE ip.ip < list[mid + 1].End /\ end' = mid - 1 /\ start' = start

(* Bug: the upper half is taken to the left of the middle.                 *)
BugHalveSkips(list, mid) ==
    IF ip.ip > list[mid + 1].Start THEN start' = mid + 2 /\ end' = end
    ELSE ip.ip < list[mid + 1].End /\ end' = mid - 1 /\ start' = start

Halve(list, mid) ==
    IF ip.ip > list[mid + 1].Start THEN start' = mid + 1 /\ end' = end
    ELSE ip.ip < list[mid + 1].End /\ end' = mid - 1 /\ start' = start

(* One turn of checkIPInRangeList's loop                                   *)
Search ==
    /\ pc = "search"
    /\ LET list == routeV4[op]
           mid  == (start + end) \div 2
       IN  IF start > end THEN pc' = "route" /\ UNCHANGED <<search, answer>>
           ELSE IF list[mid + 1].Start <= ip.ip /\ ip.ip <= list[mid + 1].End
                THEN Find(op) /\ UNCHANGED search
                ELSE Halve(list, mid) /\ UNCHANGED <<pc, answer>>
    /\ UNCHANGED <<rules, i, todo, op, lst, host, safe, suffix, ip>>

Lookup == LookupName \/ Resolve \/ LookupKey \/ LookupV6 \/ NextRoute \/ Search

Next ==
    \/ Parse \/ Parsed \/ Sort \/ Merge \/ Loaded
    \/ \E h \in Hosts, s \in BOOLEAN : Ask(h, s)
    \/ Lookup

Spec == Init /\ [][Next]_vars

(* A lookup runs until it returns; a resolver answers or times out.        *)
FairSpec == Spec /\ WF_vars(Lookup)

-----------------------------------------------------------------------------
TypeOK ==
    /\ file \in Seq(Lines) /\ Len(file) <= MaxLines
    /\ domain \in [Hosts -> Ops \cup {None}]
    /\ \A c \in cidr : c.net \in CIDRRange /\ c.op \in Ops
    /\ routeV4 \in [Ops -> Seq(CIDRRange)] /\ lst \in Seq(CIDRRange)
    /\ pc \in {"parse", "pick", "merge", "ready", "name", "resolve", "key", "cidr",
               "route", "search"}
    /\ todo \subseteq Ops /\ op \in Ops \cup {None}
    /\ i \in 0 .. MaxLines + 2 /\ safe \in BOOLEAN
    /\ host \in Hosts \cup {None} /\ ip \in Hosts \cup {None}
    /\ start \in 0 .. MaxLines /\ end \in -1 .. MaxLines
    /\ answer \in Ops \cup {None}

OnLoad == pc \in {"parse", "pick", "merge"}

Covers(r, a) == r.Start <= a /\ a <= r.End

(* The v4 lines of rule o that hold the address a                          *)
V4Lines(o, a) == {k \in DOMAIN file : /\ file[k].kind = "v4" /\ RuleOf(file[k]) = o
                                      /\ LET size == Size[Bits - file[k].prefix]
                                         IN  a \div size = file[k].host.ip \div size}

(* Once loaded, the ranges of each rule are disjoint, in order, and cover  *)
(* exactly the addresses of the rule's lines.                              *)
RoutesExact ==
    ~OnLoad => \A o \in Ops :
        /\ \A k \in 1 .. Len(routeV4[o]) - 1 : routeV4[o][k].End < routeV4[o][k + 1].Start
        /\ \A a \in Addr : (\E k \in DOMAIN routeV4[o] : Covers(routeV4[o][k], a))
                               <=> V4Lines(o, a) # {}

(* The binary search gives a rule up only when no line of the rule holds   *)
(* the address.                                                            *)
SearchMisses ==
    pc \in {"route", "search"} =>
        \A o \in Ops \ (todo \cup (IF pc = "search" THEN {op} ELSE {})) :
            V4Lines(o, ip.ip) = {}

(* The parent domains of a name that the file gives a rule, nearest first  *)
Nearest(labels) ==
    LET Key(k)  == [kind |-> "name", name |-> SubSeq(labels, k, Len(labels)), ip |-> 0]
        keys == {k \in 1 .. Len(labels) : \E j \in DOMAIN file :
                     file[j].kind = "domain" /\ Lowered(file[j].host) = Key(k)}
    IN  IF keys = {} THEN None ELSE Key(CHOOSE k \in keys : \A l \in keys : k <= l)

LastRule(key) ==
    LET at == {j \in DOMAIN file : file[j].kind = "domain" /\ Lowered(file[j].host) = key}
    IN  RuleOf(file[CHOOSE j \in at : \A k \in at : k <= j])

(* A name has the rule of its nearest configured domain, by the last line  *)
(* of the file about it, and no other while one is configured.             *)
NameRule ==
    pc = "ready" /\ host # None =>
        (host.kind = "name" /\ Nearest(host.name) # None =>
             answer = LastRule(Nearest(host.name)))

(* Every lookup returns.                                                   *)
LookupEnds == pc \notin {"parse", "pick", "merge", "ready"} ~> pc = "ready"

(* README: a domain in the file affects itself and its subdomains.  Lines  *)
(* are lowered before they are stored, the host that is asked for is not.  *)
DomainAffectsItself ==
    pc = "ready" /\ host # None =>
        ((\E j \in DOMAIN file : file[j].kind = "domain" /\ file[j].host = host)
             => answer # None)

(* README: block forbids the connection.  Which of several rules with      *)
(* ranges around an address answers depends on the order of the map.       *)
BlockForbids ==
    pc = "ready" /\ host # None =>
        (host.kind = "v4" /\ domain[host] = None /\ V4Lines("block", host.ip) # {}
             => answer = "block")
=============================================================================
