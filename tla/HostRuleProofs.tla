---------------------------- MODULE HostRuleProofs ----------------------------
(***************************************************************************)
(* For addresses of any width, any rule file and any order in which the    *)
(* runtime walks its maps: the merged ranges of a rule hold exactly the    *)
(* addresses of its lines, the binary search misses none of them, and a    *)
(* name has the rule of its nearest parent domain.                         *)
(***************************************************************************)
EXTENDS HostRule, FiniteSetTheorems, WellFoundedInduction, TLAPS

USE BoundAssumption, NoneAssumption

(* Induction for a set of numbers, from the least one that is not in it    *)
LEMMA NatInSet ==
    ASSUME NEW S, 0 \in S, \A n \in Nat : n \in S => n + 1 \in S
    PROVE  Nat \subseteq S
<1> DEFINE T == Nat \ S
<1> SUFFICES ASSUME T # {} PROVE FALSE
  OBVIOUS
<1>1. PICK x \in T : \A y \in T : <<y, x>> \notin OpToRel(<, Nat)
  <2>1. T \subseteq Nat
    OBVIOUS
  <2> HIDE DEF T
  <2> QED BY <2>1, WFMin, NatLessThanWellFounded
<1>2. x - 1 \in Nat /\ (x - 1) + 1 = x
  OBVIOUS
<1>3. <<x - 1, x>> \in OpToRel(<, Nat)
  BY <1>2 DEF OpToRel
<1>4. x - 1 \in S
  BY <1>1, <1>2, <1>3
<1> QED BY <1>2, <1>4

-----------------------------------------------------------------------------
(* The number of addresses of a network                                    *)

LEMMA SizeUnfolds ==
    Size = [n \in 0 .. Bits |-> IF n = 0 THEN 1 ELSE 2 * Size[n - 1]]
<1> DEFINE IsSize(f, m) == f = [n \in 0 .. m |-> IF n = 0 THEN 1 ELSE 2 * f[n - 1]]
           S == {m \in Nat : \E f : IsSize(f, m)}
<1>1. 0 \in S
  <2>1. IsSize([n \in 0 .. 0 |-> 1], 0)
    OBVIOUS
  <2> QED BY <2>1
<1>2. ASSUME NEW m \in Nat, m \in S PROVE m + 1 \in S
  <2>1. PICK f : IsSize(f, m)
    BY <1>2
  <2> DEFINE g == [n \in 0 .. m + 1 |-> IF n <= m THEN f[n] ELSE 2 * f[m]]
  <2>2. \A n \in 0 .. m : f[n] = IF n = 0 THEN 1 ELSE 2 * f[n - 1]
    BY <2>1
  <2>3. \A n \in 0 .. m + 1 : g[n] = IF n = 0 THEN 1 ELSE 2 * g[n - 1]
    BY <2>2
  <2>4. IsSize(g, m + 1)
    BY <2>3
  <2> HIDE DEF IsSize, g
  <2> QED BY <2>4
<1>3. Nat \subseteq S
  <2> HIDE DEF S
  <2> QED BY <1>1, <1>2, NatInSet
<1>4. \E f : IsSize(f, Bits)
  BY <1>3
<1> QED BY <1>4 DEF Size

LEMMA SizePositive == \A n \in 0 .. Bits : Size[n] \in Nat /\ Size[n] >= 1
<1> DEFINE S == {n \in Nat : n <= Bits => Size[n] \in Nat /\ Size[n] >= 1}
<1>1. 0 \in S
  BY SizeUnfolds
<1>2. ASSUME NEW n \in Nat, n \in S PROVE n + 1 \in S
  <2> SUFFICES ASSUME n + 1 <= Bits PROVE Size[n + 1] \in Nat /\ Size[n + 1] >= 1
    OBVIOUS
  <2>1. Size[n + 1] = 2 * Size[(n + 1) - 1]
    BY SizeUnfolds
  <2>2. (n + 1) - 1 = n
    OBVIOUS
  <2> QED BY <1>2, <2>1, <2>2
<1>3. Nat \subseteq S
  <2> HIDE DEF S
  <2> QED BY <1>1, <1>2, NatInSet
<1> QED BY <1>3

(* The networks of a prefix fit into the address space without a rest.     *)
LEMMA SizeDivides ==
    ASSUME NEW b \in 0 .. Bits PROVE \E q \in Nat : Size[Bits] = q * Size[b]
<1> DEFINE S == {m \in Nat : b + m <= Bits => \E q \in Nat : Size[b + m] = q * Size[b]}
<1>1. 0 \in S
  <2>1. b + 0 = b /\ Size[b] = 1 * Size[b]
    BY SizePositive
  <2> QED BY <2>1
<1>2. ASSUME NEW m \in Nat, m \in S PROVE m + 1 \in S
  <2> SUFFICES ASSUME b + (m + 1) <= Bits
               PROVE  \E q \in Nat : Size[b + (m + 1)] = q * Size[b]
    OBVIOUS
  <2>1. PICK q \in Nat : Size[b + m] = q * Size[b]
    BY <1>2
  <2>2. Size[b + (m + 1)] = 2 * Size[(b + (m + 1)) - 1]
    BY SizeUnfolds
  <2>3. (b + (m + 1)) - 1 = b + m /\ b \in 0 .. Bits
    OBVIOUS
  <2>4. Size[b + (m + 1)] = (2 * q) * Size[b]
    BY <2>1, <2>2, <2>3, SizePositive
  <2> QED BY <2>4
<1>3. Nat \subseteq S
  <2> HIDE DEF S
  <2> QED BY <1>1, <1>2, NatInSet
<1>4. Bits - b \in S /\ b + (Bits - b) = Bits
  BY <1>3
<1> QED BY <1>4

(* A network holds the addresses that have its prefix.                     *)
LEMMA NetworkHolds ==
    ASSUME NEW line \in Lines
    PROVE  LET net  == ResolveIPRange(line)
               size == Size[Bits - line.prefix]
           IN  /\ net \in CIDRRange /\ net.Start <= net.End
               /\ \A a \in Addr : Covers(net, a) <=> a \div size = line.host.ip \div size
<1> DEFINE size == Size[Bits - line.prefix]
           x == line.host.ip
           min == (x \div size) * size
<1>1. line.prefix \in 0 .. Bits /\ x \in Addr
  BY InputAssumption DEF Line, Host
<1>2. size \in Nat /\ size >= 1 /\ Size[Bits] \in Nat
  BY <1>1, SizePositive
<1>3. PICK q \in Nat : Size[Bits] = q * size
  BY <1>1, SizeDivides
<1>4. x \in Nat /\ x < q * size
  BY <1>1, <1>2, <1>3 DEF Addr
<1> HIDE DEF size, x
<1>5. min \in Nat /\ min + size <= q * size
  <2>1. x \div size \in Nat /\ (x \div size) * size <= x
    BY <1>2, <1>4
  <2>2. x \div size < q
    BY <1>2, <1>4, <2>1
  <2>3. (x \div size + 1) * size <= q * size
    BY <1>2, <2>1, <2>2
  <2> QED BY <1>2, <2>1, <2>3
<1>6. \A a \in Nat : (min <= a /\ a <= min + size - 1) <=> a \div size = x \div size
  BY <1>2, <1>4
<1>7. ResolveIPRange(line) = [Start |-> min, End |-> min + size - 1]
  BY DEF ResolveIPRange, size, x
<1> HIDE DEF min
<1>8. \A a \in Addr : a \in Nat
  BY <1>2 DEF Addr
<1>9. min \in Addr /\ min + size - 1 \in Addr
  BY <1>2, <1>3, <1>5 DEF Addr
<1> QED BY <1>2, <1>5, <1>6, <1>7, <1>8, <1>9 DEF CIDRRange, Covers, size, x

-----------------------------------------------------------------------------
(* Lists of ranges                                                         *)

NonEmpty(s) == \A k \in DOMAIN s : s[k].Start <= s[k].End

Apart(s) == \A j, k \in DOMAIN s : j < k => s[j].End < s[k].Start

(* The list s holds the address a.                                         *)
Holds(s, a) == \E k \in DOMAIN s : Covers(s[k], a)

LEMMA RangeBounds == \A x \in CIDRRange : x.Start \in Int /\ x.End \in Int
<1>1. Addr \subseteq Int
  BY SizePositive DEF Addr
<1> QED BY <1>1 DEF CIDRRange

(* Sorting a list keeps its ranges, all of them.                           *)
LEMMA SortKeeps ==
    ASSUME NEW s \in Seq(CIDRRange), NEW t \in [1 .. Len(s) -> {s[k] : k \in DOMAIN s}],
           Sorts(s, t)
    PROVE  /\ t \in Seq(CIDRRange) /\ Len(t) = Len(s)
           /\ \A k \in 1 .. Len(t) - 1 : t[k].Start <= t[k + 1].Start
           /\ \A k \in DOMAIN t : \E j \in DOMAIN s : t[k] = s[j]
           /\ \A j \in DOMAIN s : \E k \in DOMAIN t : t[k] = s[j]
<1>1. /\ t \in Seq(CIDRRange) /\ Len(t) = Len(s)
      /\ DOMAIN t = 1 .. Len(s) /\ DOMAIN s = 1 .. Len(s)
  BY DEF CIDRRange
<1>2. PICK f \in [DOMAIN t -> DOMAIN s] :
          /\ \A k \in DOMAIN t : t[k] = s[f[k]]
          /\ \A k, l \in DOMAIN t : k # l => f[k] # f[l]
  BY DEF Sorts
<1>3. f \in Injection(DOMAIN t, DOMAIN s)
  BY <1>2 DEF Injection, IsInjective
<1>4. IsFiniteSet(DOMAIN s)
  BY <1>1, FS_Interval
<1>5. f \in Surjection(DOMAIN t, DOMAIN s)
  BY <1>1, <1>3, <1>4, FS_Injection
<1>6. \A j \in DOMAIN s : \E k \in DOMAIN t : f[k] = j
  BY <1>5 DEF Surjection
<1>7. \A k \in 1 .. Len(t) - 1 : t[k].Start <= t[k + 1].Start
  <2>1. \A k \in 1 .. Len(t) - 1 : ~Less(t[k + 1], t[k])
    BY DEF Sorts
  <2> TAKE k \in 1 .. Len(t) - 1
  <2>2. t[k] \in CIDRRange /\ t[k + 1] \in CIDRRange
    BY <1>1
  <2> QED BY <2>1, <2>2, RangeBounds DEF Less
<1>8. \A k \in DOMAIN t : f[k] \in DOMAIN s /\ t[k] = s[f[k]]
  BY <1>2
<1>9. \A k \in DOMAIN t : \E j \in DOMAIN s : t[k] = s[j]
  BY <1>8
<1>10. \A j \in DOMAIN s : \E k \in DOMAIN t : t[k] = s[j]
  BY <1>6, <1>8
<1> QED BY <1>1, <1>7, <1>9, <1>10

(* One turn of the merge's loop: the result stays in order and disjoint,   *)
(* and holds the addresses of the new range as well, no others.            *)
LEMMA MergedHolds ==
    ASSUME NEW tmp \in Seq(CIDRRange), tmp # <<>>, NonEmpty(tmp), Apart(tmp),
           NEW r \in CIDRRange, r.Start <= r.End, tmp[Len(tmp)].Start <= r.Start
    PROVE  /\ Merged(tmp, r) \in Seq(CIDRRange)
           /\ Merged(tmp, r) # <<>> /\ Len(Merged(tmp, r)) <= Len(tmp) + 1
           /\ NonEmpty(Merged(tmp, r)) /\ Apart(Merged(tmp, r))
           /\ Merged(tmp, r)[Len(Merged(tmp, r))].Start <= r.Start
           /\ \A a \in Addr : Holds(Merged(tmp, r), a) <=> Holds(tmp, a) \/ Covers(r, a)
<1> DEFINE n == Len(tmp)
           back == tmp[n]
<1>1. n \in Nat /\ n >= 1 /\ DOMAIN tmp = 1 .. n /\ back \in CIDRRange
  OBVIOUS
<1>2. Addr \subseteq Int
  BY SizePositive DEF Addr
<1>3. \A x \in CIDRRange : x.Start \in Int /\ x.End \in Int
  BY RangeBounds
<1>4. CASE r.Start <= back.End
  <2> DEFINE top == IF r.End > back.End THEN r.End ELSE back.End
             new == [back EXCEPT !.End = top]
             m == [tmp EXCEPT ![n] = new]
  <2>1. Merged(tmp, r) = m
    BY <1>4 DEF Merged
  <2>2. new \in CIDRRange /\ new.Start = back.Start /\ new.End = top
    BY <1>1 DEF CIDRRange
  <2>3. m \in Seq(CIDRRange) /\ Len(m) = n /\ DOMAIN m = 1 .. n /\ m # <<>>
    BY <1>1, <2>2
  <2>4. m[n] = new /\ \A k \in 1 .. n - 1 : m[k] = tmp[k]
    BY <1>1
  <2>5. back.Start <= top /\ back.Start <= r.Start
    BY <1>1, <1>3 DEF NonEmpty
  <2> HIDE DEF m, new
  <2>6. NonEmpty(m)
    BY <1>1, <2>2, <2>3, <2>4, <2>5 DEF NonEmpty
  <2>7. Apart(m)
    BY <1>1, <2>2, <2>3, <2>4 DEF Apart
  <2>8. \A a \in Addr : Covers(new, a) <=> Covers(back, a) \/ Covers(r, a)
    BY <1>1, <1>2, <1>3, <1>4, <2>2, <2>5 DEF Covers
  <2>9. \A a \in Addr : Holds(m, a) <=> Holds(tmp, a) \/ Covers(r, a)
    <3> TAKE a \in Addr
    <3>1. Holds(m, a) <=> Covers(new, a) \/ \E k \in 1 .. n - 1 : Covers(tmp[k], a)
      BY <1>1, <2>3, <2>4 DEF Holds
    <3>2. Holds(tmp, a) <=> Covers(back, a) \/ \E k \in 1 .. n - 1 : Covers(tmp[k], a)
      BY <1>1 DEF Holds
    <3> QED BY <2>8, <3>1, <3>2
  <2> QED BY <1>1, <2>1, <2>2, <2>3, <2>4, <2>5, <2>6, <2>7, <2>9
<1>5. CASE ~(r.Start <= back.End)
  <2> DEFINE m == Append(tmp, r)
  <2>1. Merged(tmp, r) = m
    BY <1>5 DEF Merged
  <2>2. m \in Seq(CIDRRange) /\ Len(m) = n + 1 /\ DOMAIN m = 1 .. n + 1 /\ m # <<>>
    BY <1>1
  <2>3. m[n + 1] = r /\ \A k \in 1 .. n : m[k] = tmp[k]
    BY <1>1
  <2> HIDE DEF m
  <2>4. NonEmpty(m)
    BY <1>1, <2>2, <2>3 DEF NonEmpty
  <2>5. \A k \in 1 .. n : tmp[k].End <= back.End
    BY <1>1, <1>3 DEF Apart, NonEmpty
  <2>6. Apart(m)
    BY <1>1, <1>3, <1>5, <2>2, <2>3, <2>5 DEF Apart
  <2>7. \A a \in Addr : Holds(m, a) <=> Holds(tmp, a) \/ Covers(r, a)
    BY <1>1, <2>2, <2>3 DEF Holds
  <2> QED BY <1>1, <1>3, <2>1, <2>2, <2>3, <2>4, <2>6, <2>7
<1> QED BY <1>4, <1>5

-----------------------------------------------------------------------------
(* The invariant                                                           *)

(* The lines parsed so far                                                 *)
Read == IF pc = "parse" THEN i - 1 ELSE Len(file)

LineHolds(k, o, a) == /\ file[k].kind = "v4" /\ RuleOf(file[k]) = o
                      /\ Covers(ResolveIPRange(file[k]), a)

(* The list s holds what the first n lines say of the rule o.              *)
Exact(s, o, n) == \A a \in Addr : Holds(s, a) <=> \E k \in 1 .. n : LineHolds(k, o, a)

IsMerged(o) == /\ pc # "parse"
               /\ pc \in {"pick", "merge"} => o \notin todo
               /\ pc = "merge" => o # op

LoadInv == /\ OnLoad => host = None
           /\ pc = "parse" => i \in 1 .. Len(file) + 1

(* The ranges of a rule that is not being merged are those of its lines,   *)
(* before its merge as well as after it.                                   *)
RouteInv ==
    \A o \in Ops : /\ Len(routeV4[o]) <= Read /\ NonEmpty(routeV4[o])
                   /\ IsMerged(o) => Apart(routeV4[o])
                   /\ (pc = "merge" => o # op) => Exact(routeV4[o], o, Read)

(* Of the rule that is being merged the result so far holds the sorted     *)
(* ranges up to the i-th, and its last begins no later than those to come. *)
MergeInv ==
    pc = "merge" =>
        /\ op \in Ops \ todo /\ Len(lst) <= Len(file)
        /\ NonEmpty(lst) /\ Exact(lst, op, Len(file))
        /\ \A k \in 1 .. Len(lst) - 1 : lst[k].Start <= lst[k + 1].Start
        /\ Apart(routeV4[op]) /\ i >= 2
        /\ \A a \in Addr : Holds(routeV4[op], a)
                               <=> \E k \in DOMAIN lst : k < i /\ Covers(lst[k], a)
        /\ IF lst = <<>> THEN routeV4[op] = <<>> /\ i = 2
           ELSE /\ i <= Len(lst) + 1 /\ Len(routeV4[op]) \in 1 .. i - 1
                /\ routeV4[op][Len(routeV4[op])].Start <= lst[i - 1].Start

About(h, n) == {j \in 1 .. n : file[j].kind = "domain" /\ Lowered(file[j].host) = h}

(* A key has the rule of the last line about it, and none without a line.  *)
DomainInv ==
    \A h \in Hosts : IF About(h, Read) = {} THEN domain[h] = None
                     ELSE \E j \in About(h, Read) : /\ \A k \in About(h, Read) : k <= j
                                                    /\ domain[h] = RuleOf(file[j])

(* Whatever the binary search has left behind does not hold the address.   *)
LookupInv ==
    /\ ~OnLoad /\ pc # "ready" => host \in Hosts
    /\ pc \in {"key", "cidr", "route", "search"} => ip \in Hosts
    /\ pc = "search" =>
           /\ op \in Ops \ todo
           /\ start \in 0 .. Len(routeV4[op]) /\ end \in -1 .. Len(routeV4[op]) - 1
           /\ \A k \in DOMAIN routeV4[op] :
                  k - 1 < start \/ k - 1 > end => ~Covers(routeV4[op][k], ip.ip)

Parent(h, k) == [kind |-> "name", name |-> SubSeq(h.name, k, Len(h.name)), ip |-> 0]

(* The walk over the parents has passed only names without a line, and a   *)
(* name goes to the resolver only if none of them has one.                 *)
NameInv ==
    /\ pc \in {"name", "resolve"} => host.kind = "name"
    /\ pc = "name" =>
           /\ [host EXCEPT !.name = suffix] \in Hosts
           /\ \E m \in 1 .. Len(host.name) + 1 :
                  /\ suffix = SubSeq(host.name, m, Len(host.name))
                  /\ m = 1 \/ m <= Len(host.name)
                  /\ \A k \in 1 .. m - 1 : About(Parent(host, k), Len(file)) = {}
    /\ pc \in {"resolve", "key", "cidr", "route", "search"} /\ host.kind = "name" =>
           Nearest(host.name) = None

IInv == TypeOK /\ LoadInv /\ RouteInv /\ MergeInv /\ DomainInv /\ LookupInv /\ NameInv
        /\ SearchMisses /\ NameRule

USE DEF rules, search

LEMMA RuleIsOp == \A line : RuleOf(line) \in Ops
BY DEF RuleOf, Ops

LEMMA InitIInv == Init => IInv
<1> SUFFICES ASSUME Init PROVE IInv
  OBVIOUS
<1>1. file \in Seq(Lines) /\ Len(file) <= MaxLines
  BY DEF Init
<1>2. DOMAIN file = 1 .. Len(file) /\ Read = 0 /\ OnLoad
  BY <1>1 DEF Init, Read, OnLoad
<1>3. TypeOK
  <2>1. domain \in [Hosts -> Ops \cup {None}]
    BY DEF Init
  <2>2. routeV4 \in [Ops -> Seq(CIDRRange)] /\ lst \in Seq(CIDRRange)
    <3>1. <<>> \in Seq(CIDRRange)
      OBVIOUS
    <3> QED BY <3>1 DEF Init
  <2>3. /\ \A c \in cidr : c.net \in CIDRRange /\ c.op \in Ops
        /\ pc = "parse" /\ todo \subseteq Ops /\ op = None /\ i = 1 /\ safe = FALSE
        /\ host = None /\ ip = None /\ start = 0 /\ end = 0 /\ answer = None
    BY DEF Init
  <2>4. 1 \in 0 .. MaxLines + 2 /\ 0 \in 0 .. MaxLines
    OBVIOUS
  <2>5. 0 \in -1 .. MaxLines
    OBVIOUS
  <2> QED BY <1>1, <2>1, <2>2, <2>3, <2>4, <2>5 DEF TypeOK
<1>4. LoadInv
  BY <1>1 DEF Init, LoadInv
<1>5. RouteInv
  <2>1. pc = "parse" /\ \A o \in Ops : routeV4[o] = <<>>
    BY DEF Init
  <2>2. NonEmpty(<<>>) /\ \A o \in Ops : Exact(<<>>, o, 0)
    BY DEF NonEmpty, Exact, Holds
  <2> QED BY <1>2, <2>1, <2>2 DEF RouteInv, IsMerged
<1>6. DomainInv
  <2>1. \A h \in Hosts : About(h, 0) = {}
    BY DEF About
  <2> QED BY <1>2, <2>1 DEF Init, DomainInv
<1>7. MergeInv /\ LookupInv /\ NameInv /\ SearchMisses /\ NameRule
  BY DEF Init, MergeInv, LookupInv, NameInv, SearchMisses, NameRule, OnLoad
<1> QED BY <1>3, <1>4, <1>5, <1>6, <1>7 DEF IInv

-----------------------------------------------------------------------------
(* The loading of a file                                                   *)

(* Nobody looks anything up meanwhile.                                     *)
LEMMA LoadRest ==
    ASSUME OnLoad, IInv, OnLoad' \/ pc' = "ready", host' = host
    PROVE  LookupInv' /\ NameInv' /\ SearchMisses' /\ NameRule'
BY DEF OnLoad, IInv, LoadInv, LookupInv, NameInv, SearchMisses, NameRule

LEMMA ParseHolds == ASSUME IInv, Parse PROVE IInv'
<1> DEFINE line == file[i]
           o == RuleOf(line)
           net == ResolveIPRange(line)
<1>1. /\ pc = "parse" /\ i \in 1 .. Len(file) /\ pc' = "parse" /\ i' = i + 1
      /\ file \in Seq(Lines) /\ Len(file) <= MaxLines /\ MaxLines \in Nat
      /\ UNCHANGED <<file, todo, op, lst, host, safe, suffix, ip, start, end, answer>>
  BY DEF Parse, IInv, LoadInv, TypeOK
<1>2. line \in Lines /\ o \in Ops /\ Lowered(line.host) \in Hosts
  <2>1. line \in Lines
    BY <1>1
  <2> QED BY <2>1, RuleIsOp, InputAssumption
<1>3. net \in CIDRRange /\ net.Start <= net.End
  BY <1>2, NetworkHolds
<1>4. Read = i - 1 /\ Read' = i
  BY <1>1 DEF Read
<1>5. domain' = IF line.kind = "domain" THEN [domain EXCEPT ![Lowered(line.host)] = o]
                                        ELSE domain
  BY DEF Parse
<1>6. routeV4' = IF line.kind = "v4" THEN [routeV4 EXCEPT ![o] = Append(@, net)] ELSE routeV4
  BY DEF Parse
<1>7. cidr' = IF line.kind = "v6" THEN cidr \cup {[net |-> net, op |-> o]} ELSE cidr
  BY DEF Parse
<1>8. routeV4 \in [Ops -> Seq(CIDRRange)]
  BY DEF IInv, TypeOK
<1> HIDE DEF net, o, line
<1>9. TypeOK'
  BY <1>1, <1>2, <1>3, <1>5, <1>6, <1>7 DEF IInv, TypeOK
<1>10. RouteInv'
  <2> SUFFICES ASSUME NEW q \in Ops
               PROVE  /\ Len(routeV4'[q]) <= i /\ NonEmpty(routeV4'[q])
                      /\ Exact(routeV4'[q], q, i)
    BY <1>1, <1>4 DEF RouteInv, IsMerged, Exact, LineHolds
  <2> DEFINE s == routeV4[q]
  <2>1. Len(s) <= i - 1 /\ NonEmpty(s) /\ Exact(s, q, i - 1) /\ s \in Seq(CIDRRange)
    BY <1>1, <1>4, <1>8 DEF IInv, RouteInv
  <2>2. \A a : (\E k \in 1 .. i : LineHolds(k, q, a))
                  <=> (\E k \in 1 .. i - 1 : LineHolds(k, q, a))
                      \/ (line.kind = "v4" /\ o = q /\ Covers(net, a))
    BY <1>1 DEF LineHolds, line, o, net
  <2>3. CASE line.kind = "v4" /\ q = o
    <3>1. routeV4'[q] = Append(s, net)
      BY <1>6, <1>8, <2>3
    <3> DEFINE t == Append(s, net)
    <3>2. /\ Len(t) = Len(s) + 1 /\ DOMAIN t = 1 .. Len(s) + 1 /\ DOMAIN s = 1 .. Len(s)
          /\ t[Len(s) + 1] = net /\ \A k \in 1 .. Len(s) : t[k] = s[k]
      BY <1>3, <2>1
    <3> HIDE DEF t
    <3>3. NonEmpty(t)
      BY <1>3, <2>1, <3>2 DEF NonEmpty
    <3>4. \A a \in Addr : Holds(t, a) <=> Holds(s, a) \/ Covers(net, a)
      BY <2>1, <3>2 DEF Holds
    <3>5. Exact(t, q, i)
      BY <2>1, <2>2, <2>3, <3>4 DEF Exact
    <3> QED BY <1>1, <2>1, <3>1, <3>2, <3>3, <3>5 DEF t
  <2>4. CASE ~(line.kind = "v4" /\ q = o)
    <3>1. routeV4'[q] = s
      BY <1>6, <1>8, <2>4
    <3>2. Exact(s, q, i)
      BY <2>1, <2>2, <2>4 DEF Exact
    <3> QED BY <1>1, <2>1, <3>1, <3>2
  <2> QED BY <2>3, <2>4
<1>11. DomainInv'
  <2> SUFFICES ASSUME NEW h \in Hosts
               PROVE  IF About(h, i) = {} THEN domain'[h] = None
                      ELSE \E j \in About(h, i) : /\ \A k \in About(h, i) : k <= j
                                                   /\ domain'[h] = RuleOf(file[j])
    BY <1>1, <1>4 DEF DomainInv, About
  <2>1. IF About(h, i - 1) = {} THEN domain[h] = None
        ELSE \E j \in About(h, i - 1) : /\ \A k \in About(h, i - 1) : k <= j
                                        /\ domain[h] = RuleOf(file[j])
    BY <1>4 DEF IInv, DomainInv
  <2>2. domain \in [Hosts -> Ops \cup {None}]
    BY DEF IInv, TypeOK
  <2>3. CASE line.kind = "domain" /\ Lowered(line.host) = h
    <3>1. i \in About(h, i) /\ \A k \in About(h, i) : k <= i
      BY <1>1, <2>3 DEF About, line
    <3>2. domain'[h] = RuleOf(file[i])
      BY <1>1, <1>5, <2>2, <2>3 DEF o, line
    <3> QED BY <3>1, <3>2
  <2>4. CASE ~(line.kind = "domain" /\ Lowered(line.host) = h)
    <3>1. About(h, i) = About(h, i - 1)
      BY <1>1, <2>4 DEF About, line
    <3>2. domain'[h] = domain[h]
      BY <1>5, <1>2, <2>2, <2>4
    <3> QED BY <1>1, <2>1, <3>1, <3>2
  <2> QED BY <2>3, <2>4
<1>12. LoadInv' /\ MergeInv' /\ OnLoad /\ OnLoad'
  BY <1>1 DEF IInv, LoadInv, MergeInv, OnLoad
<1> QED BY <1>1, <1>9, <1>10, <1>11, <1>12, LoadRest DEF IInv

LEMMA ParsedHolds == ASSUME IInv, Parsed PROVE IInv'
<1>1. /\ pc = "parse" /\ i = Len(file) + 1 /\ pc' = "pick" /\ todo' = Ops
      /\ file \in Seq(Lines)
      /\ UNCHANGED <<file, domain, cidr, routeV4, i, op, lst, host, safe, suffix, ip,
                     start, end, answer>>
  BY DEF Parsed, IInv, LoadInv, TypeOK
<1>2. Read' = Read
  BY <1>1 DEF Read
<1>3. TypeOK'
  BY <1>1 DEF IInv, TypeOK
<1>4. RouteInv'
  BY <1>1, <1>2 DEF IInv, RouteInv, IsMerged, Exact, LineHolds
<1>5. DomainInv'
  BY <1>1, <1>2 DEF IInv, DomainInv, About
<1>6. LoadInv' /\ MergeInv' /\ OnLoad /\ OnLoad'
  BY <1>1 DEF IInv, LoadInv, MergeInv, OnLoad
<1> QED BY <1>1, <1>3, <1>4, <1>5, <1>6, LoadRest DEF IInv

LEMMA FirstIs ==
    ASSUME NEW t \in Seq(CIDRRange)
    PROVE  First(t) = IF t = <<>> THEN <<>> ELSE <<t[1]>>
<1>1. CASE Len(t) = 0
  BY <1>1 DEF First
<1>2. CASE Len(t) = 1
  <2>1. t = <<t[1]>>
    BY <1>2
  <2> QED BY <1>2, <2>1 DEF First
<1>3. CASE Len(t) > 1
  BY <1>3 DEF First
<1>4. Len(t) \in Nat
  OBVIOUS
<1>5. \A n \in Nat : n = 0 \/ n = 1 \/ n > 1
  OBVIOUS
<1>6. Len(t) = 0 \/ Len(t) = 1 \/ Len(t) > 1
  BY <1>4, <1>5
<1> QED BY <1>1, <1>2, <1>3, <1>6

LEMMA SortHolds == ASSUME IInv, Sort PROVE IInv'
<1>1. PICK o \in todo :
          /\ op' = o /\ todo' = todo \ {o}
          /\ \E t \in [1 .. Len(routeV4[o]) -> {routeV4[o][k] : k \in DOMAIN routeV4[o]}] :
                 /\ Sorts(routeV4[o], t)
                 /\ lst' = t
                 /\ routeV4' = [routeV4 EXCEPT ![o] = First(t)]
  BY DEF Sort
<1> DEFINE s == routeV4[o]
<1>2. PICK t \in [1 .. Len(s) -> {s[k] : k \in DOMAIN s}] :
          Sorts(s, t) /\ lst' = t /\ routeV4' = [routeV4 EXCEPT ![o] = First(t)]
  BY <1>1
<1>3. /\ pc = "pick" /\ pc' = "merge" /\ i' = 2 /\ file \in Seq(Lines)
      /\ UNCHANGED <<file, domain, cidr, host, safe, suffix, ip, start, end, answer>>
  BY DEF Sort, IInv, TypeOK
<1>4. /\ todo \subseteq Ops /\ o \in Ops /\ routeV4 \in [Ops -> Seq(CIDRRange)]
      /\ s \in Seq(CIDRRange)
  BY DEF IInv, TypeOK
<1>5. Read = Len(file) /\ Read' = Len(file) /\ Len(file) \in Nat
  BY <1>3 DEF Read
<1>6. Len(s) <= Len(file) /\ NonEmpty(s) /\ Exact(s, o, Len(file))
  BY <1>3, <1>4, <1>5 DEF IInv, RouteInv
<1>7. /\ t \in Seq(CIDRRange) /\ Len(t) = Len(s)
      /\ \A k \in 1 .. Len(t) - 1 : t[k].Start <= t[k + 1].Start
      /\ \A k \in DOMAIN t : \E j \in DOMAIN s : t[k] = s[j]
      /\ \A j \in DOMAIN s : \E k \in DOMAIN t : t[k] = s[j]
  BY <1>2, <1>4, SortKeeps
<1> DEFINE f == First(t)
<1>8. f = IF t = <<>> THEN <<>> ELSE <<t[1]>>
  BY <1>7, FirstIs
<1>9. /\ routeV4' = [routeV4 EXCEPT ![o] = f] /\ lst' = t
      /\ routeV4'[o] = f /\ \A q \in Ops : q # o => routeV4'[q] = routeV4[q]
  BY <1>2, <1>4
<1> HIDE DEF f, s
<1>10. NonEmpty(t) /\ Exact(t, o, Len(file))
  <2>1. NonEmpty(t)
    BY <1>6, <1>7 DEF NonEmpty
  <2>2. \A a : Holds(t, a) <=> Holds(s, a)
    BY <1>7 DEF Holds
  <2> QED BY <1>6, <2>1, <2>2 DEF Exact
<1>11. /\ f \in Seq(CIDRRange) /\ NonEmpty(f) /\ Apart(f) /\ Len(f) <= Len(t)
       /\ \A a \in Addr : Holds(f, a) <=> \E k \in DOMAIN t : k < 2 /\ Covers(t[k], a)
       /\ IF t = <<>> THEN f = <<>>
          ELSE 2 <= Len(t) + 1 /\ Len(f) \in 1 .. 1 /\ f[Len(f)] = t[1]
  <2>1. CASE t = <<>>
    BY <1>8, <2>1 DEF NonEmpty, Apart, Holds
  <2>2. CASE t # <<>>
    <3>1. Len(t) >= 1 /\ DOMAIN t = 1 .. Len(t) /\ t[1] \in CIDRRange
      BY <1>7, <2>2
    <3>2. f = <<t[1]>> /\ Len(f) = 1 /\ DOMAIN f = 1 .. 1 /\ f[1] = t[1]
      BY <1>8, <2>2
    <3>3. \A a \in Addr : Holds(f, a) <=> \E k \in DOMAIN t : k < 2 /\ Covers(t[k], a)
      BY <3>1, <3>2 DEF Holds
    <3>4. NonEmpty(f) /\ Apart(f)
      BY <1>10, <3>1, <3>2 DEF NonEmpty, Apart
    <3>5. f \in Seq(CIDRRange)
      BY <3>1, <3>2
    <3> QED BY <2>2, <3>1, <3>2, <3>3, <3>4, <3>5
  <2> QED BY <2>1, <2>2
<1>12. TypeOK'
  <2>1. routeV4' \in [Ops -> Seq(CIDRRange)]
    BY <1>4, <1>9, <1>11
  <2>2. lst' \in Seq(CIDRRange) /\ i' \in 0 .. MaxLines + 2 /\ todo' \subseteq Ops /\ op' \in Ops
    BY <1>1, <1>3, <1>4, <1>7, <1>9
  <2> QED BY <1>3, <2>1, <2>2 DEF IInv, TypeOK
<1>13. RouteInv'
  <2> SUFFICES ASSUME NEW q \in Ops
               PROVE  /\ Len(routeV4'[q]) <= Len(file) /\ NonEmpty(routeV4'[q])
                      /\ q \notin todo' /\ q # o => Apart(routeV4'[q])
                      /\ q # o => Exact(routeV4'[q], q, Len(file))
    BY <1>1, <1>3, <1>5 DEF RouteInv, IsMerged, Exact, LineHolds
  <2>1. CASE q = o
    BY <1>5, <1>6, <1>7, <1>9, <1>11, <2>1
  <2>2. CASE q # o
    BY <1>1, <1>3, <1>5, <1>9, <2>2 DEF IInv, RouteInv, IsMerged
  <2> QED BY <2>1, <2>2
<1>14. MergeInv'
  <2>1. Exact(lst, op, Len(file))' <=> Exact(t, o, Len(file))
    BY <1>1, <1>3, <1>9 DEF Exact, LineHolds
  <2>2. t # <<>> => f[Len(f)].Start <= t[2 - 1].Start
    <3>1. t # <<>> => t[1] \in CIDRRange
      BY <1>7
    <3> QED BY <1>11, <3>1, RangeBounds
  <2>3. lst' = t /\ i' = 2 /\ op' = o /\ routeV4'[op'] = f /\ file' = file /\ Len(t) <= Len(file)
    BY <1>1, <1>3, <1>6, <1>7, <1>9
  <2>4. op' \in Ops \ todo'
    BY <1>1, <1>4
  <2> QED BY <1>7, <1>10, <1>11, <2>1, <2>2, <2>3, <2>4 DEF MergeInv
<1>15. DomainInv'
  BY <1>3, <1>5 DEF IInv, DomainInv, About
<1>16. LoadInv' /\ OnLoad /\ OnLoad'
  BY <1>3 DEF IInv, LoadInv, OnLoad
<1> QED BY <1>3, <1>12, <1>13, <1>14, <1>15, <1>16, LoadRest DEF IInv

LEMMA MergeHolds == ASSUME IInv, Merge PROVE IInv'
<1>1. /\ pc = "merge" /\ file \in Seq(Lines) /\ lst \in Seq(CIDRRange)
      /\ UNCHANGED <<file, domain, cidr, todo, op, lst, host, safe, suffix, ip, start, end,
                     answer>>
      /\ routeV4 \in [Ops -> Seq(CIDRRange)] /\ i \in Nat /\ Len(file) <= MaxLines
  BY DEF Merge, IInv, TypeOK
<1> DEFINE n == Len(file)
           r == routeV4[op]
<1>2. /\ op \in Ops \ todo /\ Len(lst) <= n /\ NonEmpty(lst) /\ Exact(lst, op, n)
      /\ \A k \in 1 .. Len(lst) - 1 : lst[k].Start <= lst[k + 1].Start
      /\ Apart(r) /\ i >= 2
      /\ \A a \in Addr : Holds(r, a) <=> \E k \in DOMAIN lst : k < i /\ Covers(lst[k], a)
      /\ IF lst = <<>> THEN r = <<>> /\ i = 2
         ELSE /\ i <= Len(lst) + 1 /\ Len(r) \in 1 .. i - 1
              /\ r[Len(r)].Start <= lst[i - 1].Start
  BY <1>1 DEF IInv, MergeInv
<1>3. pc' \in {"merge", "pick"}
  BY <1>1 DEF Merge
<1>4. Read = n /\ Read' = n /\ n \in Nat /\ MaxLines \in Nat
  BY <1>1, <1>3 DEF Read
<1>5. r \in Seq(CIDRRange) /\ Len(r) <= n /\ NonEmpty(r)
  BY <1>1, <1>2, <1>4 DEF IInv, RouteInv
<1>6. DomainInv'
  BY <1>1, <1>4 DEF IInv, DomainInv, About
<1>7. LoadInv' /\ OnLoad /\ OnLoad'
  BY <1>1, <1>3 DEF IInv, LoadInv, OnLoad
<1>8. TypeOK' /\ RouteInv' /\ MergeInv'
  <2>1. CASE i <= Len(lst)
    <3> DEFINE new == Merged(r, lst[i])
    <3>1. pc' = "merge" /\ i' = i + 1 /\ routeV4' = [routeV4 EXCEPT ![op] = new]
      BY <1>1, <2>1 DEF Merge
    <3>2. lst # <<>> /\ DOMAIN lst = 1 .. Len(lst) /\ i \in DOMAIN lst
      BY <1>1, <1>2, <2>1
    <3>3. /\ lst[i] \in CIDRRange /\ lst[i].Start <= lst[i].End /\ r # <<>>
          /\ i - 1 \in 1 .. Len(lst) - 1 /\ lst[i - 1] \in CIDRRange
      <4>1. lst[i] \in CIDRRange /\ lst[i].Start <= lst[i].End
        BY <1>1, <1>2, <3>2 DEF NonEmpty
      <4>2. Len(r) >= 1 /\ Len(<<>>) = 0
        BY <1>1, <1>2, <3>2
      <4>3. i - 1 \in 1 .. Len(lst) - 1 /\ i - 1 \in 1 .. Len(lst)
        BY <1>1, <1>2, <2>1
      <4> QED BY <1>1, <4>1, <4>2, <4>3
    <3>4. r[Len(r)].Start <= lst[i].Start
      <4>1. lst[i - 1].Start <= lst[(i - 1) + 1].Start /\ (i - 1) + 1 = i
        BY <1>1, <1>2, <3>3
      <4>2. r[Len(r)] \in CIDRRange
        BY <1>5, <3>3
      <4> QED BY <1>2, <3>2, <3>3, <4>1, <4>2, RangeBounds
    <3>5. /\ new \in Seq(CIDRRange) /\ new # <<>> /\ Len(new) <= Len(r) + 1
          /\ NonEmpty(new) /\ Apart(new) /\ new[Len(new)].Start <= lst[i].Start
          /\ \A a \in Addr : Holds(new, a) <=> Holds(r, a) \/ Covers(lst[i], a)
      BY <1>2, <1>5, <3>3, <3>4, MergedHolds
    <3>6. routeV4'[op] = new /\ \A q \in Ops : q # op => routeV4'[q] = routeV4[q]
      BY <1>1, <1>2, <3>1
    <3> HIDE DEF new
    <3>7. Len(new) \in 1 .. i /\ i <= n
      BY <1>1, <1>2, <1>4, <1>5, <2>1, <3>2, <3>5
    <3>8. TypeOK'
      <4>1. routeV4' \in [Ops -> Seq(CIDRRange)]
        BY <1>1, <3>1, <3>5
      <4>2. i' \in 0 .. MaxLines + 2
        BY <1>1, <1>4, <3>1, <3>7
      <4> QED BY <1>1, <1>3, <4>1, <4>2 DEF IInv, TypeOK
    <3>9. RouteInv'
      <4> SUFFICES ASSUME NEW q \in Ops
                   PROVE  /\ Len(routeV4'[q]) <= n /\ NonEmpty(routeV4'[q])
                          /\ q \notin todo /\ q # op => Apart(routeV4'[q])
                          /\ q # op => Exact(routeV4'[q], q, n)
        BY <1>1, <1>4, <3>1 DEF RouteInv, IsMerged, Exact, LineHolds
      <4>1. CASE q = op
        BY <1>1, <1>4, <3>5, <3>6, <3>7, <4>1
      <4>2. CASE q # op
        BY <1>1, <1>4, <3>6, <4>2 DEF IInv, RouteInv, IsMerged
      <4> QED BY <4>1, <4>2
    <3>10. MergeInv'
      <4>1. \A a \in Addr : Holds(new, a) <=> \E k \in DOMAIN lst : k < i + 1 /\ Covers(lst[k], a)
        <5> TAKE a \in Addr
        <5>1. (\E k \in DOMAIN lst : k < i + 1 /\ Covers(lst[k], a))
                 <=> (\E k \in DOMAIN lst : k < i /\ Covers(lst[k], a)) \/ Covers(lst[i], a)
          BY <1>1, <3>2
        <5> QED BY <1>2, <3>5, <5>1
      <4>2. Exact(lst, op, Len(file))' <=> Exact(lst, op, n)
        BY <1>1 DEF Exact, LineHolds
      <4>3. i + 1 <= Len(lst) + 1 /\ (i + 1) - 1 = i /\ i + 1 >= 2
        BY <1>1, <1>2, <2>1
      <4> QED BY <1>1, <1>2, <3>1, <3>2, <3>5, <3>6, <3>7, <4>1, <4>2, <4>3 DEF MergeInv
    <3> QED BY <3>8, <3>9, <3>10
  <2>2. CASE ~(i <= Len(lst))
    <3>1. pc' = "pick" /\ UNCHANGED <<routeV4, i>>
      BY <1>1, <2>2 DEF Merge
    <3>2. \A a \in Addr : Holds(r, a) <=> Holds(lst, a)
      <4>1. DOMAIN lst = 1 .. Len(lst)
        BY <1>1
      <4>2. \A k \in DOMAIN lst : k < i
        BY <1>1, <2>2, <4>1
      <4> QED BY <1>2, <4>2 DEF Holds
    <3>3. Exact(r, op, n)
      BY <1>2, <3>2 DEF Exact
    <3>4. TypeOK'
      BY <1>1, <3>1 DEF IInv, TypeOK
    <3>5. RouteInv'
      <4> SUFFICES ASSUME NEW q \in Ops
                   PROVE  /\ Len(routeV4[q]) <= n /\ NonEmpty(routeV4[q])
                          /\ q \notin todo => Apart(routeV4[q])
                          /\ Exact(routeV4[q], q, n)
        BY <1>1, <1>4, <3>1 DEF RouteInv, IsMerged, Exact, LineHolds
      <4>1. CASE q = op
        BY <1>2, <1>5, <3>3, <4>1
      <4>2. CASE q # op
        BY <1>1, <1>4, <4>2 DEF IInv, RouteInv, IsMerged
      <4> QED BY <4>1, <4>2
    <3> QED BY <3>1, <3>4, <3>5 DEF MergeInv
  <2> QED BY <2>1, <2>2
<1> QED BY <1>1, <1>6, <1>7, <1>8, LoadRest DEF IInv

LEMMA LoadedHolds == ASSUME IInv, Loaded PROVE IInv'
<1>1. /\ pc = "pick" /\ todo = {} /\ pc' = "ready" /\ lst' = <<>> /\ op' = None /\ i' = 0
      /\ UNCHANGED <<file, domain, cidr, routeV4, todo, host, safe, suffix, ip, start, end,
                     answer>>
  BY DEF Loaded
<1>2. Read = Len(file) /\ Read' = Len(file)
  BY <1>1 DEF Read
<1>3. TypeOK'
  <2>1. <<>> \in Seq(CIDRRange) /\ 0 \in 0 .. MaxLines + 2
    OBVIOUS
  <2> QED BY <1>1, <2>1 DEF IInv, TypeOK
<1>4. RouteInv'
  BY <1>1, <1>2 DEF IInv, RouteInv, IsMerged, Exact, LineHolds
<1>5. DomainInv'
  BY <1>1, <1>2 DEF IInv, DomainInv, About
<1>6. LoadInv' /\ MergeInv' /\ OnLoad
  BY <1>1 DEF LoadInv, MergeInv, OnLoad
<1> QED BY <1>1, <1>3, <1>4, <1>5, <1>6, LoadRest DEF IInv

-----------------------------------------------------------------------------
(* The lookup of a host                                                    *)

(* It leaves what was loaded alone.                                        *)
LEMMA LookupRest ==
    ASSUME IInv, ~OnLoad, ~OnLoad', UNCHANGED <<file, domain, cidr, routeV4, i, lst>>
    PROVE  LoadInv' /\ RouteInv' /\ MergeInv' /\ DomainInv'
<1>1. Read' = Read /\ Read = Len(file)
  BY DEF Read, OnLoad
<1>2. RouteInv'
  <2>1. \A o \in Ops : IsMerged(o)
    BY DEF IsMerged, OnLoad
  <2> QED BY <1>1, <2>1 DEF IInv, RouteInv, Exact, LineHolds, OnLoad
<1>3. DomainInv'
  BY <1>1 DEF IInv, DomainInv, About
<1> QED BY <1>2, <1>3 DEF LoadInv, MergeInv, OnLoad

(* Once the file is loaded, the ranges of a rule hold an address if and    *)
(* only if a line does.                                                    *)
LEMMA RoutesHold ==
    ASSUME IInv, ~OnLoad, NEW o \in Ops
    PROVE  /\ Len(routeV4[o]) <= Len(file) /\ routeV4[o] \in Seq(CIDRRange)
           /\ NonEmpty(routeV4[o]) /\ Apart(routeV4[o])
           /\ \A a \in Addr : Holds(routeV4[o], a) <=> V4Lines(o, a) # {}
<1>1. file \in Seq(Lines) /\ DOMAIN file = 1 .. Len(file) /\ Read = Len(file)
  BY DEF IInv, TypeOK, Read, OnLoad
<1>2. \A k \in DOMAIN file : file[k] \in Lines
  BY <1>1
<1>3. \A a \in Addr : (\E k \in 1 .. Len(file) : LineHolds(k, o, a)) <=> V4Lines(o, a) # {}
  <2> TAKE a \in Addr
  <2>1. \A k \in DOMAIN file :
            Covers(ResolveIPRange(file[k]), a)
                <=> LET size == Size[Bits - file[k].prefix]
                    IN  a \div size = file[k].host.ip \div size
    BY <1>2, NetworkHolds
  <2> QED BY <1>1, <2>1 DEF LineHolds, V4Lines
<1>4. IsMerged(o) /\ pc # "merge"
  BY DEF IsMerged, OnLoad
<1>5. routeV4[o] \in Seq(CIDRRange)
  BY DEF IInv, TypeOK
<1> QED BY <1>1, <1>3, <1>4, <1>5 DEF IInv, RouteInv, Exact

(* The nearest parent domain that has a line, and the last line about it   *)
LEMMA NearestNone ==
    ASSUME file \in Seq(Lines), NEW h \in Hosts,
           \A k \in 1 .. Len(h.name) : About(Parent(h, k), Len(file)) = {}
    PROVE  Nearest(h.name) = None
<1>1. DOMAIN file = 1 .. Len(file)
  OBVIOUS
<1> QED BY <1>1 DEF Nearest, About, Parent

LEMMA NearestIs ==
    ASSUME file \in Seq(Lines), NEW h \in Hosts, NEW m \in 1 .. Len(h.name),
           About(Parent(h, m), Len(file)) # {},
           \A k \in 1 .. m - 1 : About(Parent(h, k), Len(file)) = {}
    PROVE  Nearest(h.name) = Parent(h, m)
<1> DEFINE Key(k) == [kind |-> "name", name |-> SubSeq(h.name, k, Len(h.name)), ip |-> 0]
           keys == {k \in 1 .. Len(h.name) : \E j \in DOMAIN file :
                        file[j].kind = "domain" /\ Lowered(file[j].host) = Key(k)}
<1>1. DOMAIN file = 1 .. Len(file) /\ Len(h.name) \in Nat
  BY InputAssumption DEF Host
<1>2. m \in keys
  BY <1>1 DEF About, Parent
<1>3. \A k \in keys : ~(k < m)
  <2> SUFFICES ASSUME NEW k \in keys, k < m PROVE FALSE
    OBVIOUS
  <2>1. k \in 1 .. m - 1
    BY <1>1
  <2>2. About(Parent(h, k), Len(file)) # {}
    BY <1>1 DEF About, Parent
  <2> QED BY <2>1, <2>2
<1>4. \A k \in keys : m <= k
  BY <1>1, <1>3
<1>5. Nearest(h.name) = IF keys = {} THEN None ELSE Key(CHOOSE k \in keys : \A l \in keys : k <= l)
  BY DEF Nearest
<1>6. \A k \in keys : k \in Int
  BY <1>1
<1> HIDE DEF keys
<1>7. (CHOOSE k \in keys : \A l \in keys : k <= l) = m
  <2> DEFINE c == CHOOSE k \in keys : \A l \in keys : k <= l
  <2>1. c \in keys /\ \A l \in keys : c <= l
    BY <1>2, <1>4
  <2> HIDE DEF c
  <2>2. c = m
    BY <1>2, <1>4, <1>6, <2>1
  <2> QED BY <2>2 DEF c
<1> QED BY <1>2, <1>5, <1>7 DEF Parent

LEMMA LastRuleIs ==
    ASSUME file \in Seq(Lines), NEW h, NEW j \in About(h, Len(file)),
           \A k \in About(h, Len(file)) : k <= j
    PROVE  LastRule(h) = RuleOf(file[j])
<1> DEFINE at == {k \in DOMAIN file : file[k].kind = "domain" /\ Lowered(file[k].host) = h}
<1>1. at = About(h, Len(file)) /\ \A k \in at : k \in Int
  BY DEF About
<1>2. LastRule(h) = RuleOf(file[CHOOSE l \in at : \A k \in at : k <= l])
  BY DEF LastRule
<1> HIDE DEF at
<1>3. (CHOOSE l \in at : \A k \in at : k <= l) = j
  BY <1>1
<1> QED BY <1>2, <1>3

(* A name that went past its parents has none with a line.                 *)
LEMMA NoNearest ==
    ASSUME IInv, pc \in {"resolve", "key", "cidr", "route", "search"},
           UNCHANGED <<file, host>>
    PROVE  /\ NameRule'
           /\ pc' \in {"resolve", "key", "cidr", "route", "search"} /\ host.kind = "name" =>
                  Nearest(host.name)' = None
           /\ pc' \notin {"name", "resolve"} => NameInv'
<1>1. host.kind = "name" => Nearest(host.name) = None
  BY DEF IInv, NameInv
<1>2. Nearest(host.name)' = Nearest(host.name)
  BY DEF Nearest
<1> QED BY <1>1, <1>2 DEF NameRule, NameInv
LEMMA AskHolds == ASSUME IInv, NEW h \in Hosts, NEW s \in BOOLEAN, Ask(h, s) PROVE IInv'
<1>1. /\ pc = "ready" /\ host' = h /\ safe' = s /\ answer' = None /\ suffix' = h.name
      /\ ip' = IF h.kind = "name" THEN None ELSE h
      /\ pc' = IF h.kind = "name" THEN "name" ELSE "key"
      /\ UNCHANGED <<file, domain, cidr, routeV4, i, todo, op, lst, start, end>>
  BY DEF Ask
<1>2. h \in Host /\ h.kind \in {"name", "v4", "v6"} /\ h.name \in Seq(Label)
  BY InputAssumption DEF Host
<1>3. ~OnLoad /\ ~OnLoad' /\ pc' \in {"name", "key"}
  BY <1>1 DEF OnLoad
<1>4. TypeOK'
  BY <1>1, <1>3 DEF IInv, TypeOK
<1>5. LookupInv' /\ SearchMisses' /\ NameRule'
  BY <1>1, <1>3 DEF LookupInv, SearchMisses, NameRule, OnLoad
<1>6. NameInv'
  <2>1. CASE h.kind = "name"
    <3>1. [h EXCEPT !.name = h.name] = h
      BY <1>2 DEF Host
    <3>2. h.name = SubSeq(h.name, 1, Len(h.name)) /\ Len(h.name) \in Nat
      BY <1>2
    <3>3. 1 \in 1 .. Len(h.name) + 1 /\ 1 .. 1 - 1 = {}
      BY <3>2
    <3> QED BY <1>1, <2>1, <3>1, <3>2, <3>3 DEF NameInv
  <2>2. CASE h.kind # "name"
    BY <1>1, <2>2 DEF NameInv
  <2> QED BY <2>1, <2>2
<1> QED BY <1>1, <1>3, <1>4, <1>5, <1>6, LookupRest DEF IInv

LEMMA LookupNameHolds == ASSUME IInv, LookupName PROVE IInv'
<1> DEFINE key == [host EXCEPT !.name = suffix]
           n == Len(host.name)
<1>1. /\ pc = "name"
      /\ UNCHANGED <<file, domain, cidr, routeV4, i, todo, op, lst, host, safe, ip, start, end>>
  BY DEF LookupName
<1>2. \/ domain[key] # None /\ Find(domain[key]) /\ suffix' = suffix
      \/ /\ domain[key] = None /\ Len(suffix) > 1
         /\ suffix' = Tail(suffix) /\ UNCHANGED <<pc, answer>>
      \/ /\ domain[key] = None /\ ~(Len(suffix) > 1)
         /\ pc' = IF safe THEN "resolve" ELSE "ready"
         /\ UNCHANGED <<suffix, answer>>
  BY DEF LookupName, Parents
<1>3. /\ host \in Hosts /\ host.kind = "name" /\ key \in Hosts /\ file \in Seq(Lines)
      /\ domain \in [Hosts -> Ops \cup {None}]
  BY <1>1 DEF IInv, LookupInv, NameInv, TypeOK, OnLoad
<1>4. PICK m \in 1 .. n + 1 :
          /\ suffix = SubSeq(host.name, m, n)
          /\ m = 1 \/ m <= n
          /\ \A k \in 1 .. m - 1 : About(Parent(host, k), Len(file)) = {}
  BY <1>1 DEF IInv, NameInv
<1>5. /\ host \in Host /\ host.ip = 0 /\ host.name \in Seq(Label) /\ n \in Nat
      /\ key = Parent(host, m)
  <2>1. host \in Host /\ host.ip = 0
    BY <1>3, InputAssumption
  <2>2. host.name \in Seq(Label) /\ host = [kind |-> "name", name |-> host.name, ip |-> 0]
    BY <1>3, <2>1 DEF Host
  <2>3. [host EXCEPT !.name = suffix] = [kind |-> "name", name |-> suffix, ip |-> 0]
    BY <2>2
  <2> QED BY <1>4, <2>1, <2>2, <2>3 DEF Parent
<1>6. Len(suffix) = n - m + 1
  BY <1>4, <1>5
<1>7. Read = Len(file) /\ Len(file) \in Nat
  BY <1>1, <1>3 DEF Read
<1>8. IF About(key, Len(file)) = {} THEN domain[key] = None
      ELSE \E j \in About(key, Len(file)) : /\ \A k \in About(key, Len(file)) : k <= j
                                             /\ domain[key] = RuleOf(file[j])
  BY <1>3, <1>7 DEF IInv, DomainInv
<1> HIDE DEF key
<1>9. ~OnLoad /\ ~OnLoad'
  <2>1. pc' \in {"name", "resolve", "ready"}
    BY <1>1, <1>2 DEF Find
  <2> QED BY <1>1, <2>1 DEF OnLoad
<1>10. CASE domain[key] # None /\ Find(domain[key]) /\ suffix' = suffix
  <2>1. pc' = "ready" /\ answer' = domain[key] /\ answer' \in Ops
    BY <1>3, <1>10 DEF Find
  <2>2. TypeOK' /\ LookupInv' /\ NameInv' /\ SearchMisses'
    BY <1>1, <2>1 DEF IInv, TypeOK, LookupInv, NameInv, SearchMisses, OnLoad
  <2>3. Nearest(host.name) # None => answer' = LastRule(Nearest(host.name))
    <3>1. About(key, Len(file)) # {}
      BY <1>8, <1>10
    <3>2. CASE m = n + 1
      <4>1. n = 0
        BY <1>4, <1>5, <3>2
      <4> QED BY <1>3, <4>1, NearestNone
    <3>3. CASE m # n + 1
      <4>1. m \in 1 .. n
        BY <1>4, <1>5, <3>3
      <4>2. Nearest(host.name) = key
        BY <1>3, <1>4, <1>5, <3>1, <4>1, NearestIs
      <4>3. PICK j \in About(key, Len(file)) : /\ \A k \in About(key, Len(file)) : k <= j
                                               /\ domain[key] = RuleOf(file[j])
        BY <1>8, <3>1
      <4>4. LastRule(key) = RuleOf(file[j])
        BY <1>3, <4>3, LastRuleIs
      <4> QED BY <2>1, <4>2, <4>3, <4>4
    <3> QED BY <3>2, <3>3
  <2>4. NameRule'
    <3>1. Nearest(host.name)' = Nearest(host.name)
          /\ LastRule(Nearest(host.name))' = LastRule(Nearest(host.name))
      BY <1>1 DEF Nearest, LastRule
    <3> QED BY <1>1, <2>3, <3>1 DEF NameRule
  <2> QED BY <1>1, <1>9, <2>2, <2>4, LookupRest DEF IInv
<1>11. CASE /\ domain[key] = None /\ Len(suffix) > 1
            /\ suffix' = Tail(suffix) /\ UNCHANGED <<pc, answer>>
  <2>1. TypeOK' /\ LookupInv' /\ SearchMisses' /\ NameRule'
    BY <1>1, <1>11 DEF IInv, TypeOK, LookupInv, SearchMisses, NameRule, OnLoad
  <2>2. m + 1 \in 1 .. n /\ m + 1 \in 1 .. n + 1
    BY <1>4, <1>5, <1>6, <1>11
  <2>3. suffix' = SubSeq(host.name, m + 1, n)
    BY <1>4, <1>5, <1>11, <2>2
  <2>4. [host EXCEPT !.name = suffix'] \in Hosts
    <3>1. key.name = suffix /\ [key EXCEPT !.name = Tail(@)] = [host EXCEPT !.name = Tail(suffix)]
      BY <1>5 DEF Host, key
    <3>2. [key EXCEPT !.name = Tail(@)] \in Hosts
      BY <1>3, <1>11, <3>1, InputAssumption
    <3> QED BY <1>11, <3>1, <3>2
  <2>5. About(key, Len(file)) = {}
    BY <1>8, <1>11, RuleIsOp
  <2>6. \A k \in 1 .. (m + 1) - 1 : About(Parent(host, k), Len(file)) = {}
    BY <1>4, <1>5, <2>2, <2>5
  <2>7. NameInv'
    <3>1. \E l \in 1 .. n + 1 : /\ suffix' = SubSeq(host.name, l, n)
                                /\ l = 1 \/ l <= n
                                /\ \A k \in 1 .. l - 1 : About(Parent(host, k), Len(file)) = {}
      BY <1>5, <2>2, <2>3, <2>6
    <3> QED BY <1>1, <1>3, <1>11, <2>4, <3>1 DEF NameInv, About
  <2> QED BY <1>1, <1>9, <2>1, <2>7, LookupRest DEF IInv
<1>12. CASE /\ domain[key] = None /\ ~(Len(suffix) > 1)
            /\ pc' = IF safe THEN "resolve" ELSE "ready"
            /\ UNCHANGED <<suffix, answer>>
  <2>1. pc' \in {"resolve", "ready"}
    BY <1>12
  <2>2. TypeOK' /\ LookupInv' /\ SearchMisses'
    BY <1>1, <1>3, <1>12, <2>1 DEF IInv, TypeOK, LookupInv, SearchMisses, OnLoad
  <2>3. \A k \in 1 .. n : About(Parent(host, k), Len(file)) = {}
    <3>1. About(key, Len(file)) = {}
      BY <1>8, <1>12, RuleIsOp
    <3>2. \A k \in 1 .. n : k \in 1 .. m - 1 \/ k = m
      BY <1>4, <1>5, <1>6, <1>12
    <3> QED BY <1>4, <1>5, <3>1, <3>2
  <2>4. Nearest(host.name) = None
    BY <1>3, <2>3, NearestNone
  <2>5. Nearest(host.name)' = None
    BY <1>1, <2>4 DEF Nearest
  <2>6. NameInv' /\ NameRule'
    BY <1>1, <1>3, <2>1, <2>5 DEF NameInv, NameRule
  <2> QED BY <1>1, <1>9, <2>2, <2>6, LookupRest DEF IInv
<1> QED BY <1>2, <1>10, <1>11, <1>12 DEF key

LEMMA ResolveHolds == ASSUME IInv, Resolve PROVE IInv'
<1>1. /\ pc = "resolve" /\ pc' \in {"ready", "key"}
      /\ UNCHANGED <<file, domain, cidr, routeV4, i, todo, op, lst, host, safe, suffix,
                     start, end, answer>>
      /\ ip' \in Hosts \cup {None} /\ (pc' = "key" => ip' \in Hosts)
  BY DEF Resolve, IInv, TypeOK
<1>2. ~OnLoad /\ ~OnLoad'
  BY <1>1 DEF OnLoad
<1>3. TypeOK' /\ LookupInv' /\ SearchMisses'
  BY <1>1 DEF IInv, TypeOK, LookupInv, SearchMisses, OnLoad
<1>4. NameInv' /\ NameRule'
  BY <1>1, NoNearest
<1> QED BY <1>1, <1>2, <1>3, <1>4, LookupRest DEF IInv

LEMMA LookupKeyHolds == ASSUME IInv, LookupKey PROVE IInv'
<1>1. /\ pc = "key"
      /\ UNCHANGED <<file, domain, cidr, routeV4, i, op, lst, host, safe, suffix, ip,
                     start, end>>
      /\ \/ /\ pc' = "ready" /\ domain[host] # None /\ answer' = domain[host] /\ todo' = todo
         \/ pc' \in {"route", "cidr"} /\ answer' = answer /\ todo' = Ops
  BY DEF LookupKey, Find
<1>2. ~OnLoad /\ ~OnLoad'
  BY <1>1 DEF OnLoad
<1>3. host \in Hosts /\ domain \in [Hosts -> Ops \cup {None}]
  BY <1>1, <1>2 DEF IInv, LookupInv, TypeOK
<1>4. TypeOK' /\ LookupInv' /\ SearchMisses'
  BY <1>1, <1>3 DEF IInv, TypeOK, LookupInv, SearchMisses, OnLoad
<1>5. NameInv' /\ NameRule'
  BY <1>1, NoNearest
<1> QED BY <1>1, <1>2, <1>4, <1>5, LookupRest DEF IInv

LEMMA LookupV6Holds == ASSUME IInv, LookupV6 PROVE IInv'
<1>1. /\ pc = "cidr" /\ pc' = "ready" /\ answer' \in Ops \cup {None}
      /\ UNCHANGED <<file, domain, cidr, routeV4, i, todo, op, lst, host, safe, suffix, ip,
                     start, end>>
  BY DEF LookupV6, Find, IInv, TypeOK
<1>2. ~OnLoad /\ ~OnLoad'
  BY <1>1 DEF OnLoad
<1>3. TypeOK' /\ LookupInv' /\ SearchMisses'
  BY <1>1 DEF IInv, TypeOK, LookupInv, SearchMisses, OnLoad
<1>4. NameInv' /\ NameRule'
  BY <1>1, NoNearest
<1> QED BY <1>1, <1>2, <1>3, <1>4, LookupRest DEF IInv

LEMMA NextRouteHolds == ASSUME IInv, NextRoute PROVE IInv'
<1>1. /\ pc = "route" /\ pc' \in {"ready", "search"}
      /\ UNCHANGED <<file, domain, cidr, routeV4, i, lst, host, safe, suffix, ip, answer>>
  BY DEF NextRoute
<1>2. ~OnLoad /\ ~OnLoad'
  BY <1>1 DEF OnLoad
<1>3. NameInv' /\ NameRule'
  BY <1>1, NoNearest
<1>4. CASE todo = {}
  <2>1. pc' = "ready" /\ UNCHANGED <<todo, op, start, end>>
    BY <1>4 DEF NextRoute
  <2>2. TypeOK' /\ LookupInv' /\ SearchMisses'
    BY <1>1, <2>1 DEF IInv, TypeOK, LookupInv, SearchMisses, OnLoad
  <2> QED BY <1>1, <1>2, <1>3, <2>2, LookupRest DEF IInv
<1>5. CASE todo # {}
  <2>1. PICK o \in todo : /\ op' = o /\ todo' = todo \ {o} /\ start' = 0
                          /\ end' = Len(routeV4[o]) - 1 /\ pc' = "search"
    BY <1>5 DEF NextRoute
  <2>2. o \in Ops /\ todo \subseteq Ops /\ Len(file) \in Nat /\ Len(file) <= MaxLines
    BY DEF IInv, TypeOK
  <2> DEFINE n == Len(routeV4[o])
  <2>3. n \in Nat /\ n <= MaxLines /\ DOMAIN routeV4[o] = 1 .. n
    BY <1>2, <2>2, RoutesHold
  <2>4. TypeOK'
    <3>1. start' \in 0 .. MaxLines /\ end' \in -1 .. MaxLines
      BY <2>1, <2>3
    <3> QED BY <1>1, <2>1, <2>2, <3>1 DEF IInv, TypeOK
  <2>5. LookupInv'
    <3>1. /\ start' \in 0 .. n /\ end' \in -1 .. n - 1
          /\ \A k \in DOMAIN routeV4[o] : ~(k - 1 < start') /\ ~(k - 1 > end')
      BY <2>1, <2>3
    <3>2. host \in Hosts /\ ip \in Hosts
      BY <1>1, <1>2 DEF IInv, LookupInv
    <3> QED BY <1>1, <2>1, <2>2, <3>1, <3>2 DEF LookupInv
  <2>6. SearchMisses'
    <3>1. \A q \in Ops \ todo : V4Lines(q, ip.ip) = {}
      BY <1>1 DEF IInv, SearchMisses
    <3>2. Ops \ (todo' \cup (IF pc' = "search" THEN {op'} ELSE {})) = Ops \ todo
      BY <2>1
    <3>3. \A q, a : V4Lines(q, a)' = V4Lines(q, a)
      BY <1>1 DEF V4Lines
    <3> QED BY <1>1, <3>1, <3>2, <3>3 DEF SearchMisses
  <2> QED BY <1>1, <1>2, <1>3, <2>4, <2>5, <2>6, LookupRest DEF IInv
<1> QED BY <1>4, <1>5
(* The half of the list that is left behind does not hold the address.     *)
LEMMA HalfMisses ==
    ASSUME NEW list \in Seq(CIDRRange), NonEmpty(list), Apart(list),
           NEW m \in DOMAIN list, NEW a \in Addr, ~Covers(list[m], a)
    PROVE  /\ a > list[m].Start => \A k \in DOMAIN list : k <= m => ~Covers(list[k], a)
           /\ ~(a > list[m].Start) => \A k \in DOMAIN list : k >= m => ~Covers(list[k], a)
<1>1. a \in Int /\ DOMAIN list = 1 .. Len(list) /\ Len(list) \in Nat
  BY SizePositive DEF Addr
<1>2. \A k \in DOMAIN list : list[k].Start \in Int /\ list[k].End \in Int
  BY RangeBounds
<1>3. list[m].Start <= list[m].End
  BY DEF NonEmpty
<1>4. \A k \in DOMAIN list : k < m => list[k].End < list[m].Start
  BY DEF Apart
<1>5. \A k \in DOMAIN list : m < k => list[m].End < list[k].Start
  BY DEF Apart
<1> QED BY <1>1, <1>2, <1>3, <1>4, <1>5 DEF Covers

LEMMA SearchHolds == ASSUME IInv, Search PROVE IInv'
<1> DEFINE list == routeV4[op]
           mid  == (start + end) \div 2
           a    == ip.ip
           n    == Len(list)
<1>1. /\ pc = "search"
      /\ UNCHANGED <<file, domain, cidr, routeV4, i, todo, op, lst, host, safe, suffix, ip>>
  BY DEF Search
<1>2. IF start > end THEN pc' = "route" /\ UNCHANGED <<start, end, answer>>
      ELSE IF list[mid + 1].Start <= a /\ a <= list[mid + 1].End
           THEN answer' = op /\ pc' = "ready" /\ UNCHANGED <<start, end>>
           ELSE /\ pc' = "search" /\ answer' = answer
                /\ IF a > list[mid + 1].Start THEN start' = mid + 1 /\ end' = end
                                              ELSE end' = mid - 1 /\ start' = start
  BY <1>1 DEF Search, Find, Halve
<1>3. ~OnLoad /\ ~OnLoad'
  <2>1. pc' \in {"route", "ready", "search"}
    BY <1>2
  <2> QED BY <1>1, <2>1 DEF OnLoad
<1>4. /\ host \in Hosts /\ ip \in Hosts /\ op \in Ops \ todo
      /\ start \in 0 .. n /\ end \in -1 .. n - 1
      /\ \A k \in DOMAIN list : k - 1 < start \/ k - 1 > end => ~Covers(list[k], a)
  BY <1>1, <1>3 DEF IInv, LookupInv
<1>5. /\ n <= Len(file) /\ list \in Seq(CIDRRange) /\ NonEmpty(list) /\ Apart(list)
      /\ \A b \in Addr : Holds(list, b) <=> V4Lines(op, b) # {}
  BY <1>3, <1>4, RoutesHold
<1>6. /\ a \in Addr /\ n \in Nat /\ DOMAIN list = 1 .. n /\ n <= MaxLines
      /\ MaxLines \in Nat
  <2>1. Len(file) \in Nat /\ Len(file) <= MaxLines
    BY DEF IInv, TypeOK
  <2>2. a \in Addr
    BY <1>4, InputAssumption DEF Host
  <2>3. n \in Nat /\ DOMAIN list = 1 .. n
    BY <1>5
  <2> QED BY <1>5, <2>1, <2>2, <2>3
<1>7. \A q, b : V4Lines(q, b)' = V4Lines(q, b)
  BY <1>1 DEF V4Lines
<1>8. \A q \in Ops \ (todo \cup {op}) : V4Lines(q, a) = {}
  BY <1>1 DEF IInv, SearchMisses
<1> HIDE DEF mid, a, n
<1>9. CASE start > end
  <2>1. pc' = "route" /\ UNCHANGED <<start, end, answer>>
    BY <1>2, <1>9
  <2>2. TypeOK' /\ LookupInv'
    BY <1>1, <1>4, <2>1 DEF IInv, TypeOK, LookupInv
  <2>3. \A k \in DOMAIN list : ~Covers(list[k], a)
    BY <1>4, <1>6, <1>9
  <2>4. V4Lines(op, a) = {}
    BY <1>5, <1>6, <2>3 DEF Holds
  <2>5. SearchMisses'
    <3>1. \A q \in Ops \ todo : V4Lines(q, a) = {}
      BY <1>8, <2>4
    <3> QED BY <1>1, <1>7, <2>1, <3>1 DEF SearchMisses, a
  <2>6. NameInv' /\ NameRule'
    BY <1>1, <2>1, NoNearest
  <2> QED BY <1>1, <1>3, <2>2, <2>5, <2>6, LookupRest DEF IInv
<1>10. CASE ~(start > end) /\ Covers(list[mid + 1], a)
  <2>1. answer' = op /\ pc' = "ready" /\ UNCHANGED <<start, end>>
    BY <1>2, <1>10 DEF Covers
  <2>2. TypeOK' /\ LookupInv' /\ SearchMisses'
    BY <1>1, <1>4, <2>1 DEF IInv, TypeOK, LookupInv, SearchMisses
  <2>3. NameInv' /\ NameRule'
    BY <1>1, <2>1, NoNearest
  <2> QED BY <1>1, <1>3, <2>2, <2>3, LookupRest DEF IInv
<1>11. CASE ~(start > end) /\ ~Covers(list[mid + 1], a)
  <2>1. /\ pc' = "search" /\ answer' = answer
        /\ IF a > list[mid + 1].Start THEN start' = mid + 1 /\ end' = end
                                      ELSE end' = mid - 1 /\ start' = start
    BY <1>2, <1>11 DEF Covers
  <2>2. start <= mid /\ mid <= end /\ mid \in Nat
    BY <1>4, <1>6, <1>11 DEF mid
  <2>3. mid + 1 \in DOMAIN list
    BY <1>4, <1>6, <2>2
  <2>4. /\ a > list[mid + 1].Start =>
               \A k \in DOMAIN list : k <= mid + 1 => ~Covers(list[k], a)
        /\ ~(a > list[mid + 1].Start) =>
               \A k \in DOMAIN list : k >= mid + 1 => ~Covers(list[k], a)
    BY <1>5, <1>6, <1>11, <2>3, HalfMisses
  <2>5. /\ start' \in 0 .. n /\ end' \in -1 .. n - 1
        /\ \A k \in DOMAIN list : k - 1 < start' \/ k - 1 > end' => ~Covers(list[k], a)
    <3>1. CASE a > list[mid + 1].Start
      <4>1. start' = mid + 1 /\ end' = end
        BY <2>1, <3>1
      <4> QED BY <1>4, <1>6, <2>2, <2>4, <3>1, <4>1
    <3>2. CASE ~(a > list[mid + 1].Start)
      <4>1. end' = mid - 1 /\ start' = start
        BY <2>1, <3>2
      <4> QED BY <1>4, <1>6, <2>2, <2>4, <3>2, <4>1
    <3> QED BY <3>1, <3>2
  <2>6. TypeOK'
    <3>1. start' \in 0 .. MaxLines /\ end' \in -1 .. MaxLines
      BY <1>6, <2>5
    <3> QED BY <1>1, <2>1, <3>1 DEF IInv, TypeOK
  <2>7. LookupInv'
    BY <1>1, <1>4, <2>1, <2>5 DEF LookupInv, n, a
  <2>8. SearchMisses'
    BY <1>1, <1>7, <1>8, <2>1 DEF SearchMisses, a
  <2>9. NameInv' /\ NameRule'
    BY <1>1, <2>1, NoNearest
  <2> QED BY <1>1, <1>3, <2>6, <2>7, <2>8, <2>9, LookupRest DEF IInv
<1> QED BY <1>9, <1>10, <1>11

-----------------------------------------------------------------------------
LEMMA StutterHolds == ASSUME IInv, UNCHANGED vars PROVE IInv'
<1>1. TypeOK' /\ LoadInv' /\ LookupInv'
  BY DEF vars, IInv, TypeOK, LoadInv, LookupInv, OnLoad
<1>2. RouteInv' /\ MergeInv'
  BY DEF vars, IInv, RouteInv, MergeInv, IsMerged, Exact, LineHolds, Read
<1>3. DomainInv'
  BY DEF vars, IInv, DomainInv, About, Read
<1>4. NameInv'
  <2>1. Nearest(host.name)' = Nearest(host.name)
    BY DEF vars, Nearest
  <2> QED BY <2>1 DEF vars, IInv, NameInv, About
<1>5. SearchMisses'
  BY DEF vars, IInv, SearchMisses, V4Lines
<1>6. NameRule'
  <2>1. Nearest(host.name)' = Nearest(host.name)
        /\ LastRule(Nearest(host.name))' = LastRule(Nearest(host.name))
    BY DEF vars, Nearest, LastRule
  <2> QED BY <2>1 DEF vars, IInv, NameRule
<1> QED BY <1>1, <1>2, <1>3, <1>4, <1>5, <1>6 DEF IInv

LEMMA NextHolds == IInv /\ [Next]_vars => IInv'
<1> SUFFICES ASSUME IInv, [Next]_vars PROVE IInv'
  OBVIOUS
<1>1. CASE UNCHANGED vars
  BY <1>1, StutterHolds
<1>2. CASE Parse \/ Parsed \/ Sort \/ Merge \/ Loaded
  BY <1>2, ParseHolds, ParsedHolds, SortHolds, MergeHolds, LoadedHolds
<1>3. CASE \E h \in Hosts, s \in BOOLEAN : Ask(h, s)
  BY <1>3, AskHolds
<1>4. CASE Lookup
  BY <1>4, LookupNameHolds, ResolveHolds, LookupKeyHolds, LookupV6Holds, NextRouteHolds,
     SearchHolds DEF Lookup
<1> QED BY <1>1, <1>2, <1>3, <1>4 DEF Next

LEMMA Invariance == Spec => []IInv
BY InitIInv, NextHolds, PTL DEF Spec

(* onLoad and CheckAndGetRuleOptional: every variable keeps its type, and  *)
(* the interval of the binary search stays within the length of the file.  *)
THEOREM TypeCorrect == Spec => []TypeOK
<1>1. IInv => TypeOK
  BY DEF IInv
<1> QED BY <1>1, Invariance, PTL

(* sortAndMerge: when the file is loaded, the ranges of a rule are         *)
(* disjoint, in order, and hold exactly the addresses of its lines.        *)
THEOREM RoutesAreExact == Spec => []RoutesExact
<1>1. IInv => RoutesExact
  <2> SUFFICES ASSUME IInv, ~OnLoad, NEW o \in Ops
               PROVE  /\ \A k \in 1 .. Len(routeV4[o]) - 1 :
                             routeV4[o][k].End < routeV4[o][k + 1].Start
                      /\ \A a \in Addr : (\E k \in DOMAIN routeV4[o] : Covers(routeV4[o][k], a))
                                             <=> V4Lines(o, a) # {}
    BY DEF RoutesExact
  <2> DEFINE s == routeV4[o]
  <2>1. s \in Seq(CIDRRange) /\ Apart(s) /\ \A a \in Addr : Holds(s, a) <=> V4Lines(o, a) # {}
    BY RoutesHold
  <2> HIDE DEF s
  <2>2. ASSUME NEW k \in 1 .. Len(s) - 1 PROVE s[k].End < s[k + 1].Start
    <3>1. k \in DOMAIN s /\ k + 1 \in DOMAIN s /\ k < k + 1
      BY <2>1
    <3> QED BY <2>1, <3>1 DEF Apart
  <2> QED BY <2>1, <2>2 DEF Holds, s
<1> QED BY <1>1, Invariance, PTL

(* checkIPInRangeList: the binary search gives a rule up only when no line *)
(* of the rule holds the address.                                          *)
THEOREM SearchMissesNone == Spec => []SearchMisses
<1>1. IInv => SearchMisses
  BY DEF IInv
<1> QED BY <1>1, Invariance, PTL

(* CheckAndGetRuleOptional: a name has the rule of its nearest configured  *)
(* domain, by the last line of the file about it.                          *)
THEOREM NamesAreRuled == Spec => []NameRule
<1>1. IInv => NameRule
  BY DEF IInv
<1> QED BY <1>1, Invariance, PTL
=============================================================================
