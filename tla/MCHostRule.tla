---------------------------- MODULE MCHostRule ----------------------------
(* HostRule for TLC: addresses of three bits; names of two labels, one of  *)
(* them in upper case                                                      *)
EXTENDS HostRule

Name(labels) == [kind |-> "name", name |-> labels, ip |-> 0]
V4(n) == [kind |-> "v4", name |-> <<>>, ip |-> n]
V6(n) == [kind |-> "v6", name |-> <<>>, ip |-> n]
ALine(kind, h, p, text) == [kind |-> kind, host |-> h, prefix |-> p, text |-> text]

MCLower == [l \in {"com", "a", "A"} |-> IF l = "A" THEN "a" ELSE l]

(* Every address is asked for, names and a v6 address too.  The v4 blocks  *)
(* nest, end together and stand apart, one is written with an address in  *)
(* its middle; a name, its parent and an address have lines of their own. *)
MCHosts == {V4(n) : n \in 0 .. 7}
               \cup {Name(<<"com">>), Name(<<"a", "com">>), Name(<<"A", "com">>), V6(2)}
MCLines ==
    {ALine("v4", V4(0), 1, "direct"), ALine("v4", V4(3), 3, "direct"),
     ALine("v4", V4(5), 2, "direct"), ALine("v4", V4(2), 0, "block"),
     ALine("domain", Name(<<"com">>), 0, "proxy"),
     ALine("domain", Name(<<"com">>), 0, "direct"),
     ALine("domain", Name(<<"A", "com">>), 0, "other"),
     ALine("domain", V4(1), 0, "proxy"), ALine("v6", V6(2), 1, "block")}
=============================================================================
