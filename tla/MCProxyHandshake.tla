--------------------------- MODULE MCProxyHandshake ---------------------------
(* ProxyHandshake for TLC: each type of address, a name so short that its  *)
(* answer has nine bytes, a wrong type, and a port above 32767             *)
EXTENDS ProxyHandshake

MCTargets ==
    {[atyp |-> a, len |-> n, high |-> FALSE] : a \in {IPv4, Domain}, n \in {2}}
    \cup {[atyp |-> Domain, len |-> 4, high |-> TRUE],
          [atyp |-> IPv6, len |-> 0, high |-> FALSE],
          [atyp |-> 9, len |-> 1, high |-> FALSE]}
=============================================================================
