--------------------------- MODULE MCLoadBalance ---------------------------
(* LoadBalance with two servers: one of the smallest weight, one heavy      *)
(* enough for the /2, /5 and /10 steps to differ.                           *)
EXTENDS LoadBalance

MCWeight == [a \in Addr |-> IF a = "light" THEN 1 ELSE 10]

(* One server has no "weight" in its JSON, so it is 0.                      *)
MCWeightMissing == [a \in Addr |-> IF a = "light" THEN 0 ELSE 4]
=============================================================================
