------------------------------ MODULE MCPodman ------------------------------
(* Podman on a small instance: a pod with an infra container and a second  *)
(* container, of which the cfg keeps the ones it wants.                    *)
EXTENDS Podman, TLC

CONSTANTS c1, c2, c3, p1, n1

MCPodOf == [c \in Ctr |-> IF c = c1 THEN p1 ELSE NoPod]
MCNameOf == [c \in Ctr |-> <<"name", c>>]
MCSubnets == [n \in Net |-> 1]

(* Texts that no two elements share the sum of.                            *)
DistinctBytes(e) ==
    IF "status" \in DOMAIN e THEN 7 + 5 * Cardinality(e.members)
                                  + 16 * Cardinality({m \in e.members : m.run})
    ELSE IF "run" \in DOMAIN e
    THEN (CASE e.id = c1 -> 100 [] e.id = c2 -> 1000 [] OTHER -> 10000) * (IF e.run THEN 2 ELSE 3)
    ELSE IF e.id = n1 THEN 10 ELSE 20
=============================================================================
