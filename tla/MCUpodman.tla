------------------------------ MODULE MCUpodman ------------------------------
(* The daemon on a small instance: container c1 in pod p1, container c2 in *)
(* none, of which the cfg keeps the ones it wants.  Their names are w1 and *)
(* w2, that of the pod g1; a text that is an id could be a name as well.   *)
EXTENDS Upodman, TLC

CONSTANTS c1, c2, p1, n1, n2, w1, w2, g1

MCNameOf == [c \in Ctr |-> IF c = c1 THEN w1 ELSE w2]
MCName == {w1, w2, g1} \cup Ctr
MCPodOf == [c \in Ctr |-> IF c = c2 THEN NoPod ELSE p1]
MCSubnets == [n \in Net |-> IF n = n1 THEN 2 ELSE 1]

Exec(a, g, b, t) == [action |-> a, group |-> g, by |-> b, target |-> t]

(* Every action on every kind of thing by name, an id that is found, one   *)
(* that is refused, and one that is found although the group is another.   *)
AllRequests == {Exec(a, g, "name", IF g = "pod" THEN g1 ELSE w1) :
                    a \in {"start", "stop", "restart"}, g \in {"container", "pod"}}
               \cup {Exec("start", "container", "id", c1), Exec("stop", "pod", "id", p1),
                     Exec("stop", "pod", "id", c1)}

TwoCommands == {Exec("stop", "container", "name", w1), Exec("start", "container", "id", c1)}

PodRequests == {Exec("stop", "pod", "id", p1)}

(* Texts that no two elements share the sum of.                            *)
DistinctBytes(e) ==
    IF "status" \in DOMAIN e THEN 7 + 5 * Cardinality(e.members)
                                  + 16 * Cardinality({m \in e.members : m.run})
    ELSE IF "run" \in DOMAIN e
    THEN (IF e.id = c1 THEN 100 ELSE 1000) * (IF e.run THEN 2 ELSE 3)
    ELSE IF e.id = n1 THEN 10 ELSE 20

(* Two networks whose names are anagrams.                                  *)
AnagramBytes(e) == IF "status" \in DOMAIN e \/ "run" \in DOMAIN e THEN DistinctBytes(e) ELSE 10
=============================================================================
