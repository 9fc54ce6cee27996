------------------------------ MODULE MCRegistry ------------------------------
(***************************************************************************)
(* Small instances of Registry for TLC.                                    *)
(***************************************************************************)
EXTENDS Registry

CONSTANTS k1, k2, k3, k4, p1, p2, a1, a2, n1, n2, c1, c2, g1, g2

Payload(p, k, a) == [project |-> p, parent |-> k, agent |-> a]
ClientPayloads == {Payload(p1, k, NoAgent) : k \in {NoTask, k1, k2, k3}}
                    \cup {Payload(p2, k1, NoAgent), Payload(p1, k1, a1), Payload(p1, NoTask, a1)}

Rooted(p) == [project |-> p, parent |-> NoTask, agent |-> NoAgent]
Under(k, p) == [project |-> p, parent |-> k, agent |-> NoAgent]
Table(r1, r2) == [t \in Tasks |-> IF t = k1 THEN r1 ELSE IF t = k2 THEN r2 ELSE NoRow]

\* One task, a cycle of two tasks, and a parent that does not exist.
FoundTables == {Table(Rooted(p1), NoRow),
                Table(Under(k2, p1), Under(k1, p1)),
                Table(Under(k2, p1), NoRow)}
=============================================================================
