--------------------------- MODULE MCDatabasePool ---------------------------
(* DatabasePool on small instances: a transaction of two statements and one  *)
(* of a single statement, a statement of its own, and a query whose callback *)
(* asks another.                                                             *)
EXTENDS DatabasePool, TLC

CONSTANTS t1, t2, e1, q1, q2

KindDef == [o \in Ops |-> CASE o \in {t1, t2} -> "transaction"
                            [] o = e1 -> "execute"
                            [] o \in {q1, q2} -> "query"]
SizeDef == [o \in Ops |-> IF o = t1 THEN 2 ELSE 1]
FollowerDef == [o \in Ops |-> IF o = q1 /\ q2 \in Ops THEN q2 ELSE None]
=============================================================================
