------------------------------ MODULE Journal -------------------------------
(***************************************************************************)
(* What the callers of the database pool rely on: an operation reaches the *)
(* database as a whole, its statements in the order in which they were     *)
(* appended, once, or not at all.                                          *)
(***************************************************************************)
EXTENDS Sequences

CONSTANTS
  Ops,            \* operations handed to the pool
  Statements(_)   \* the statements of an operation, in order

VARIABLES
  journal,   \* the statements that took effect, in order
  settled    \* operations whose fate is decided

vars == <<journal, settled>>

Init == journal = <<>> /\ settled = {}

Commit(o) ==
  /\ o \notin settled
  /\ journal' = journal \o Statements(o)
  /\ settled' = settled \cup {o}

Discard(o) ==
  /\ o \notin settled
  /\ settled' = settled \cup {o}
  /\ UNCHANGED journal

\* The pool is closed: what is still queued is discarded together.
DiscardAll(S) ==
  /\ S \cap settled = {}
  /\ settled' = settled \cup S
  /\ UNCHANGED journal

Next ==
  \/ \E o \in Ops : Commit(o) \/ Discard(o)
  \/ \E S \in SUBSET Ops : DiscardAll(S)

Spec == Init /\ [][Next]_vars
=============================================================================
