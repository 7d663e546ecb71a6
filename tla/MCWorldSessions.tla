--------------------------- MODULE MCWorldSessions --------------------------
(* WorldSessions on small instances. *)
EXTENDS WorldSessions, TLC

CONSTANTS a1, a2, a3, s1, s2, s3, s4

\* Account a1 logs in twice, the second time over its own session.
AccountOfDef == (s1 :> a1) @@ (s2 :> a1) @@ (s3 :> a2) @@ (s4 :> a3)

\* Where AccountOfDef is used, the two sessions of a1 are interchangeable.
TwinSymmetry == Permutations({s1, s2})

ThreeAccountOf == (s1 :> a1) @@ (s2 :> a1) @@ (s3 :> a2)
=============================================================================
