---------------------------- MODULE MCMapUpdater ----------------------------
(* MapUpdater on small instances: a MapInstanced with several instances, a   *)
(* second one with a single instance, and an ordinary map.                   *)
EXTENDS MapUpdater, TLC

CONSTANTS w1, w2, w3, dungeon, arena, world, i1, i2, i3

ParentDef == (i1 :> dungeon) @@ (i2 :> dungeon) @@ (i3 :> arena)
=============================================================================
