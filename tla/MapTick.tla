------------------------------ MODULE MapTick ------------------------------
(***************************************************************************)
(* What the map layer promises the world thread, whatever number of worker *)
(* threads shares the work: MapManager::Update handles every map that      *)
(* exists exactly once, and only then the delayed part begins; maps appear *)
(* only between two updates; a map is destroyed only instead of being      *)
(* handled.                                                                *)
(***************************************************************************)
CONSTANT Maps

VARIABLES stage, maps, handled

tickVars == <<stage, maps, handled>>

Init == stage = "idle" /\ maps = {} /\ handled = {}

Create(m) ==
  /\ stage = "idle"
  /\ m \notin maps
  /\ maps' = maps \cup {m}
  /\ UNCHANGED <<stage, handled>>

Begin ==
  /\ stage = "idle"
  /\ stage' = "updating"
  /\ handled' = {}
  /\ UNCHANGED maps

\* The map's Update runs, or it is passed over because it cannot be unloaded.
Handle(m) ==
  /\ stage = "updating"
  /\ m \in maps \ handled
  /\ handled' = handled \cup {m}
  /\ UNCHANGED <<stage, maps>>

Destroy(m) ==
  /\ stage = "updating"
  /\ m \in maps \ handled
  /\ maps' = maps \ {m}
  /\ UNCHANGED <<stage, handled>>

BeginDelayed ==
  /\ stage = "updating"
  /\ handled = maps
  /\ stage' = "delayed"
  /\ UNCHANGED <<maps, handled>>

EndDelayed ==
  /\ stage = "delayed"
  /\ stage' = "idle"
  /\ UNCHANGED <<maps, handled>>

Unload ==
  /\ stage = "idle"
  /\ stage' = "stopped"
  /\ maps' = {}
  /\ UNCHANGED handled

Next ==
  \/ \E m \in Maps : Create(m) \/ Handle(m) \/ Destroy(m)
  \/ Begin \/ BeginDelayed \/ EndDelayed \/ Unload

Spec == Init /\ [][Next]_tickVars
=============================================================================
