CONSTANTS
  w1 = w1
  w2 = w2
  w3 = w3
  dungeon = dungeon
  arena = arena
  world = world
  i1 = i1
  i2 = i2
  i3 = i3
  Workers = {w1, w2, w3}
  BaseMaps = {dungeon, arena, world}
  Instances = {i1, i2, i3}
  Parent <- ParentDef
  NoMap = NoMap
SPECIFICATION FairSpec
INVARIANTS PendingExact Barrier NoDeletedMap NoNullCall
PROPERTIES ImplementsTick UpdateEnds DeactivateEnds
