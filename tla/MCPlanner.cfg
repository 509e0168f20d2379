CONSTANTS
  Config <- Places
  Free <- FreePlaces
  Colliding <- SomeColliding
  Dist <- SomeDist
  Toward <- SomeToward
  Inside <- SomeInside
  IsReversible = FALSE
  Eps = 6
  MaxDist = 8
  Times = 2
  MaxPoints = 2
  InterpolationDistance = 1
  MaxPath = 4
  MaxCalls = 2
SPECIFICATION Spec
INVARIANTS
  TypeOK
  PathSound
  CollisionFree
PROPERTY Returns
CHECK_DEADLOCK FALSE
