SPECIFICATION Spec
CONSTANTS
  Cursors = {c1, c2}
  Capacities = {0, 3, 5}
  Widths = {1, 2, 4}
  Advances = {0, 1, 3}
  Sizes = {0, 2, 3}
  MaxWant = 9
INVARIANTS
  TypeOK
  CopiesInside
  DistanceMeansRoom
  LossRemembered
PROPERTY
  ImplementsStickyEnd
