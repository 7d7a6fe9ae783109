SPECIFICATION Spec
CONSTANTS
  None = None
  Activation = 90
  Rearm = 85
  Context <- MCContext
  MinuteLength = 2
  Horizon = 7
  BarFeatures <- MCBarFeatures
  TickFeatures <- MCTickFeatures
INVARIANTS
  EpisodesAreDisjoint
PROPERTIES
  ImplementsScan
  CrossingsAreApart
CHECK_DEADLOCK FALSE
