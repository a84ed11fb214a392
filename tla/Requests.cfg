CONSTANTS
  Slots = {s1}
  Names <- McNames
  Lower <- McLower
  Keys <- McKeys
  Lists <- McLists
  Projections <- McProjections
  NULL = NULL
  Garbage = Garbage
  MaxNone = 1
SPECIFICATION Spec
INVARIANTS
  TypeOK
  Wired
  NoneBalanced
  BrokerExpressionKept
  FilterExact
  PropertyFilterExact
