SPECIFICATION Spec
CONSTANTS
  N = 4
  Plans <- MCPlans
  Blocks = 2
INVARIANTS
  DocumentKept
  FreedExact
PROPERTIES
  EventuallyFreed
