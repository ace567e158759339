SPECIFICATION Spec
CONSTANTS
  N = 4
  Plans <- MCPlans
  Blocks = 1
PROPERTY
  NeverHangs
