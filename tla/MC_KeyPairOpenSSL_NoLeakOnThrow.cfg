\* NoLeakOnThrow, on the same instance.
CONSTANTS
  MaxQueue = 2
  MaxPush = 2
  NameSizes <- MCNameSizes
SPECIFICATION Spec
INVARIANTS
  NoLeakOnThrow
