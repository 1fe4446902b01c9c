SPECIFICATION Spec
CONSTANTS
  Width = 8
  MaxMisses = 200
INVARIANT SleepsGrow
