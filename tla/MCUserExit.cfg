SPECIFICATION Spec
CONSTANTS
  Top = 64
  ArgMax = 16
  Texts = {2, 5}
  ArgvMax = 2
INVARIANTS
  ExitComesBack
CHECK_DEADLOCK FALSE
