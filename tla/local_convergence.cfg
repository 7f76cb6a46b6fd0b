SPECIFICATION Spec
CONSTANTS
  main_c = main_c
  edit1 = edit1
  edit2 = edit2
  errorA = errorA
  errorB = errorB
  Paths <- OnePath
  Contents <- TwoContents
  Original = Original
  Errors <- TwoErrors
  None = None
  MAX_NO_PROGRESS_STREAK = 3
  MAX_IDENTICAL_BUILD_FAILURES = 2
  MAX_STAGNANT_FIX_CYCLES = 2
  MaxTurns = 6
SYMMETRY Alike
CHECK_DEADLOCK FALSE
INVARIANTS TypeOK NoProgressExact BuildFailuresExact StagnationExact
