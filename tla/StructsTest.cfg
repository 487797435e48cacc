\* The compiler stops at its exit: a finished run has no next step.
CHECK_DEADLOCK FALSE
SPECIFICATION CompilerSpec
CONSTANTS
  A = A
  B = B
  Id <- MCId
  Programs <- StructsTest
INVARIANTS
  DoesNotCrash
