\* The compiler stops after its last function: a finished run has no next step.
CHECK_DEADLOCK FALSE
SPECIFICATION Spec
CONSTANTS
  e = e
  c = c
  NoStm = NoStm
  Exp <- MCExp
  CondExp <- MCCondExp
  Stm <- WhileStm
  Programs <- StaleProgram
  Outcomes <- MCOutcomes
  Height <- MCHeight
INVARIANTS
  VerifierAccepts
