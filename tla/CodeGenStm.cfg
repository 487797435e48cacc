\* The compiler stops after its last function: a finished run has no next step.
CHECK_DEADLOCK FALSE
SPECIFICATION FairSpec
CONSTANTS
  e = e
  c = c
  NoStm = NoStm
  Exp <- MCExp
  CondExp <- MCCondExp
  Stm <- MCStm
  Programs <- MCPrograms
  Outcomes <- MCOutcomes
  Height <- MCHeight
INVARIANTS
  TypeOK
  OpenAtVisit
  OverrunOnlyByBackEdge
  ContextPerScope
  PendingUntouched
  VerifiedMeansSource
  PlainIsVerified
  NoFalseDiagnosis
PROPERTIES
  LeftBlocksFinal
  CompilesToTheEnd
