\* The compiler stops at its exit: a finished run has no next step.
CHECK_DEADLOCK FALSE
SPECIFICATION FairCompilerSpec
CONSTANTS
  A = A
  B = B
  Id <- MCId
  Programs <- MCPrograms
INVARIANTS
  TypeNamesUnique
  MembersComeFirst
  NoNullType
  ErrorsExact
  ContextFaithful
  CodeGenIsPrepared
  CompilerTypeOK
  OneBodyEach
PROPERTIES
  FirstDeclarationStays
  KeepsPromise
  ComesToAnExit
