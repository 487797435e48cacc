\* The compiler stops after the last function or at a crash.
CHECK_DEADLOCK FALSE
SPECIFICATION FairSpec
CONSTANTS
  x = x
  S = S
  NoStm = NoStm
  NoInit = NoInit
  Id <- MCId
  types <- MCtypes
  Stm <- MCStm
  Height <- MCHeight
  Programs <- MCPrograms
INVARIANTS
  TypeOK
  ContextPerScope
  AcceptsExactlyWellTyped
  CrashesOnIllTyped
PROPERTIES
  IsLexicalScope
  ComesToTheEnd
