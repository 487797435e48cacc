\* The compiler stops at its exit.
CHECK_DEADLOCK FALSE
SPECIFICATION ScopeSpec
CONSTANTS
  x = x
  y = y
  NoStm = NoStm
  NoInit = NoInit
  Id <- MCId
  types <- MCtypes
  Stm <- MCStm
  Programs <- MCPrograms
INVARIANT UsesAreDominated
