\* The compiler stops with a value, an error or a crash.
CHECK_DEADLOCK FALSE
SPECIFICATION Spec
CONSTANTS
  NoExp = NoExp
  Id <- MCId
  types <- MCtypes
  symbols <- MCsymbols
  functions <- MCfunctions
  Exp <- MCExp
  Height <- MCHeight
  Half = 4
  Depth = 8
  NaN = NaN
  Rounded <- MCRounded
  Programs <- MCPrograms
INVARIANT
  UnreachableIsUnreached
