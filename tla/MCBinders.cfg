CONSTANTS
  Sources <- MCSources
  Syntax <- PostgresSyntax
SPECIFICATION Spec
INVARIANTS
  TypeOK
  NamesAreBound
  MarksAreBound
  CommentsNestAlike
PROPERTY ReadsOn
CHECK_DEADLOCK FALSE
