CONSTANTS
  Ident <- MCIdent
  Columns <- MCColumns
  Params <- MCParams
  Named <- Integer
  QueryType <- Integer
  Sources <- MCSources
SPECIFICATION Spec
INVARIANTS
  TypeOK
  PrecedenceOfSql
  MarksNumbered
  ClassesAreSound
CHECK_DEADLOCK FALSE
