CONSTANTS
  SchemaNames = {s1}
  SetNames = {t1}
  ColNames = {c1}
  EnumNames = {e1}
  SqlTypes = {t}
  EnumValues = {v}
  Null = Null
  MaxTokens = 7
  Rests <- MCRests
  BatchSize = 3
  Batches = 2
SPECIFICATION Spec
INVARIANTS
  TypeOK
  GroupsAsSkipped
PROPERTY IsRestOfTheWalk
CHECK_DEADLOCK FALSE
