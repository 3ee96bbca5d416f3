\* Statements of two rows or assignments, over every history of facts.
SPECIFICATION Spec
CONSTANTS
  a = a  b = b  int = int  text = text  status = status
  SchemaNames = {public}
  SetNames = {t}
  ColNames = {a, b}
  EnumNames = {}
  SqlTypes = {int, text, status}
  EnumValues = {}
  Null = Null
  NullType = null
  ValueShapes <- SmallShapes
  Relations <- SmallRelations
  ClassOf <- Classes
  MaxListed = 2
  MaxRows = 2
  MaxSets = 1
  MaxMarks = 0
  MaxExtra = 1
  MaxOpen = 1
  Recoveries = {3, 4}
  MaxSkips = 5
INVARIANTS
  TypeOK
  NoPlainNull
  RowsFitColumns
PROPERTIES
  IsQueryOfTheWalk
