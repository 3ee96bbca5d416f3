\* Two `?` in one statement.
SPECIFICATION Spec
CONSTANTS
  a = a  b = b  int = int  text = text  status = status
  SchemaNames = {public}
  SetNames = {t}
  ColNames = {a, b}
  EnumNames = {}
  SqlTypes = {int}
  EnumValues = {}
  Null = Null
  NullType = null
  ValueShapes <- PlainShapes
  Relations <- PlainRelations
  ClassOf <- Classes
  MaxListed = 2
  MaxRows = 2
  MaxSets = 1
  MaxMarks = 2
  MaxExtra = 0
  MaxOpen = 1
  Recoveries = {3, 4}
  MaxSkips = 5
INVARIANT
  MarksInOrder
