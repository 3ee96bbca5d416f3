\* One table, all its clauses.
SPECIFICATION Spec
CONSTANTS
  a = a  b = b  x = x  y = y  int = int
  SchemaNames = {public}
  SetNames = {t}
  ColNames = {a, b}
  EnumNames = {}
  SqlTypes = {int}
  EnumValues = {}
  Null = Null
  BatchSize = 2
  Batches = 2
  MaxRest = 2
  MaxSkips = 2
  ColumnLists <- TableLists
  EnumLists <- NoLists
INVARIANTS
  TypeOK
  FactsWithinColumns
  NoSilentLoss
  CallsPerStatement
  GivesUpOnlyOnLongScripts
PROPERTIES
  ImplementsCatalog
