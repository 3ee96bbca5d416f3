\* Tables, views of them and enums in two schemas that come and go.
SPECIFICATION Spec
CONSTANTS
  a = a  b = b  x = x  y = y  int = int
  SchemaNames = {public, other}
  SetNames = {t}
  ColNames = {a}
  EnumNames = {mood}
  SqlTypes = {int}
  EnumValues = {x, y}
  Null = Null
  BatchSize = 1
  Batches = 1
  MaxRest = 1
  MaxSkips = 1
  ColumnLists <- PlainLists
  EnumLists <- OneEnumList
PROPERTIES
  ViewsAreSnapshots
  ImplementsCatalog
