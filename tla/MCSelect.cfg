\* Statements of up to five names, over two tables of one column each.
SPECIFICATION Spec
CONSTANTS
  t = t  u = u  x = x  y = y
  SchemaNames = {public}
  SetNames = {t, u}
  ColNames = {x, y}
  EnumNames = {}
  SqlTypes = {}
  EnumValues = {}
  Null = Null
  Tables <- TwoTables
  Aliases = {t, u}
  References <- SomeReferences
  Items <- SomeItems
  MaxList = 2
  MaxNames = 5
  MaxExtra = 0
  MaxOpen = 0
  Recoveries = {3}
  MaxSkips = 3
INVARIANTS
  TypeOK
  MeansTheSame
  QualifiedMeansTheSame
  GroupsAgree
PROPERTIES
  IsQueryOfTheWalk
