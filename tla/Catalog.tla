------------------------------- MODULE Catalog -------------------------------
(***************************************************************************)
(* What a sequence of SQL definitions may do to the catalog of a database, *)
(* one definition at a time: which schemas there are, which relations and  *)
(* of which kind, the names of their columns, and the values of the enums. *)
(* Ddl.tla, the walk of the parser over a script, implements it.           *)
(***************************************************************************)
EXTENDS Naturals, Sequences

CONSTANTS SchemaNames, SetNames, ColNames, EnumNames, EnumValues,
          EnumLists,  \* the value lists an enum can be created with
          Null        \* what a name that is not there stands for

VARIABLES sets,    \* schema name -> relation name -> [kind, columns]
          enums    \* schema name -> enum name -> sequence of values

vars == <<sets, enums>>

Relation == [kind : {"table", "view"}, columns : SUBSET ColNames]

Init == /\ sets = [s \in SchemaNames |-> Null]
        /\ enums = [s \in SchemaNames |-> Null]

-----------------------------------------------------------------------------
AddSchema(s) ==
  /\ sets[s] = Null
  /\ sets' = [sets EXCEPT ![s] = [t \in SetNames |-> Null]]
  /\ enums' = [enums EXCEPT ![s] = [e \in EnumNames |-> Null]]

\* A schema goes with everything in it.
DropSchema(s) ==
  /\ sets[s] # Null
  /\ sets' = [sets EXCEPT ![s] = Null]
  /\ enums' = [enums EXCEPT ![s] = Null]

AddRelation(s, t) ==
  /\ sets[s] # Null /\ sets[s][t] = Null
  /\ \E rel \in Relation : sets' = [sets EXCEPT ![s][t] = rel]
  /\ UNCHANGED enums

\* Only a table can be removed or altered on its own: a view lives as it was
\* created until its schema goes.
IsTable(s, t) ==
  /\ sets[s] # Null /\ sets[s][t] # Null
  /\ sets[s][t].kind = "table"

RemoveTable(s, t) ==
  /\ IsTable(s, t)
  /\ sets' = [sets EXCEPT ![s][t] = Null]
  /\ UNCHANGED enums

AddOne(old, new)    == \E c \in ColNames \ old : new = old \cup {c}
RemoveOne(old, new) == \E c \in old : new = old \ {c}
RenameOne(old, new) == \E c \in old, d \in ColNames \ old :
                         new = (old \ {c}) \cup {d}

AlterTable(s, t) ==
  /\ IsTable(s, t)
  /\ \E new \in SUBSET ColNames :
       /\ \/ AddOne(sets[s][t].columns, new)
          \/ RemoveOne(sets[s][t].columns, new)
          \/ RenameOne(sets[s][t].columns, new)
       /\ sets' = [sets EXCEPT ![s][t].columns = new]
  /\ UNCHANGED enums

AddEnum(s, e) ==
  /\ enums[s] # Null /\ enums[s][e] = Null
  /\ \E list \in EnumLists : enums' = [enums EXCEPT ![s][e] = list]
  /\ UNCHANGED sets

\* An enum grows at its end, by a value it does not have.
ExtendEnum(s, e) ==
  /\ enums[s] # Null /\ enums[s][e] # Null
  /\ \E v \in EnumValues :
       /\ \A i \in DOMAIN enums[s][e] : enums[s][e][i] # v
       /\ enums' = [enums EXCEPT ![s][e] = Append(@, v)]
  /\ UNCHANGED sets

RemoveEnum(s, e) ==
  /\ enums[s] # Null /\ enums[s][e] # Null
  /\ enums' = [enums EXCEPT ![s][e] = Null]
  /\ UNCHANGED sets

-----------------------------------------------------------------------------
Next ==
  \E s \in SchemaNames :
    \/ AddSchema(s)
    \/ DropSchema(s)
    \/ \E t \in SetNames :
         AddRelation(s, t) \/ RemoveTable(s, t) \/ AlterTable(s, t)
    \/ \E e \in EnumNames :
         AddEnum(s, e) \/ ExtendEnum(s, e) \/ RemoveEnum(s, e)

Spec == Init /\ [][Next]_vars
=============================================================================
