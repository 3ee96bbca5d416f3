# dbtyper, specified and checked

dbtyper types SQL at compile time. A script is a string literal type; TypeScript
type aliases lex it, parse it, merge its `CREATE`, `ALTER` and `DROP` statements
into a type that describes the database, and check its queries against that
type. At run time the same string goes to PostgreSQL through a thin driver. The
repository also holds the automation its authors develop it with: a monitor
that watches GitHub labels and starts runs of a script which implements an issue.

This directory specifies the parts that have state and order, checks small
instances with TLC and proves the central facts for every instance with TLAPS.
Paths below are relative to the repository.

1. [Inventory](#inventory)
2. [Modules and the code they model](#modules-and-the-code-they-model)
3. [Runs, bounds, and what they show](#runs-bounds-and-what-they-show)
4. [Proofs](#proofs)
5. [Where code and documents disagree](#where-code-and-documents-disagree)
6. [What is not modelled](#what-is-not-modelled)
7. [Plan](#plan)

## Inventory

| Component | Source | State | Operations | Talks to |
|---|---|---|---|---|
| Typed database | `src/core/jsql-shapes.ts`, `jsql-utils.ts`, `sql-type-shape.ts` | schemas → tables and views → columns, column facts; enums | getters, replacements; null means absent, and replacing by null omits | called by every parser |
| Script walk, definition statements | `src/parser/parse-sql-statement.ts`, `parse-create-*.ts`, `parse-alter-*.ts`, `parse-drop-*.ts`, `skip-statement.ts` | database so far, first error, place in the token stream, batch and step counters | one parser per statement, one per `ALTER TABLE` clause, three ways to skip | lexer (next token), typed database |
| Migrations, statement handles | `src/core/sql-database.ts` | the database type carried from one `apply` to the next; a driver | `apply`, `prepare`, `stream`, `iterate` | script walk, driver |
| Data statements | `src/parser/parse-insert.ts`, `parse-update.ts`, `parse-delete.ts` | column list, rows, index of the next parameter, place in the stream | one parser per clause; check column lists and values against facts | typed database, expressions, lexer |
| Queries | `src/parser/parse-select.ts`, `parser-scope.ts`, `resolve-column-ref.ts` | a scope (alias → columns), the select list before it is resolved, the clause | one parser per clause; look names up | typed database, expressions, itself |
| Expressions | `src/parser/parse-expression.ts` | the index of the next parameter | one parser per level of the grammar; type the tree in a scope | queries, lexer |
| Lexer | `src/lexer/` | peeked token, rest of the string | next token | string |
| Driver and binders | `src/postgres/` | connection, cursor | connect, close, query, stream; replace `:name` and `?` by `$n` | PostgreSQL |
| Run-time splitter | `scripts/split-sql-token-statements.ts` | open brackets | group the tokens of a file into statements | PostgreSQL |
| Issue automation | `.automation/monitor-github-labels.ts`, `auto-implement-issue.sh` | message stream, queue, slots, poller's memory; labels, lock files, pull requests | scan, poll, webhook, queue, start, complete; the commands of the script | GitHub, the file system, agents |
| Error catalogue | `src/dbtyper-error.ts` | none | message texts | |
| Type conversion, parameter inference | `src/core/sql-to-ts-conversion.ts`, `infer-param-types.ts` | none | look-up | |
| NestJS module | `packages/dbtyper-nest/` | none | provide the database to a container | migrations |

What is hard in each, and what makes it correct:

* **Typed database.** A getter that finds nothing answers `null`, and a
  replacement by `null` deletes. A failed look-up fed to a replacement therefore
  deletes what was to be changed. A table keeps two maps, its columns and their
  facts (default, nullability), and every clause must move both. *Correct*: the
  shape is well formed after any sequence of operations, and facts are kept for
  the columns of the table and for no others.
* **Script walk.** There is no exception and no statement boundary but what each
  parser leaves behind: every parser must return just past the `;` of its own
  statement, on success and on every error path, and the first error must
  survive all later successes. TypeScript bounds recursion, so the walk runs in
  50 batches of 50 calls. *Correct*: a statement is applied whole or not at all
  and one at a time (`Catalog`); nothing is lost silently; every call makes
  progress, so that only a long script reaches the limit.
* **Views.** A view's columns are computed once, from a table that is altered,
  dropped and created anew afterwards. *Correct*: it stays what it was.
* **Data statements.** Nullability is recorded twice, in a column's type and in its
  facts, by different statements; what an `INSERT` must give and what it may give
  are checked at different places; each clause numbers parameters with an
  environment of its own. *Correct*: what is accepted stores no plain `NULL` against the
  facts and no value in a column of another class; parameters are numbered as the
  binder numbers them; the source is left where the walk can go on.
* **Queries.** One map from aliases to columns stands for what SQL has as nested
  levels of names: an inner alias removes the outer one from it, CTEs are in it
  beside the tables of `FROM`, and it changes three times while a query is read.
  The select list is read before `FROM` and resolved behind it; queries in the list
  cannot wait. *Correct*: a name that is answered is the column SQL takes it for;
  a grouped list has no column the rows of a group differ in; however deep an
  error occurs, the walk finds its place again.
* **Expressions.** Some forty parsers hand on the number of the next `?`, expressions
  that begin with an identifier bypass the levels of the grammar, and what does not
  parse skips once more at each level. *Correct*: the tree is the one SQL's
  precedence gives; `?` are numbered in the order the binder numbers them; what
  is typed can be evaluated, and to a value of its type's class.
* **Lexer, binders, splitter.** The compile-time lexer and the run-time binders scan
  the same string by different rules for quotes, comments and parameters; the skips
  of the parsers and the splitter match brackets by different rules. Every reader of
  a token must consume something, since the skips recurse until they see an end.
  *Correct*: they agree on what a parameter is, where a comment and where a
  statement ends; nothing is read forever.
* **Automation.** Four asynchronous sources write to one stream; its reader
  awaits the file system between looking at a lock, a queue and the slots and
  acting on what it saw; lock files and labels survive the process, its queue
  and its slots do not; a script run by hand shares them. *Correct*: the number
  of runs stays within the limit, no slot leaks and none is freed twice, no
  issue gets two workers from one monitor, queued issues get their turn, and an
  approval is answered.

## Modules and the code they model

| Module | Models |
|---|---|
| `Jsql` | the typed database: shapes, getters, replacements |
| `Ddl` | the walk over a script and every definition statement (extends `Jsql`) |
| `Catalog` | what a sequence of definitions may do to a catalog: the abstract specification `Ddl` implements |
| `DdlProofs` | theorems about `Ddl`, that it implements `Catalog` among them |
| `Dml` | `INSERT`, `UPDATE` and `DELETE`, clause by clause (extends `Jsql`, refines what `Ddl` says of queries) |
| `DmlProofs` | theorems about `Dml`, that it implements `Ddl`'s query among them |
| `AutoImplement` | runs of `auto-implement-issue.sh` and what they share |
| `Monitor` | `monitor-github-labels.ts`, with the runs it starts (extends `AutoImplement`) |
| `MonitorProofs` | theorems about `Monitor` |
| `Select` | `SELECT`, clause by clause: scopes, names, groups, nested queries (extends `Jsql`, refines `Ddl`'s query) |
| `SelectProofs` | that `Select` implements `Ddl`'s query |
| `SelectNamesProofs` | that the flat map of names is SQL's nested levels while no names clash, and theorems about what names mean and about grouped lists (extends `SelectProofs`) |
| `Lexer` | the readers of tokens and the monad that calls them |
| `LexerProofs` | theorems about `Lexer`, and the induction they rest on |
| `Binders` | the run-time binders and the splitter's comments, beside the lexer (extends `Lexer`) |
| `BindersProofs` | theorems about `Binders` (extends `LexerProofs`) |
| `Brackets` | one call of `SkipBracketedUntil` and one round of the splitter's grouping, and what statements and unmatched brackets are |
| `Skip` | `SkipBracketedUntil` from its first call to its last (extends `Brackets`) |
| `SkipWalk` | the walk over the unread rest of a statement, token by token, and the splitter beside it (extends `Brackets`, refines `Ddl!SkipRest`) |
| `SkipWalkProofs` | theorems about `SkipWalk` |
| `Expression` | the grammar of expressions, one operator per parser (extends `Skip`) |
| `Typing` | the types of expressions (extends `Expression`) |
| `Reading` | an expression read and then typed, against SQL's precedence and values (extends `Typing`) |
| `MCDdl`, `MCDml`, `MCMonitor`, `MCSelect`, `MCBinders`, `MCSkip`, `MCReading` | the small values TLC is given |

### Jsql

A TypeScript object type keyed by names is a function from all names, `Null`
where the name is no key. `ReplaceProp` is therefore both assignment and
omission, as `ReplaceProp` and `OmitNullProps` in `type-utils.ts` make it. Each
operator is the alias of the same name without its `Jsql` and `Db` prefixes.
`TableReplaceColumnType` and `TableReplaceColumnNullability` answer `Null`, and
not the table, for a column that is missing, as the code does. The argument of
a type (length, precision) and constraints, which nothing writes, are left out.

### Ddl

| Variable | In the code |
|---|---|
| `db` | the database threaded through `ApplyParsedStatementsInner` |
| `failed` | whether `ConcatErrors` has kept an error |
| `at` | which parser is on the call stack and what token it expects |
| `target` | schema and table of `ParseAlterActions` |
| `pos` | where the rest of the string starts: past a `;`, within an `ALTER TABLE`, before the unread rest of a statement, or at the end |
| `rest` | of an unread rest, how many unmatched closing brackets it still has, plus one: each costs a call; of an error recovery, how many `;` it still skips to |
| `calls` | calls of `ParseSqlStatement`, `BatchSize * Batches` at most |
| `read`, `lost` | history: statements begun, and who swallowed a whole one |

The script is not a value: a step chooses the next piece of source and does what
the parser does with it. The names and columns of a statement are chosen from
the constants; a token sequence becomes what matters to the walk, namely the
statement's kind, whether `IF [NOT] EXISTS` is there, whether something unexpected
stands before the `;` (`trailing`), or `Malformed` when it is wrong earlier.
A piece is a whole statement, a clause of an `ALTER TABLE`, or an unread rest.

Each statement is one action, guarded by `Dispatch` (a new statement and a call
left) and closed by one of the outcomes that say where the parser stops:
`EndsOwn`, `LeavesRest`, `SkipsNext` (past its own `;` and skipping to the next, or
the next but one), `WantsSemicolon` (past its own `;` and expecting another),
`StaysOpen`. Which outcome an error path has is read off the code for each
statement, because they differ: `CREATE SCHEMA` of an existing schema returns
where it stands, `DROP SCHEMA` of a missing one skips from behind its own `;`,
`CREATE TABLE` of an existing table has consumed its list. Where an error can
occur at several tokens of a statement, `Recovers` allows each outcome that
`SkipFailedStatement` and its variants have.

`ALTER TABLE` is one step for its head and one for each clause, since
`ParseAlterActions` recurses with the changed database and looks the table up
again each time. `SwallowNext` is a parser that stands past its own `;` and
meets the next statement of the script. `NextMigration` is `DBMigrations.apply`:
the next script starts from the database the last one left.

Column types are opaque. A `DEFAULT` is a flag. The `SELECT` of a view projects
one relation; a failing one is any malformed query.

### Catalog

Only names, kinds and enum values: add or drop a schema, add a relation, add,
remove or rename *one* column of a table, remove a table, add or remove an enum,
extend one at its end. `Ddl!ImplementsCatalog` maps `db` to it by forgetting
types and facts. It is what a reader of SQL would call one definition applied,
and it rules out what several steps of the walk together could do wrong: half
a clause applied, a view altered, a schema rebuilt without its enums.

### Dml

| Variable | In the code |
|---|---|
| `kind`, `tbl` | which of the three parsers, and the relation its context holds |
| `at` | what the parser on top of the call stack reads next |
| `left` | where it stands, see below |
| `cols` | `Acc` of `ParseInsertColumnNameList`, then `ColsFull` |
| `rows`, `sets` | the shapes (type, nullable) of the values that have passed, by row of `VALUES` and by assignment |
| `next` | `positionalParamIndex` of the environment that is handed on |
| `asked` | history: the index each `?` was looked up at, in order of appearance |
| `ok` | whether the third slot is a result and not an error |

As in `Ddl` the source is chosen as it is read. What the parsers' skips tell apart
of it is one integer, `left`: the closing brackets ahead that close nothing
ahead, plus one for the statement's `;`. An opening bracket read adds one, a
closing one or the `;` takes one away, and so does a skip, since it ends behind
the first of them. Zero is behind the `;`; below zero the skip has taken
statements of somebody else. `Unexpected` are the places behind a token that was
consumed to be looked at, `Unparsed` those where the grammar of expressions ends
on an error, having skipped at every level that handed the error on.

| Actions | In the code |
|---|---|
| `InsertInto`, `InsertTable`, `ListColumn`, `BadList` | `ParseInsert` to the end of the column list |
| `Values`, `SelectRows`, `NoSource` | the required columns, and the choice of a source |
| `Cell`, `NextRow`, `EndOfRows` | `ParseInsertValuesCells` and what is around it |
| `OnConflict`, `TargetColumn`, `EndOfTargets`, `DoUpdateSet`, `ConflictSet` | `ON CONFLICT` |
| `UpdateTable`, `UpdateSet`, `UpdateFrom`, `FinishUpdate` | `parse-update.ts` |
| `DeleteFrom`, `DeleteTable`, `DeleteUsing`, `FinishDelete` | `parse-delete.ts` |
| `BadAssign`, `BadValue`, `Where`, `Returning`, `FinishInsert` | shared |

An expression is the shape of its value and the number of its parameters, or it does
not parse, or does not resolve. The relation exists and the statement is chosen
for it; a relation that does not is one of the errors of its action. The abstract
specification is `Ddl`'s own action for a query: `IsQueryOfTheWalk` maps `left` to `pos`
and `rest`, so that no end of these parsers is missing from the walk of `Ddl`.

### Select

| Variable | In the code |
|---|---|
| `queries` | the calls of `ParseSelectFrom...` on the stack: a record for each query, an enclosing one before those in it; empty once the statement's parser has returned |
| `left` | where the parser stands, as in `Dml` |
| `ok` | whether the result is no error |
| `names` | names read, by which the statement is bounded |
| `odd`, `astray` | history: how the statement's names clash, and which names were answered otherwise than SQL would |

Of a query, `scope` is the flat map an expression looks names up in (`ScopeMap`), `outer`
what the enclosing query handed in (`OuterScope`), `ctes` the bodies of its `WITH`
(`CteBase`), `items` the select list as it was read and `row` what it resolves to,
`keys` and `grouped` what `GROUP BY` and `HAVING` leave for the look at the groups. `bound`
is not in the code: the level of names SQL has for the query, its `FROM` list.
`lost` counts how often the callers skip when an error is handed to them.

| Actions | In the code |
|---|---|
| `Cte`, `BadCte`, `AfterCte`, `CloseCte` | `WITH`: a body sees nothing around it |
| `ListItem`, `ListQuery`, `BadItem`, `From`, `NoFrom` | the select list before `FROM`; a query in it is resolved at once, in the scope of that moment |
| `FromTable`, `FromQuery`, `CloseDerived`, `BadTable` | the relations of `FROM` and `JOIN`; a name is looked for in the scope before the schema |
| `On`, `BadOn`, `EndOfFrom` | `ON`, resolved in the joins so far; behind the last one the outer scope is merged in |
| `ResolveItem`, `BadResolve` | `ResolveSelectList` |
| `Term`, `TermQuery`, `BadTerm`, `BadClause` | `WHERE`, `GROUP BY`, `HAVING`, `ORDER BY`, `LIMIT`, `OFFSET` and `FETCH` |
| `GroupedProjection` | `GroupedProjValidationOutcome` |
| `CloseSub`, `Finish` | the closing bracket; the `;` |

A column is known by where it comes from (a table's column, or made by an
expression), so that taking one name for another column shows. An expression is a
column, an aggregate of one, a query in brackets, or something without
columns. `astray` compares the code's answer with `Meant`, which looks level by level
for the innermost one that has the name. The two agree unless names clash in one of
nine ways, which `odd` records (see [below](#where-code-and-documents-disagree)); each
is there because the properties fail without it.

### Lexer, Binders

| Variable | In the code |
|---|---|
| `source` | the SQL string |
| `token`, `rest` | the two fields of `ParserMonad`: the token that was peeked at, and what is unread |
| `named`, `marks`, `wide` | history: the parameters the lexer has found, and whether an operator contained a `?` |

A source is a sequence of characters of each class the lexer tells apart, and the
readers of tokens are operators on it, or functions where the alias calls itself, written as
the aliases are: by the first occurrence of a separator (`` `${infer Before}p${infer Rest}` ``), or by taking
characters of a class while there are any. The texts of words and strings are left
out, those of parameters, operators and numbers are kept. `Binders` has the two
scans of `src/postgres/bind-*-params-for-pg.ts`, what `pgQueryArgs` sends, and
the splitter's `skipToBlockCommentEnd`.

### Brackets, Skip, SkipWalk

`Brackets` has `SkipCall`, what `SkipBracketedUntil` makes of a token and its stack of expected
brackets, over tokens that are brackets, `;` or anything else; `OpenBehind`, what the loop of
`splitTokenStreamIntoStatements` makes of its own stack; and a definition that counts instead of
matching: how high a token stands, which closing brackets close nothing, and where the
statement ends. `Skip` recurses on `SkipCall`, for the parsers of expressions.

`SkipWalk` does it a call a step. `ParseSqlStatement` is a call of the walk on what is unread,
`SkipOn` one of `SkipBracketedUntil` that calls itself, `SkipStops` one that does not, with the
`SkipToken` by which `ParseSkipStatement` gets behind the token. `start` is where the skip
began, `taken` where it is. The splitter takes a token when the walk does: the two have
nothing in common but the tokens, so that no order of theirs is lost. `Ddl` has only a number
for it all, `rest`; `IsRestOfTheWalk` shows that the number goes down by one with each call,
and that a skip never runs into the next statement.

### Expression, Typing, Reading

Tokens are kinds (a literal, a comparison, an identifier); a parser answers the rest, a
tree and the next `?`'s number. `Then` is the `extends` clause by which a level hands an
error on, with one more skip. Where a type of the code comes out as `never`, the tree is
`Never` and stays it, as the alias does. `Rule` chooses among the levels by name, in
place of one alias calling the next. `ResolveExpressionAST` types the tree, with one
function for each shape of the built-in ones. `Reading` is the order of the two: an
expression is read in one step and typed in another. What they are held
to is defined apart from them: `Reference` splits a text at the last of its weakest
operators, and `ValuesAt` computes every value that SQL could give.

### AutoImplement

`script[r]` is the process `r`: its issue, the monitor start that spawned it (0
for a person), the next command that touches what is shared, and the exit
status it is heading for.

| `at` | Command |
|---|---|
| `view` | `gh issue view` and the label test, lines 28-66 |
| `label` | add `in-progress`, 68-70, through `tee`, so a failure is not seen |
| `check` | lock test and `read`, 72-84 |
| `lock` | write the lock, 86-87 |
| `build` | worktree, agent, tests, 89-376 |
| `pr` | `create-issue-pr.sh` through `tee`, 378-384 |
| `unlabel`, `unlock` | the clean-up, 386-422 |

`set -e` is modelled by what fails: a `read` at end of file, a `wait` for a killed
agent, an `rm` of a lock that is gone.

### Monitor

| Variable | In the code |
|---|---|
| `monitor` | process down, up, or `closing` once the signal handler has ended the stream |
| `stream` | `MessageStream` |
| `queue`, `processing` | the sets of that name |
| `pc`, `cur` | at which `await` the `for await` loop stands, and for which issue |
| `feed`, `fetched` | at which `await` the scan, then the poller or the webhook stands, and the list `gh` gave it |
| `known` | `knownIssues` |
| `epoch` | how often the monitor was started |
| `events`, `waiting` | outside: webhook calls under way; approvals without a run so far |

A step runs from one `await` to the next. `Take` is the head of the loop, `Admit`
what follows the look at the lock file, `RemoveLock` a completion and the start
of the next queued issue, `CreateLock` and `Spawn` the two halves of
`startWorker`. `ScanFetch`/`ScanPush` and `PollFetch`/`PollPush` are split at the
call of `gh`, so labels may change in between. `Report` is the `exit` handler of
a child. After a crash the children live on as orphans; one that writes to its
closed pipe dies (`Die`), one that ends is reported to nobody (`Reap`).

GitHub and people are the environment: `Approve`, `Unapprove`, `Mark`,
`RunByHand`, `Shutdown`. The constant `May` says which of them an instance has,
and whether calls of `gh` fail and the monitor crashes.

## Runs, bounds, and what they show

| Run | Question | Answer |
|---|---|---|
| `ddl_tables` | over one table with two columns and every clause in every order, errors and swallowed statements included: do the two maps stay together, is the error of a loss kept, does every call progress, is each step one of the catalog? | yes: `TypeOK`, `FactsWithinColumns`, `NoSilentLoss`, `CallsPerStatement`, `GivesUpOnlyOnLongScripts`, `ImplementsCatalog` |
| `ddl_views` | tables, views of them and enums in two schemas that come and go over any number of migrations: do views keep their columns, do enums grow at their end only? | yes: `ViewsAreSnapshots`, `ImplementsCatalog` |
| `dml` | every `INSERT`, `UPDATE` and `DELETE` over tables with every history of facts, going wrong at every token: does a plain `NULL` slip past the facts, do rows keep to the column list, does each end of a statement leave the walk in a state `Ddl` allows for? | none does, rows do, each does: `NoPlainNull`, `RowsFitColumns`, `IsQueryOfTheWalk` |
| `monitor_polling` | one slot, two issues, failing calls, crashes, shutdowns, a restart: are slots neither leaked nor freed twice, is the limit kept, does an issue wait only while it must, are locks removed only from finished work, and has an issue one run at a time, those left behind by a crash included? | yes: `SlotAccounting`, `WithinCapacity`, `QueueIsWaiting`, `OneRunPerIssue`, `UnlocksOnlyFinished` |
| `monitor_hands` | with the webhook and people who run the script themselves, past the lock if they like, are the slots still right? | yes: `SlotAccounting` |
| `monitor_live` | one slot, three issues, no failures: does every queued issue get its turn and every approval a run? | yes: `QueueIsServed`, `ApprovalIsServed` |
| `select` | statements of up to five names over two tables, with nested queries, CTEs and joins, and an error wherever one can be: is every name taken for the column SQL takes it for, are grouped lists grouped, does each end leave the walk in a state `Ddl` allows for? | yes, unless names clash in one of the recorded ways: `MeansTheSame`, `QualifiedMeansTheSame`; yes: `GroupsAgree`, `IsQueryOfTheWalk` |
| `reading` | 124 thousand expressions: does the grammar give SQL's precedence, are `?` numbered in order, can what is typed be evaluated? | yes: `PrecedenceOfSql`, `MarksNumbered`, `ClassesAreSound` |
| `binders` | every source of a few characters over five alphabets: do lexer and binders find the same parameters and the same ends of comments, does the lexer always read on? | yes for sources whose characters only literals hide: `NamesAreBound`, `MarksAreBound`; yes: `CommentsNestAlike`, `ReadsOn` |
| `skip` | every unread rest of up to seven tokens: is a call of the walk what `Ddl` counts as one, does no skip run past the rest, and does the splitter end statements where the skips do? | yes: `IsRestOfTheWalk`, `TypeOK`, `GroupsAsSkipped` |
| `doc_*` | two sentences of the documents that the code does not keep | no, see [below](#where-code-and-documents-disagree) |

Properties that need a word:

* `FactsWithinColumns` needs `DROP`, `RENAME` and `ALTER COLUMN` to keep two maps in
  step whatever came before; a fact left behind would make the next column of
  the name `NOT NULL`.
* `NoSilentLoss` is what remains true of the statements that get swallowed: the
  error of the parser that swallows one is kept, whatever succeeds behind it. It is about the
  latch; that the parser errs is read off the code (`SwallowNext`: what it takes for a clause would
  have to be one from end to end, as `DROP a;` would, and no statement of SQL is).
* `CallsPerStatement` bounds the calls a statement takes however it fails. It is
  false as soon as one error path leaves a token that no later call consumes,
  and `GivesUpOnlyOnLongScripts` follows from it.
* `NoPlainNull` holds only because two tests with different conditions meet: required
  columns are those `NOT NULL` *without* a default, values must not be `NULL` in columns
  `NOT NULL` *with or without*. It covers a column listed twice, second rows, and `SET`. It is about
  values of the type of `NULL`, which a cast of `NULL` has too, and no more: the test looks at the
  type of a value and not at whether it is nullable, so `a = b` is accepted for a `b` that
  may be null (one of the disagreements), and `INSERT ... SELECT` is not looked at.
* `IsQueryOfTheWalk` fails when one error path forgets its error,
  stays before a token nobody consumes, or ends where `Ddl` has no outcome for.
* `SlotAccounting` says of each issue that it is in `processing` exactly when there is
  one of: a start under way, a run of this monitor, an unread completion. It
  relates the loop, the stream and the processes, and it fails if a completion
  is sent early, twice, or never.
* `MeansTheSame`: while no names clash, none is answered otherwise than SQL would, but for one
  refusal: a bare name may be refused that SQL would find, since an error is visible and
  another column is not. `QualifiedMeansTheSame` allows one of the
  clashes, an alias that hides one of an enclosing query, and says that names with
  an alias in front come through it unharmed. They relate a map that is overwritten with a
  list of levels that is not, over every sequence of clauses of queries within queries.
* `IsQueryOfTheWalk` of `Select` is where every error of every nested query has to arrive:
  the callers skip for it once, twice or six times, and in the end the statement
  must be at a place that `Ddl` has an outcome for.
* `NamesAreBound` and `MarksAreBound` are restricted by `Plain` to sources in which nothing
  but literals hides characters. What the binders do in comments, quoted names and
  dollar strings is among the disagreements.
* `MarksNumbered` is about the `?` outside of subqueries, which have numbers of their own (one of
  the disagreements). Of those it excludes none: forty parsers hand an environment on, and
  one that hands on an older one gives two `?` the same number.
* `ImplementsCatalog` allows a table to be removed at any step, so that it does not see that a failed
  look-up removes one. The model does, and it is among the disagreements.
* `ApprovalIsServed` is checked in polling mode, without crashes and withdrawals. With a crash
  between the lock and the run, or an event that comes before the webhook's server listens, it
  is false: both are among the disagreements.
* `ClassesAreSound` is about classes (number, text, boolean, date) and not about nullability,
  which operators, casts and `CASE` forget.
* `QueueIsWaiting` has an exception for the one `await` (`removeLock`) at which a
  slot is free and the queue not yet served.

Every property of a passing run is broken by a slip in the code it is about. The
operators commented "a plausible slip" are such slips; nothing else uses them.

Distinct states: `ddl_tables` 171 thousand, `ddl_views` 75 thousand, `dml` 470 thousand, `monitor_polling`
708 thousand (up to symmetry), `monitor_hands` 156 thousand, `monitor_live` 90 thousand, `select`
806 thousand, `reading` 287 thousand, `binders` 441 thousand, `skip` 88 thousand.
Each finishes within two minutes on two workers.

### Bounds

* `BatchSize = Batches = 2` (`ddl_tables`), 1 (`ddl_views`): the code has 50 and 50.
  Four calls let a statement fail, leave a rest, be swallowed, and the walk run
  out of calls at each of those places. The number of *migrations*, and of
  clauses of an `ALTER TABLE`, is not bounded: a walk of one call, repeated over
  `NextMigration`, reaches every sequence of definitions.
* `MaxRest = 2`: one unmatched bracket in an unread rest, besides none. It is 1 in
  `ddl_views`, where the walk itself is not the question.
* `MaxSkips = 2`, 1 in `ddl_views`: a recovery skips once more at each level of the
  grammar, and of a nested query, that hands the error on. In the code that is at
  least three levels for an expression and up to nine more for each bracket it is in;
  two skips are enough to swallow one statement and then another.
* `ColumnLists`: a column with both facts, and a name defined twice of which the
  last definition has no facts. One table, two columns suffice for `RENAME` onto
  a free and onto a taken name. `ddl_views` has two schemas so that a view can read
  a table of another schema, and both can be dropped.
* `Dml`: two columns, of which any may be listed twice, in any order or not at all
  (`MaxListed = 2`); two rows, so that one is not the first (`MaxRows`); an assignment
  (`MaxSets = 1`), since one does not look at another but for the index, which
  `doc_marks_in_order` counts; a bracket that closes nothing (`MaxExtra`) and one open
  in an expression (`MaxOpen`). `Recoveries = {3, 4}`: the least number of levels that
  skip, and one more. The tables have two columns of different classes with each pair
  of facts, or one of a class that is comparable with all; a view has no facts.
  One class is that of an enum, which is unknown. Values have the type of a column or of `NULL`
  and are nullable or not (`ValueShapes`); in `dml`, where that makes no difference, they have
  one shape for each type.
  No expression has a parameter in `dml` (`MaxMarks = 0`): the index decides nothing there.
* `Select`: two tables `t(x)` and `u(y)`, which aliases make share a name, and the aliases
  `t` and `u`, so that an alias can be a table's name, a CTE's, or that of another query.
  Five names (`MaxNames`) let a CTE, a `FROM` and a term meet, or a query in a query with a
  `FROM` each and a reference outwards, or an alias hidden and asked for. Lists and `FROM`
  have two entries (`MaxList`). `Recoveries = {3}`; where a skip stops beyond
  that is `Dml`'s and `SkipWalk`'s question, and `SelectProofs` answers for every number.
* `Reading`: chains of three operands and two operators, or four and three, over every pair of
  ten infix operators; `CASE` with up to two branches; windows with up to two keys; and all
  texts of up to six tokens over a dozen alphabets of tokens that have to do with each other.
* `Binders`: all sources of up to six characters over the alphabets of named and of positional
  parameters, five over those of dollar strings, numbers and operators, and nine over `/`, `*`
  and a letter, which is two comments nested in each other with overlapping ends.
* `SkipWalk`: seven tokens, of which the first `;` outside brackets is the last: two
  unmatched brackets, one of them behind a bracketed `;`. Nothing is behind the rest, or another
  statement. `SkipWalkProofs` answers for rests of every length.
* `MaxEpochs`: one restart, so that locks, labels and orphans of the first monitor
  meet the second. `MaxStream` bounds the messages at which a webhook event may
  still arrive. One event per issue is under way at a time.
* `Runs`: two processes at a time; `Spawn` and `RunByHand` wait for a free one.
* `Issues`: two, or three where order in the queue matters.

Deadlock is not checked where a source is read to its end (`reading`, `binders`, `skip`),
nor where people and restarts are bounded, since there the system comes to rest when the
bound is used up. `SYMMETRY` is used in `monitor_polling` only, whose properties are
safety properties that treat issues and runs alike.

### Fairness

The walk of `Ddl` has none: its progress is stated as a safety property, a bound
on calls. `Monitor!FairSpec` has weak fairness of

* `LoopStep` and `FeedStep`: Node's event loop resumes an `await` whose promise has
  settled, and the file system and `gh` answer;
* each `Deliver(i)`: a webhook call arrives, heard or not;
* each `RunStep(r)`: processes are scheduled, the agent is killed after fifteen
  minutes (`auto-implement-issue.sh:176`, `:194`), and the tests are taken to end;
* `Start`: somebody starts a monitor that went down.

Nothing is assumed of people, shutdowns and crashes. Weak fairness is enough:
in the runs that use it (polling, no runs by hand, no shutdown) a step that is
enabled stays so until it is taken or the process goes down.

## Proofs

`DdlProofs` proves of `Ddl`, for all sets of names and types, all lists and all bounds:

| Theorem | States |
|---|---|
| `TypeCorrect` | `[]TypeOK` |
| `FactsAreOfColumns` | `[]FactsWithinColumns` |
| `LossIsReported` | `[]NoSilentLoss` |
| `StatementsTakeFewCalls` | `[]CallsPerStatement` |
| `ShortScriptsAreWalked` | `[]GivesUpOnlyOnLongScripts` |
| `ViewsKeepTheirColumns` | `ViewsAreSnapshots` |
| `ScriptsAreDefinitions` | `ImplementsCatalog` |

Assumptions: `NullAssumption` (null is no database, schema, column, fact or list of
values), `ListsAssumption` (column and value lists are sequences of the right
things, and an enum has a value), `BoundsAssumption` (the bounds are positive).
TLC evaluates all three in every run of `MCDdl`.

The inductive invariant is

    Inv == TypeOK /\ FactsWithinColumns /\ NoSilentLoss /\ CallsPerStatement

None of the last three is inductive without `TypeOK`: a replacement yields a database
only when the table it was given is one, and that a failed look-up yields `Null`
is part of what has to be shown. `GivesUpOnlyOnLongScripts` says nothing about the
calls of a walk that is under way; `CallsPerStatement` does, with the calls a
statement still has to its credit (`Pending`), and a step is paid from there.

The step is proved in two halves, so that no proof is done once per action twice:

1. `NextDbStep`: every action makes one of five changes to the database (`DbStep`):
   none, a new empty schema, a schema less, an enum, or a table replaced by data
   whose facts are of its columns, where there was no view. The lemmas on `Jsql`'s
   operators (`TableOperators`, `ColumnsFromStackType`) do the work. That each of the
   five keeps types (`DbStepType`), facts (`FactsStep`) and views (`ViewsStep`) is proved
   once.
2. `NextWalkStep`: every action moves the parser in one of nine ways (`WalkStep`), and
   either keeps the latched error or starts a new script (`LatchStep`). `LossStep` and
   `CallsStep` follow from these.

It also proves `ScriptsAreDefinitions`, that `Ddl` implements `Catalog`, from that invariant
and `CatalogNullAssumption`. `DefinitionStep` is `DbStep` with what the catalog tells
apart, a clause that changes one column and no other among them; every action of `Ddl` is shown
to be one (`NextDefinition`), and each of its disjuncts to be an action of the catalog or
a stutter (`SchemaChange`, `RelationChange`, `TableChange`, `EnumChange`).

`DmlProofs` proves of `Dml`, for all relations, types, recoveries and bounds:

| Theorem | States |
|---|---|
| `TypeCorrect` | `[]TypeOK` |
| `NoPlainNullIsStored` | `[]NoPlainNull` |
| `RowsAreColumns` | `[]RowsFitColumns` |
| `ImplementsQuery` | `IsQueryOfTheWalk` |

Assumptions: `NullAssumption` as above and `DmlAssumption` (there is a name for a schema
and for a table, relations are data, values have a type or that of null, which is no SQL type, bounds are numbers,
and an expression skips over fewer statements than `MaxSkips`). TLC evaluates both in `dml`.

The inductive invariant is

    Inv     == TypeInv /\ DataInv
    TypeInv == TypeOK /\ Bounded
    DataInv == Staged /\ RowsFull /\ RowsFit /\ SetsFit /\ NoneMissing

`TypeOK` says that the parser is before its `;` while it reads; that a *failed* statement
stays within the rest `Ddl` allows for takes `Bounded`, which counts the brackets that
can be ahead at each place. The two properties of data speak of an accepted statement,
at its end. What makes them true happened earlier, at the column list (`NoneMissing`)
and at each value (`RowsFit`, `SetsFit`); `Staged` and `RowsFull` carry it from there to
the end of the last row: that the list is complete when rows begin, that a row which
ends is full, and that only the last may be short.

The step is proved in three parts, each from one lemma about the actions:

1. `NextWriteStep`: every action does one of six things to the columns, rows and
   assignments (`WriteStep`). From it follow `WrittenStep` and one lemma for each part
   of `DataInv` that a write can disturb (`ListsData` to `SetsToData`).
2. `NextPlaceStep`: every action reads on, ends badly or ends well (`PlaceStep`). From it
   follow `PlacedStep`, and the refinement: reading on is a stutter of the walk,
   ending badly is a query that recovers, ending well one that is accepted or
   expects another `;`.
3. `NextMarksStep`: what an action does to the index of positional parameters.

`ImplementsQuery` is about one statement from a place behind a `;`. `Ddl`'s query leaves the
database alone and depends on nothing the walk did before but that it stands there with
a call left, so no end of these statements is missing from the walk that `DdlProofs` is
about; that the two run together is argued here and not proved.

`MonitorProofs` proves of `Monitor`, for any issues, processes, slots, starts and happenings:

| Theorem | States |
|---|---|
| `TypeCorrect` | `[]TypeOK` |
| `SlotsAccounted` | `[]SlotAccounting` |
| `CapacityKept` | `[]WithinCapacity` |
| `QueueAlwaysWaiting` | `[]QueueIsWaiting` |
| `LocksKeepRunsApart` | `OneRunPerIssue`, when nobody runs the script by hand (`"run" \notin May`) |
| `OnlyFinishedUnlocked` | `UnlocksOnlyFinished`, when nobody runs the script by hand (`"run" \notin May`) |

Assumptions: `MayAssumption`, `DoingAssumption` (null is no issue and no run) and
`MonitorAssumption` (issues are finite, bounds are numbers), evaluated in `monitor_polling` and the others.
The condition of the last theorem is needed: a person's run that finds no lock writes one, and the
monitor's own run of that issue removes it.

The inductive invariant is `TypeInv /\ SlotInv /\ Waiting`. `SlotAccounting` counts; a step
that moves an issue from a start to a run to a completion changes two terms of a sum, so
`SlotInv` says the same without counting: an issue is in `processing` exactly when
one of the three holds it, no two do, no two runs of this monitor have the same issue, and a
completion is in the stream once. That a run of an *earlier* start is not taken for one
of this start needs `Owned`: owners are starts that have been. `Waiting` adds where the loop
stands, since between two `await`s a slot is free and the queue unserved. Capacity follows from an
injection of runs into `processing`. `LockInv` is for the locks: one live run per issue (`OneRunPerIssue`),
each with its lock (`Locked`), and none for the issue in the loop's hand (`InHand`).

`SelectProofs` proves `ImplementsQuery`, that `Select` implements `Ddl`'s query, for any tables,
names, items, lists and bounds, from `SelectAssumption`. Of the stack of queries two
fields matter, so the invariant is about those: `Nested` (queries are nested no deeper than
names were read, only the outermost is the statement's own, and the callers of
the j-th one skip at most `(j - 1) * (MaxSkips + 5)` times) and `Inside` (as many closing brackets
are ahead as queries are open). Each action does one of six things to the stack
(`NextStackStep`); that an error ends within the rest and the skips `Ddl` allows for
(`ErrorIsNear`) is arithmetic from there.

`SelectNamesProofs` proves of `Select`, for any number of tables, columns
and aliases, lists and joins of any length and queries nested to any depth:

| Theorem | States |
|---|---|
| `TypeCorrect` | `[]TypeOK` |
| `NamesMeanTheSame` | `[]MeansTheSame` |
| `QualifiedNamesMeanTheSame` | `[]QualifiedMeansTheSame` |
| `GroupedColumnsAgree` | `[]GroupsAgree` |

Assumption: `SelectAssumption`, evaluated in `select`; of the items it says that their labels
and references are names the statement can have.

The inductive invariant is `AllInv`, which is that of `SelectProofs` with three parts more.

* `NamesInv` speaks of every query on the stack, since an enclosing one is returned to with the
  map it had. What is true of any statement: a query's own aliases are in its map, and it is
  enclosed by the query below it or by nothing (`Shape`, `Clean`, `Encloses`). What is true unless
  names clash (`Answers`): the entry of an alias in the flat map is the table that the
  *nearest* level with that alias has for it, and the aliases of one level, and a CTE and
  the tables beside it, are apart. `MeansTheSame` alone is not inductive, because it looks at names
  that were asked for: a map that is wrong where nobody has asked yet satisfies it.
* `StrayInv` says how the names that were answered otherwise than SQL would are excused by the
  clashes noted so far; that a grouped list has a column which is no key is excused by none.
* `EndInv` is the end of the statement: where it is accepted, its `;` has been read.

The step is proved by clauses. `FROM` adds one entry to a map at the same time as to a level
(`OwnIsScoped`), and behind it the outer map is merged under the inner one at the same time as
SQL's levels are stacked (`StackedIsScoped`); these two carry `Answers`. From `Answers`, an alias
that is found has the table meant (`AliasHasTable`), and with it a qualified name its column
(`QualifiedMeaning`) and a bare name its column or a refusal (`BareMeaning`).

Stating the theorem for any number of names changed the model: a CTE that `FROM` does not read,
and whose alias an enclosing query has too, makes a name with that alias be refused. That takes
seven names, which is more than `select` has, and `Clashes` had not counted it. It does now.

`SkipWalkProofs` proves of `SkipWalk`, for rests of any length, with brackets nested to any depth:

| Theorem | States |
|---|---|
| `TypeCorrect` | `[]TypeOK` |
| `RestsAreWalked` | `IsRestOfTheWalk` |
| `StatementsAreGrouped` | `[]GroupsAsSkipped` |

Assumptions: `RestsAssumption` (rests are of tokens, have their `;`, and a bracket that closes one
closes one of its kind) and `LimitAssumption` (the limits of the walk are positive), evaluated in
`skip`. The second half of the first is needed: at `( ]` a skip gives its stack up and the splitter
does not. That what is opened is closed is not.

The recursion of the skips is taken here as a machine that makes one of its calls a step. The inductive invariant is
`Walks /\ Grounded /\ Stacked /\ Grouped`: the skip is before the end of the rest (`Walks`), has
not been lower than where it began, which is no higher than anything before it (`Grounded`), and its
stack is as long as it is high, and each bracket on it closes a token from which on
everything was higher (`Stacked`). From these follow that a `;` ends the rest exactly when the
stack is empty (`SemicolonEnds`), that a closing bracket is the one on top of the stack unless the
stack is empty (`ClosesLast`), and that it then closes nothing (`BracketCounts`). The splitter
has the same stack (`Grouped`), since a skip stops only when its own is empty.

`LexerProofs` and `BindersProofs` prove of `Lexer` and `Binders`, for sources of any length and any syntax:

| Theorem | States |
|---|---|
| `TypeCorrect` | `[]TypeOK` |
| `LexerReadsOn` | `ReadsOn` |
| `CommentsNestAlikeAlways` | `[]CommentsNestAlike` |
| `NamesAreBoundAlways` | `[]NamesAreBound` |
| `MarksAreBoundAlways` | `[]MarksAreBound` |

Assumption: `SourcesAssumption` (sources are made of the characters that `Lexer` has a class for),
evaluated in `binders`.

The readers and the scans are recursive functions on texts, so each theorem needs an induction on
their length. The library states induction over a predicate, which none of the provers can be
given. But it also has well-founded orders as sets: from these `Least` says that a set of numbers
that is not empty has a least one, `Numbers` and `Sizes` are induction on a number and on a size in terms
of a *set* of what the claim is true of, and `Recursion` says that there is a function which has, at
each place, what a step makes of its values at smaller ones (`Descends`). For each recursive function
a lemma (`SkipSpacesUnfolds`, `ColonNamesUnfolds` and so on) shows that its body descends, and
with it that the function is what its equation says. Where a function is applied to what it
answers (`SkipMultiComment`), the step looks first whether the inner answer is shorter; the function
that exists then always finds it so, and needs not look.

* *Reading on.* `Good` says of a reader that what it leaves is a suffix of what it was given, a shorter one
  unless it answers the end or an error. It is proved reader by reader (`StringIsGood`,
  `OperatorIsGood` and so on) and of the lexer (`LexerIsGood`); the case to look at is an
  operator cut short where a comment begins, which must keep at least one character.
* *Comments.* The lexer cuts at the first `*/` and looks back for an opening, which may share a character
  with it; the splitter counts. `CommentsCount` says that skipping one comment is counting from
  one to none, by induction on the text: when there is an opening before the first end, the
  lexer's two skips are the splitter's count up to two, down to one (`CountsAdd`) and down to none.
* *Binding.* `NamesAreBound` and `MarksAreBound` speak of sources that have been read, so neither is
  inductive. `Kept` is: what the lexer has read so far, followed by what a scan that began *here*
  would find, is what the scan from the beginning finds. It needs that a token ends where a
  scan is not inside anything. `Follows` says so of a token, and is proved for each: the scans
  pass spaces, words, numbers and operators character by character (`RunPasses`), pass a literal
  as the lexer does although that also joins what is continued behind spaces (`StringPasses`), find
  the name that the lexer took for a parameter (`ColonFollows`) and the `?` of an operator that is
  nothing else (`OperatorFollows`). That a source without comments, quoted names and dollars outside of its
  literals (`Plain`) has none in any rest either is `PlainHides`. `DistinctHolds` adds that every name is
  among the different ones, so that the index of its placeholder is that of its value.

`Kept` was checked by TLC over the sources of `binders` before it was proved.

Only model-checked: the two liveness properties, since TLAPS has no rules for fairness and
`ENABLED`; and what is said of `Reading`. The grammar of `Expression` is some thirty rules that
call each other through what they read, and `Typing` and `Reading` recurse on its trees. They use
`RECURSIVE` operators, with which the provers have no arithmetic; recast, they would be one function
on rules and texts, with an order that puts every call below its caller. `Skip`, the recursion
that `Expression` uses, is in them; `SkipWalk` is proved instead.

## Where code and documents disagree

Shown by a run each:

| Run | Document | Code |
|---|---|---|
| `doc_marks_in_order` | `POSITIONAL_PARAMS_PLAN.md:361`: each `?` has an index by order of appearance | each clause, each row of `VALUES` and each assignment of `ON CONFLICT` counts from 0 |
| `doc_starts_automatically` | `.automation/LABELS.md:72`: after approval implementation starts automatically | the monitor writes the lock that its own script then refuses |

Met while modelling, visible in the modules, and without a run of their own.
In definitions and data statements:

* `ALTER COLUMN` of a missing column removes the table, without an error (`jsql-utils.ts:226`,
  `parse-alter-table.ts:197`), where `docs/SUPPORTED-SQL.md:17` has `DROP` remove. `AlterColumnType`.
* `DROP TABLE` and `INSERT ... VALUES` expect two `;` and swallow the statement after them
  (`parse-drop-table.ts:34`, `parse-insert.ts:372`; `SUPPORTED-SQL.md:25`). `WantsSemicolon`.
* The walk does not stop at the first error (`SUPPORTED-SQL.md:25`): it is kept, and later
  statements are applied (`parse-sql-statement.ts:82`). `Fails`.
* The walk ends after 2500 calls with source left and no error (`parse-sql-statement.ts:56`),
  where `SUPPORTED-SQL.md:25` has it walk to the end of input. `OutOfBatches`.
* `SET DEFAULT`, `DROP DEFAULT` and `ADD CONSTRAINT` before the `;` consume it, and the list
  reads the next statement as a clause (`parse-alter-table.ts:293`; `SUPPORTED-SQL.md:141`).
  `NoOpClause`.
* `DROP SCHEMA` of a missing schema, among others, skips the *next* statement
  (`parse-drop-schema.ts:37`; `ERROR_HANDLING_REFACTORING.md:9`). `SkipsNext`.
* `DROP COLUMN` of a missing column, among others, leaves its rest to be read as a
  statement (`parse-alter-table.ts:125`; `ERROR_HANDLING_REFACTORING.md:108`). `LeavesRest`.
* `SET NOT NULL` writes the facts and leaves the type nullable, `ADD COLUMN ... NOT NULL`
  the reverse (`jsql-utils.ts:237`; `sql-type-shape.ts:7`).
* `ADD COLUMN ... NOT NULL` therefore makes no column required: an `INSERT` may leave it
  out, or give it null (`parse-insert.ts:199`). `Required`, `Fits`.
* A value that may be null is accepted for a `NOT NULL` column: the test looks at the type of
  the value only (`parser-validate-mutation-value.ts:27`), where `docs/enum-support.md:22` has
  `NULL` constraints validated. `Fits`.
* Columns that an `INSERT ... SELECT` leaves out are not looked at, and the number of its
  columns is tested against the numeric keys of a record keyed by names
  (`parse-insert.ts:302`). `SelectRows`.
* A column may be listed twice and assigned twice, which PostgreSQL refuses
  (`parse-insert.ts:153`, `parse-update.ts:136`). `ListColumn`, `UpdateSet`.
* `RETURNING` directly behind the assignments of `ON CONFLICT` is an error
  (`parse-insert.ts:752`; `SUPPORTED-SQL.md:118`). `ConflictSet`.
* `UPDATE ... FROM` and `DELETE ... USING` consume whatever follows the second relation
  as its alias (`parse-update.ts:363`, `parse-delete.ts:160`). `UpdateFrom`, `DeleteUsing`.

In queries. The first nine are the clashes that `odd` records:

* A CTE that `FROM` does not read still answers names (`parse-select.ts:213`). `UnreadCte`.
* A query in a select list does not see the `FROM` of the query it is in, which is not read
  yet, but what is around it. `AskedEarly`.
* A bare name is looked for in all levels at once, and of two equal aliases the outer one
  is not there any more (`parser-scope.ts:17`: "standard lexical scoping"). `HiddenAlias`.
* An alias given twice in a `FROM` replaces the first (`MergeScope`). `AliasTwice`.
* An alias is taken for a table's name by the tables behind it in the same `FROM`. `AliasAsTable`.
* A CTE is seen neither by the bodies of those behind it nor in nested queries: a table of
  the name is read instead. `OverlooksCte`.
* Two columns of a result with one name are one. `Resolves`.
* `*` without a `FROM` stands for the columns of the enclosing query. `Resolves`.
* `ORDER BY` does not look at the labels of the list. `LabelSorted`.
* A bare name that an inner and an outer query have is refused as ambiguous, as a consequence of
  the flat map. `ResolveColumnRef`.
* `*` is let through in grouped queries, and `HAVING` and `ORDER BY` are not looked at for
  grouping; `LIMIT` accepts a column. `ValidInsideGrouped`, `Term`.
* `a, *` is accepted, where `SUPPORTED-SQL.md:80` has `*` as the only projection. `StarNotAlone`.
* `select 1;` is accepted, where `SUPPORTED-SQL.md:81` requires a `FROM`. `NoFrom`.
* `EXISTS` sees the enclosing query, where `TODO.md:63` says it does not. `TermQuery`.

In expressions:

* `a * 2` is not read on behind `a`, `a + b` is an error, `NOT IN` is not read, nor anything behind
  a function's closing bracket. `ParseFromIdent`, `ParseAddLoop`, `ParseAfterRel`.
* A subquery numbers its `?` from 0, and the number outside goes on without them
  (`POSITIONAL_PARAMS_PLAN.md:361`). `ParseQuery`.
* `CASE` with a branch of null has a type that is not nullable (`parse-expression.ts:1852`;
  `SUPPORTED-SQL.md:102`). `ResolveArms`.
* A `?` beyond the end of the tuple is neither typed nor an error (`parse-expression.ts:1476`;
  `error-code-coverage.test.ts:180`). `ResolveExpressionAST`.
* `lower(1)` and `true::numeric` are accepted, `coalesce(null, 1)` takes the first's type, and
  `= ANY(array)` compares no classes. `ResolveFunctionCall`, `ResolveAnyAllSome`.

In the lexer, the binders and the splitter:

* The binders replace parameters in comments, quoted names and dollar strings, which the lexer
  skips (`bind-colon-named-params-for-pg.ts:2`: aligned with the lexer). `Plain`.
* The lexer takes `:1` for a parameter, the binder does not; an operator with a `?` in it is one
  token, of which the binder replaces the `?`. `Plain`, `wide`.
* An array of values with a `?` that is only in a literal sends none of them. `Sent`.
* An unclosed `"` and a `$` that begins nothing are not consumed (`sql-lexer.ts:49`, `:71`):
  a skip there would never end. `ReadsOn` therefore allows for an error to stand still.
* An operator directly before `/*--` keeps the opening of the comment (`sql-lexer.ts:190`). `ReadOperator`.
* The splitter ignores unmatched closing brackets, at which the skips stop. `OpenBehind`.

In the automation:

* The lock is tested and written in two commands (`auto-implement-issue.sh:75`), so two runs pass it,
  which `:72` says it prevents. `CheckLock`, `WriteLock`.
* A lock that survives a crash hides its issue from every later scan
  (`monitor-github-labels.ts:368`; `MONITOR-README.md:151`). `GoesDown` leaves `locks`.
* The monitor removes the lock of an issue when its own worker ends, also when the lock is that of
  a run by hand (`monitor-github-labels.ts:353`). `RemoveLock`.
* A run that finds a lock leaves the label `in-progress` behind
  (`auto-implement-issue.sh:70`; `LABELS.md:106`). `CheckLock`.
* A run without a pull request succeeds: `$?` is that of `tee`
  (`auto-implement-issue.sh:383`, `:412`). `CreatePr`.
* The poller, unlike the scan, does not look at `in-progress`
  (`monitor-github-labels.ts:173`; `LABELS.md:256`). `News`.
* A shutdown leaves the locks of the runs it abandons
  (`monitor-github-labels.ts:534`; `MONITOR-README.md:25`). `Shutdown`.
* A webhook approval between the scan's look and the server's start is lost
  (`monitor-github-labels.ts:548`; `MONITOR-README.md:151`). `Deliver`.
* The poller forgets nothing, so it misses that an approval was withdrawn and given
  again (`monitor-github-labels.ts:180`, against the comment of `:179`). `PollPush`.
* Workers are to print completion messages (`MONITOR-README.md:23`, `:165`); none does,
  and the monitor goes by their exit. `Report`.

## What is not modelled

* *Queries.* `DISTINCT`; names with a schema (`schema.table.column`); expressions that
  contain columns, other than a column and an aggregate of one; the types on both sides of an
  `ON`, which may misfit; of `RETURNING` and of some malformed heads of a `SELECT`, that they come
  out as `never` (`DISTINCT` behind `WITH`, a missing `AS`). A `SELECT *` with nothing in scope, whose
  row has every name.
* *Expressions.* A query in brackets is one token, accepted and of one column; what is in it is
  `Select`'s. `WITH` in brackets. The types of named and positional parameters are constants.
  `?` in `OPERATOR(?)` is an operator's name.
* *Brackets that are opened and never closed*, which let a skip run over all that
  follows, and an unread rest that itself begins like a statement.
* *Tokens.* Skips are by what they stop at. Brackets are taken to be balanced but in
  malformed statements and unread rests. Quoted and qualified names are names.
* *The compiler.* Its limits on depth and instantiations are not modelled:
  a script within the walk's 2500 calls may still be too much for it.
* *Types.* SQL types and their arguments are opaque; conversion to TypeScript is a table.
* *Automation.* `gh` lists thirty issues at a time; closed issues; the server of the
  webhook that starts after a shutdown during the scan; the clean-up script. The agent,
  its tests and git are one step with the outcomes the script tells apart.
* *Texts of words.* The lexer's words are not told apart, nor keywords from names.
* *Driver, streams*: see the plan. The tokens of the splitter are not modelled, its grouping is.
* *Error catalogue, type conversion, NestJS module*: no state and no order.

## Plan

Order of the modules, most important behaviour first:

1. `Jsql`, `Ddl`, `Catalog`, `DdlProofs`: done.
2. `AutoImplement`, `Monitor`, `MonitorProofs`: done, but for liveness, which stays with TLC.
3. `Dml`, `DmlProofs`: done, against `Ddl`'s query as the abstract specification.
4. `Lexer`, `LexerProofs`, `Binders`, `BindersProofs`, `Skip`, `SkipWalk`, `SkipWalkProofs`: done. `Expression`,
   `Typing`, `Reading`: done, but for nullability, whose property does not hold of the code. To prove: that `?` are
   numbered as they are bound, with the rules of the grammar as one recursive function, by the induction
   of `LexerProofs`.
5. `Select`, `SelectProofs`, `SelectNamesProofs`: done.
6. `Driver`: connect, close, the cursor of a stream and its abandonment
   (`postgres-sql-driver.ts`, `sql-database.ts`).
