# xmdb in TLA+

Specifications of xmdb, a small SQL database server written in C++: TLA+ modules
from the tabs of its web interface through its SQL front end to the pages of its
files, TLC configurations that check them on small instances, and TLAPS proofs of what
holds for every value of the parameters.
Paths are those of the repository (`src/Core/...`, `tests/...`); `PROJECT.json`
names the lines each definition stands for.

 1. [The system](#1-the-system): parts, state, operations, what is hard, what makes each correct
 2. [The modules](#2-the-modules) and how they correspond to the code
 3. [The runs](#3-the-runs), their bounds, and the fairness assumed
 4. [The proofs](#4-the-proofs)
 5. [What the code does otherwise than it says](#5-what-the-code-does-otherwise-than-it-says)
 6. [What is not covered](#6-what-is-not-covered)
 7. [What could follow](#7-what-could-follow)

## 1. The system

```
 gui/ in a browser: tabs, pages, requests under way, what is kept for the next time
    |
    v
 client --HTTP--> Server/http.cpp --> Server/connection.cpp      sessions
                       |
                       v
                  Core.cpp: compile_and_execute_source
                    |                           |
                    v                           v
        SQL/: lexer, parser, ir,     DBConnection.cpp, QueryExecutionContext.cpp
        type check                     phase 1: IR instructions -> query graph
        (against a copy of the         phase 2: the graph -> table files
         list of databases)                |                    |
                    \                      v                    v
                     `----------->  DBPool, DBDescriptor    DBTable: record file
                                    (list of databases)     + BTreeIndex file
                                           |                (+ image files)
                                           v
                                    catalog.cpp: one catalog file
```

The server has one thread: a request is handled to its end before the next one.
What interleaves is *requests of several sessions* and *the process ending between
two writes of a file*. There is no log and no recovery code: a restart reads what
the files hold. A failed assertion (`OK_ASSERT`, `OK_VERIFY`) ends the process.

### Inventory

**B-tree index** (`Core/BTreeIndex.cpp`). *State*: a header page (nodes, row count,
height) and node pages in a file; header and root cached in memory; the next page
id in memory only. *Operations*: create or reload, insert (split on the way down,
three page writes for a split, one for the leaf, one for the header), reset,
contains. *Used by* the table, which asks for nothing but the row count. *Hard*: a stop
between page writes, the cached root against page 0, the page ids after a restart,
index arithmetic of a split, trees too large for a unit test. *Correct* if each key
is stored once, is found, the tree is balanced, a node written to has room, and the
row count survives.

**Table files and statements** (`Core/DBConnection.cpp`, `Core/state.cpp`,
`Core/DBTable.*`). *State*: records in a file with a record count in its header, the
count in memory, a buffer of 32 rows, and the index. *Operations*: INSERT (fill the
buffer, flush it), DELETE (reset the index, then the record file), UPDATE (one column,
row by row, in place), SELECT (as many values as the index counts rows, from a stream
that ends with the record count). *Hard*: two counts of the same rows written one
after the other, the buffer at its limit, positions against names of columns, a stop
in every gap. *Correct* if a SELECT returns the rows of the completed statements, and
a statement is there whole or not at all after a restart.

**Database pool, descriptors, users** (`Core/DBPool.*`, `Core/DBDescriptor.*`,
`Core/DBUser.*`). *State*: a linked list of databases, in each a list of users and of
tables. *Operations*: CREATE, DROP and USE DATABASE, CREATE and DROP TABLE, CREATE and
ALTER USER. *Interacts*: every session holds a pointer to a database, the compiler a copy
of the list and a position in it. *Hard*: a session whose database another session
drops, the position against the pointer, names looked up by first match. *Correct* if names
are unique, compiler and execution mean the same database, and each statement
changes the one thing it names.

**Catalog** (`Core/catalog.cpp`). *State*: one file, overwritten in place after each
statement that changes the pool (not after CREATE DATABASE), one write for each entry, never
truncated. *Hard*: a refused save, a stop between two of its writes, entries of older and
longer lists behind the new ones, lists that come back reversed. *Correct* if a restart has what the last
save had, and nothing that was answered is lost.

**Connection table** (`Server/connection.cpp`, the hash table of `Core/ok.hpp`). *State*:
identifier -> connection in an open-addressing table, a free list, a time stamp each.
*Operations*: get (renews the stamp), make (removes expired ones while it walks the table,
recycles their data, may copy the table). *Hard*: removal during the walk, a removal that
looks only where a key hashes to, recycled data, growth in the middle. *Correct* if an
identifier leads to the connection it was given for until that expires, and to nothing
afterwards.

**HTTP handlers** (`Server/http.cpp`, `obj.cpp`). connect, query and list of tables;
they choose the active database of a query and read the result of a SELECT while they
format it, after the query was executed.

**SQL front end** (`SQL/Lexer.*`, `Parser.*`, `ast.*`, `ir.*`, `type_check.*`). *State*:
tokens; a tree per statement; the schemas of a query, extended as its statements create
tables, and the namespace of the statement; a graph of each statement; the instructions;
the types of all values. *Hard*: state that outlives a statement of the query (lists that
are reset by hand, nodes shared by equal expressions, an operand nobody sets), positions as
one byte. *Correct* if nothing of a query is lost, names mean the table of the database in use, what
is accepted fits, and one statement does not change the verdict on another.

**Query graph and execution** (`Core/QueryGraph.hpp`, `Core/QueryExecutionContext.*`,
`Core/DBConnection.cpp`). Phase 1 runs the instructions (DDL takes effect here, DML becomes
nodes of a graph), phase 2 the graph. A failure jumps out (`longjmp`) with everything before it
done. *Hard*: the two phases reorder statements, results are read lazily, a context is reused. *Correct*
if a query means its statements one after the other, and one that fails has done whole
statements only.

**Table streams, column types, images** (`DBTable.cpp`, `DBValue.hpp`, `Value.hpp`): columns, constants
and calls as streams of values; an image is a position in a list of images, stored as
four bytes and read as one. **Table descriptors** (`DBDescriptor.*`): files named after the table.

**Web interface** (`gui/src`). *State*: tabs and the active one, the page, the connection, the list of tables,
requests that wait for an answer; tabs in IndexedDB, the connection in localStorage. *Operations*: the
handlers of clicks, the effects after a change of page or connection, the continuations of fetches,
restoring and writing of tabs. *Hard*: page and active tab are two variables, answers come in any order or
never, restoring is asynchronous. *Correct* if tabs show what came of their last query, the list is that of the
connected database, page and tab go together, and tabs outlive the page.

**Without protocol state**: arenas, logger, SHA-256, argument parser, command line client, IR
dump, plugin loader, WASM build of the parser. `PROJECT.json` lists each with the reason it is
left out.

## 2. The modules

| module | what it is | of |
|---|---|---|
| `PersistentCounter` | abstract: a counter in a file | what `BTreeIndex` is for a table |
| `BTreeIndex` | detailed: pages and writes | `Core/BTreeIndex.cpp` |
| `RowStore` | abstract: rows in order of insertion | what the files of a table promise |
| `TableFile` | detailed: statements, buffer, two counts | `DBConnection.cpp`, `state.cpp` |
| `Directory` | abstract: databases, tables, users by name | what pool and catalog promise |
| `CatalogFile` | functions: what a save writes, cut anywhere, and a load reads | `catalog.cpp` |
| `Catalog`, `MCCatalog` | detailed: list, descriptors, sessions, catalog file | `DBPool.cpp`, `catalog.cpp`, `http.cpp`, ... |
| `SqlLexer`, `SqlTree`, `SqlParser` | functions: text to tokens to trees | `Lexer.*`, `ast.*`, `Parser.cpp` |
| `SqlCompiler`, `SqlTypeCheck` | functions: tree to instructions, their types | `ir.cpp`, `type_check.cpp` |
| `SqlPrinter` | functions: trees to the words they were read from | inverse of the parser, the measure of `SqlReader` |
| `SqlReader` | the `Parser` object: lexer, then statement after statement | `Parser.cpp` |
| `SqlFrontEnd`, `MCSqlFrontEnd` | the four stages over the queries of a client | `SQL.cpp` |
| `TableStream` | functions: values, streams, cells | `DBValue.hpp`, `DBTable.cpp`, `fill_column` |
| `QueryMeaning` | abstract: what statements say, one after the other | |
| `QueryExecution`, `MCQueryExecution` | detailed: instructions, nodes, answer | `DBConnection.cpp`, `QueryExecutionContext.cpp`, ... |
| `HashTable` | functions: alloc, get, put, remove | `ok::Table` |
| `ConnectionTable`, `MCConnectionTable` | identifiers, walk, free list, time | `connection.cpp` |
| `WebTabs` | functions: the store of tabs | `global-states.ts`, the effect of `MainLayout.tsx` |
| `WebClient`, `MCWebClient` | clicks, effects, requests, the browser's database | `gui/src/components` |
| `NatSets` | least and greatest elements of sets of naturals | lemma for the scanning loops |
| `BTreeIndexProofs`, `BTreeAppendProofs` | theorems | of `BTreeIndex` |
| `TableFileProofs`, `CatalogProofs`, `SqlReaderProofs`, `ConnectionTableProofs`, `WebClientProofs` | theorems | of the module each is named for |

`BTreeIndex` implements `PersistentCounter` (`CounterSpec`). A table asks its index for the row count only, so
in `TableFile` the index *is* such a counter, `kvMem` and `kvDisk`: the two modules meet there, and
neither carries the other's state. `TableFile` implements `RowStore` (`StoreSpec`) and
`Catalog` implements `Directory` (`DirectorySpec`). All are instances with a
refinement mapping, checked as properties and proved.
`SqlFrontEnd` and `QueryExecution` use the same compiler and type checker: one checks what they
make of a text, the other executes what they make of a tree. `ConnectionTable` and
`WebClient` use `HashTable` and `WebTabs` as functions on their state.

### BTreeIndex

One action is one file write and the computation before it. `BeginInsert` and
`BeginInsertFullRoot` are `BTreeState::insert` up to its first write; `Descend`,
`DescendFullChild`, `DescendShortRead` and `DescendOutOfBounds` are one level of
`insert_non_full`, by whether the child has room, is full, is not in the file, or makes
the shift loops of `split_child` leave the slice; `WriteParent`, `WriteChild`,
`WriteSibling` are the three writes of a split, `WriteLeaf` and `WriteHeader` the end of an
insert. `Stop` is possible everywhere; `Create` and `Reload` open the file.

Kept: keys and children above a node's count (the code never clears them and a split
exposes them), the gap of zeros when a page is written behind the end of the file, the
insert that goes on in the left half whatever its key, the page id counter that
restarts with the process. `T` is `BTREE_ORDER` (128). A write of one page is
atomic. `history` and `torn` are ghosts: the keys that were inserted, and whether a stop
cut an insert.

### TableFile

`Insert` takes a column list and rows; `BufferRow`, `FlushFullBuffer` and `FlushRest` are
the loop over the rows, `FlushIndex`, `FlushRecord` and `FlushSync`/`FlushSyncLast` are
`flush_buffer`, for each row an insert into the index and the write of a record, then
the record count. `Delete` resets the index and `DeleteRecords` the record file. `Update`,
`UpdateCell`, `UpdateDone` are WRITE_COLUMN with a constant or another column as
source. `SelectShort` and `UpdateShort` are the failed assertions when the index counts
more rows than the record file; a SELECT that finds all its values changes nothing and
is no action.

Kept: records are placed by the record count and counted by the index, the row
that meets a full buffer is not stored, values go by position. All columns have one type
(`fill_column` stops on another size). `acked`, `meant` and `cut` are ghosts: what
completed statements should leave, and which kinds of statement a stop has cut.

### Catalog

A request is one statement. `descriptors` is the memory that is never freed, `dbs` the list
(head first) and a session a pointer `db` with the compiler's position `active`, so
a session keeps using a database that was dropped, as in the code. `Active(s)` is the loop
of `run_query_handler`; `InBounds`, `KnownTable` is what the compiler sees,
`HasTable` what the execution sees, and `FailsAssertion` a statement for which they
disagree. A statement that changes the pool moves `pc` to "save", and no request is
handled before `SaveRefused` (the file cannot be opened: an error is answered, the change
stays), or `SaveBegins` and `SaveEnds`. `Stop` is possible between those, and `StopSaving` after any of the
writes of a save. `Start` is `catalog_load` with its reversals, from whatever the file then has. `Expire` is a connection that timed out; *when* it may is
the connection table's, so any time is allowed.

`DropsFirst` says whether DROP DATABASE may name the head of the list. The code then
loses the whole list; the passing run excludes it to check everything
else, and the run that includes it shows the loss (section 5). Of the theorems only that of `Directory` excludes it.

`CatalogFile` keeps the entries of the file with the byte they begin at. `Written(file, list, cut)` is the file after the
first `cut` bytes of a save: new entries before `cut`, old ones behind it, and none where an old one was cut into. A load
reads from the header as many databases as it counts, each entry where the one before it ended, so
it may go on into what an older list left (`Reading`), meet the end of the file, which fails an assertion, or find bytes
that are no entry where it expects one. What it makes of such bytes is `Misread`, a parameter: any lists at all in the proofs, and in
the runs a list with a database and a user twice. `torn` is an observer: a save was stopped with neither the old list nor the new one
in the file. From then on the code keeps none of the promises on names and on what is saved (section 5), and `NamesUnique`,
`OnlyEmptyUnsaved` and `DirectorySpec` say so; `TrapOnlyAfterDrop` and `TypeOK` hold on.

`Directory` forgets the order of the lists, positions and pointers: a tree of names
(`TreeOf`). Its promise is that a statement changes one database, in one of four ways,
that nothing but a save changes what a restart finds, that a restart has exactly
that, and that a save stopped half way has left the old tree or the new one, unless it left parts of both (`Tear`).

### SqlReader and SqlFrontEnd

A query is received as a sequence of pieces: a word, a number, a symbol, a blank or a quote is one
piece, so the lexer's loops are kept and spelling is not. `LexToken` is one `Lexer::next`,
`ParseStatement` one statement, `Compile` one turn of `ir_compile_query`, `CheckInstr` one
instruction of the type check, and `EndOfParse`, `EndOfCompile` and `EndOfCheck` what
`compile_and_type_check_source` does between them. A function of the parser, the compiler or the checker takes its state
and gives the next one, with `fail` for the error (`rejected`) or the failed assertion
(`trapped`) that ends it.

`SqlReader` is the first half, up to the syntax trees, and `SqlFrontEnd` all of it: each of its actions is one of `SqlReader`
conjoined with what happens to the compiler and the type checker (`LaterStage` is all the reader sees of these). So a behaviour of
`SqlFrontEnd` is one of `SqlReader`, and what is proved of the reader holds in the front end. The recursive descent is a function
from a rule and a position to the parser behind it (`Descent`), and `SqlPrinter` takes nodes off a list of work; neither is
a recursive operator, as nothing can be proved in a module that declares one.

Kept: the schema lists with their first match, a `USE` and tables made by the query itself, the graph in
which equal expressions are one node (and a column and a table of one name too), the second `*` that never gets a value,
the operand of EmitQuery nobody sets (`Junk`), the position of a database that wraps (`IdRange`, 256 in the code), the list of inserted
columns that is never emptied, an INSERT whose table name was never read.

### QueryExecution

One action is one instruction (`Exec...`) or one node (`Run...`). `Receive` is the handler up to `execute`, compile and type check
included; `Respond` is its loop over the rows. `RunAtomic` runs all of its `AlterUser` nodes, as the code does in one node of the graph. Tables are `heap`, databases `dbs`, and `pool` the list of them; `files` has what
the files of a table hold by the name of the table, which is how the code finds them. A context is rented with the emitted
columns of the last query behind the end of its list. A query may fail, in which case the actions before it stay done;
`SyncOutcomes` says whether the catalog can be saved, `OpenOutcomes` whether the files of a new table can be opened. `ReadAs` is what becomes of a
number that needs more than 64 bits, `NoSizes` the numbers that `RGB` fails an assertion for, `BigImages` those that cannot be stored.

`QueryMeaning` gives a meaning to every statement on functions from names. `Usual` names the queries for which code and
meaning agree; the others are listed in section 5.

### ConnectionTable

`Connect`, `Drop`/`Keep` for each slot of the walk, `Allocate` or `Recycle`, then `Put`, with `Copy` for each slot
when the table is crowded. `Use` is `get_connection_data`. `apart` is an observer: whether every key was put in the slot it hashes
to. `remove` clears that slot without looking further, so what the table promises depends on it.

### WebClient

A handler runs to its next `await`: `Run` is `runQuery` up to its fetch and `QueryAnswered`, `QueryFailed` and `QueryLost` what follows;
`Refresh`, `ListAnswered` and `ListFailed` are the effect of `Sidebar`. `Settle` is the effect of `MainLayout`, `Hydrate` and
`Write` are the two directions of the storage of zustand's `persist`, `Load` a loading of the page at any moment. `Serve` executes a request that was sent, in
any order; `Expire` is the timeout of a connection. A text is a number that says whether it changes tables or shows pictures.
Identifiers of tabs are numbered, where the code takes `Date.now()`. `Without` is the `filter` of `closeTab`, written as a recursive function and not with
`SelectSeq`, which the prover cannot expand.

Assumed: a click comes after the effects of the last change of page and after the tabs were restored, which takes milliseconds;
the browser's database executes a read before the writes requested after it; a page is loaded in the same browser.
`mixed`, `stale`, `late`, `early` and `lost` record the events after which the code cannot keep a promise, each named in
the property it appears in.

## 3. The runs

Passing runs; those of one module fire each of its actions between them.

| run | properties | instance and bounds |
|---|---|---|
| `btree_append` | `RootCached`, `EveryKeyStoredOnce`, `Balanced`, `NoTrap`, `InsertReturns` | keys that never decrease, T = 2, 11 operations: a tree of height 3 |
| `btree_restarts` | `TypeOK`, `InsertHasRoom`, `FoundUntilSecondSplit`, `CounterSpec` | any order of 3 keys, 9 operations, 2 openings, stops at any write |
| `table_statements` | `SelectReturnsCompleted`, `StatementsStoredWhole`, `IndexNotBehind` | 2 columns, 2 values, INSERTs up to the buffer of 2 rows, 3 statements, 2 openings |
| `table_store` | `TypeOK`, `StoreSpec` | a buffer of 1 row, INSERTs of twice the buffer, columns in any order, 1 opening |
| `catalog_restarts` | `TypeOK`, `NamesUnique`, `TrapOnlyAfterDrop`, `OnlyEmptyUnsaved`, `DirectorySpec`, `CutSaveKeepsAccounts` | 3 databases, 1 table name, 1 user name, 2 passwords, 2 sessions, 4 changes, 2 restarts |
| `sql_queries` | `ReadingAdvances`, `LexerLosesNothing`, `ParserLosesNothing`, `TablesAreThoseInUse`, `AcceptedValuesFit`, `AnswersHaveTheColumns`, `VerdictsAreIndependent`, `OrdinaryQueriesDoNotTrap`, `QueriesAreAnswered` | 3 databases; 31 statements alone, cut anywhere, in all pairs; all texts of up to 4 pieces of 8 kinds |
| `query_execution` | `QueriesMeanWhatTheySay`, `FailuresKeepPrefix`, `OrdinaryQueriesRun` | 2 databases, 3 tables; 50 statements alone, in pairs, as two queries, many triples |
| `connection_table` | `PutFindsRoom`, `HomesUntilWrap`, `IdsLeadToTheirSessions`, `OnlyIdleDropped` | 3 slots at first, 5 identifiers, 2 sessions, time to 4, timeout 2 |
| `web_tabs` | `PageShowsActiveTab`, `TabsOutliveThePage` | 4 clicks, 3 numbered tabs, all pages, one loading |
| `web_requests` | `TabsShowTheirLastAnswer`, `ListIsCurrent` | 3 clicks, 4 requests before the refreshes they cause, 2 databases, one connect, one fault, one loading |

What they show, and why the bounds reach it:

* *Index.* T = 2 is the smallest degree with splits. The fourth key splits
  the root, the sixth of an ascending sequence a child of the root, and 11 of them the
  root a second time; 9 operations in any order, resets among them, give the first two kinds of
  split before and after a restart. `EveryKeyStoredOnce` holds after every write but
  those of the parent and of the left half, when keys are in two pages or in none that can
  be reached: that gap is what a stop makes of the file. `btree_append` has the keys a table really
  inserts (row numbers, or zeros without an integer key). There every split is
  that of a last child, so no page is lost and no child overwritten; lookups are still wrong
  (section 5). `FoundUntilSecondSplit` draws the line: lookups are right up to
  the first split of the root, which is as far as the unit tests go.
* *Table.* Three statements are enough for INSERT, stop and INSERT, with the DELETE or
  UPDATE that disturbs the counts between them; a buffer of 2 rows is full, half
  full and empty in turn, and of 1 row overflows with the next. `SelectReturnsCompleted` relates
  the index, the record count, the records and everything that was answered. With a stop inside a statement
  the properties say exactly what is lost: INSERTs and DELETEs are whole in the records
  (`StatementsStoredWhole`), the index may be ahead but never behind unless a DELETE was
  cut (`IndexNotBehind`).
* *Catalog.* Two databases and two sessions are what a dropped database under another
  session needs; four changes allow drop, make again, and change it through the old
  pointer, and with the third database a list whose first two entries are overwritten by a shorter one and whose last is
  an old one. A stop is tried after each write of each save, and the next process starts from the file that leaves.
  `CutSaveKeepsAccounts` is the case in which a stop anywhere does no harm: passwords change and no entry moves. One table name is enough for the compiler and the execution to
  disagree on it. With one user name CREATE USER only happens in a database made by CREATE
  DATABASE, which has no users, through a session that uses it: that is the case in which
  permissions and loaded order matter. `SessionSymmetry` is sound, as all properties are of states
  or single steps and no constant names a session.
* *SQL.* The state that outlives a statement is between two neighbours, so all pairs of one
  statement of each kind (with its odd forms) show it; a query cut anywhere is every error of the parser.
  `IdRange` = 2 with three databases makes the position of a database wrap, as 257 would in the code; `Junk`
  is one operand that names a schema of the query and one that does not.
* *Execution.* `QueriesMeanWhatTheySay` compares the whole state of the server and the answer with `QueryMeaning`;
  triples that begin with USE, CREATE or INSERT give a table, a database or a user made, used and dropped in one query. `ImageRange` = 2
  and three inserts of an image reach the position that wraps; `StaleCounts` are a count an unset
  field can read as; `SyncOutcomes` and `OpenOutcomes` have both outcomes of a save and of opening files at every statement. A
  number past 2^64, one that is no size of an image and an image that is too big each occur with every other statement.
* *Connections.* With three slots and a limit of 70 % the fourth connection copies the table if the three before are
  kept, and wraps round it if one of them expired; time to 4 with a timeout of 2 lets a connection expire, be recycled and expire again.
  The symmetry of sessions is sound: no property names one.
* *Web.* Four clicks open two tabs, change the page behind them and close one, on any of the five pages, with back and forward as
  links to any page. Three clicks are an edit, and two queries or a query and a connect, which with the refreshes
  they cause overlap in every order; one fault is a lost request, a lost answer, or a connection that expired in
  between.

Runs with a counterexample check one statement of the repository each: `table_full_buffer` and
`catalog_drop_first`, see section 5.

CHECK_DEADLOCK is FALSE where counters (`MaxOps`, `MaxStatements`, `MaxChanges`,
`MaxOpens`, `MaxStarts`, `MaxIds`, `MaxTime`, `MaxClicks`, ...) or the end of what a client sends end a behaviour, and where a
process stops for good; in `sql_queries`, where the next query always comes, it is checked.

**Fairness.** `btree_append` assumes `WF_vars(InsertStep)`, that an insert which
has begun takes its next step. It is a function call of the one thread; it does
not wait for a lock, a message or another request. It does *not* assume that the process keeps
running: `Stop` disables the steps and ends the insert. `InsertReturns` is about a descent
that must not follow child ids for ever. `sql_queries` assumes the same of the stages of the front end, which are
loops of one call: `QueriesAreAnswered` is that they end, and that the query is then accepted or rejected unless it is one of those an assertion
may stop the process for (`MayEndTheProcess`, section 5). The others have no fairness and no
liveness: nothing makes a user click or a network deliver.

Every property of a passing run has a faulty variant of one definition, named
`<Definition>_<Fault>` beside it, that TLC finds to violate it.

## 4. The proofs

`tlapm` checks these for all values of the constants that the assumptions in the modules admit
(`OrderAssumption`, `TableAssumption`, `NameAssumption`, `ConnectionAssumption` ...: degrees at least 2,
a buffer of at least one row, a table of at least one slot, bounds that are naturals, links that lead to pages).

| theorem | states | assumes |
|---|---|---|
| `BTreeIndexProofs!SpecTypeOK` | shapes of pages, file without gaps | |
| `BTreeIndexProofs!SpecInsertHasRoom` | an insert only descends into a node with room | |
| `BTreeIndexProofs!SpecImplementsCounter` | the index is a `PersistentCounter` | |
| `BTreeIndexProofs!SpecFoundUntilSecondSplit` | in any order of keys and across restarts a lookup finds every key up to the second split | no insert cut short, as in the property |
| `BTreeAppendProofs!AppendEveryKeyStoredOnce` | each key is in the tree as often as it was inserted | `InsertOrder = "append"`, `MaxOpens <= 1` |
| `BTreeAppendProofs!AppendBalanced` | one tree, all leaves at the height, no page a child twice | the same |
| `BTreeAppendProofs!AppendNoTrap` | no insert leaves the file or the slice it shifts | the same |
| `BTreeAppendProofs!AppendRootCached` | the root in memory is page 0 between inserts | the same |
| `TableFileProofs!SpecTypeOK` | shapes; the buffer never overflows | |
| `TableFileProofs!SpecImplementsStore` | the record file is a `RowStore` | |
| `TableFileProofs!SpecSelectsCompleted` | a SELECT returns what completed statements leave | `MaxBatch <= Capacity`, `~AnyColumnOrder` |
| `TableFileProofs!SpecStoresWhole` | INSERT and DELETE whole at every stop | the same |
| `TableFileProofs!SpecIndexNotBehind` | no stored row is beyond the row count | |
| `CatalogProofs!SpecTypeOK` | pointers lead to descriptors, each database listed once | |
| `CatalogProofs!SpecNamesUnique` | names are unique in memory and in the catalog | no save that left parts of two lists, as in the property |
| `CatalogProofs!SpecTrapOnlyAfterDrop` | only a session of a dropped database fails an assertion, whatever was loaded | |
| `CatalogProofs!SpecOnlyEmptyUnsaved` | between statements only empty databases are not in the catalog | no save that left parts of two lists, as in the property |
| `CatalogProofs!SpecImplementsDirectory` | databases, sessions and catalog file are a `Directory`, stops at any write of a save included | `~DropsFirst` |
| `SqlReaderProofs!SpecReadingAdvances` | lexer and parser move on with each call and stay in the query | |
| `SqlReaderProofs!SpecLexerLosesNothing` | tokens follow each other and cover the query; error messages lead back to them | |
| `SqlReaderProofs!SpecParserLosesNothing` | the trees of a query that parses print its tokens | |
| `ConnectionTableProofs!SpecPutFindsRoom` | the walk of `put` ends | |
| `ConnectionTableProofs!SpecHomesUntilWrap` | keys lie at their homes | identifiers up to `FirstCapacity`, as in the property |
| `ConnectionTableProofs!SpecIdsLeadToTheirSessions` | an identifier leads to its session or to none | keys at their homes, as in the property |
| `ConnectionTableProofs!SpecOnlyIdleDropped` | only idle connections are dropped | the same |
| `WebClientProofs!PageIsThatOfTheTab` | the page shown goes with the active tab | |
| `WebClientProofs!TextsSurviveLoading` | texts outlive a loading of the page | no loading that came too early, as in the property |
| `WebClientProofs!AnswersReachTheirTabs` | no spinner outlives its query, a tab shows its last answer | no answers that overtake, as in the property |
| `WebClientProofs!SidebarIsCurrent` | sidebar and object tabs show the tables of the connection | no event that makes the list stale, as in the property |

The two conditions of the table theorems are needed: with larger INSERTs or reordered column lists the statements
are false (section 5); `table_full_buffer` is the counterexample of the first. So is that of the directory: dropping the
head of the list empties it (`catalog_drop_first`). The two of the tree are those of `btree_append`: the keys a table inserts, and a file that is
opened once. With keys in any order the tree loses keys, and after a reload new pages take the place of live ones, as page ids start again (section 5).

*The index.* `InsertHasRoom` is not inductive: after a split the insert goes on with the
parent or the left half, and has room only if that node has. `StepInv` adds this for the
node named by `resume`, and that header and root are in the file while it is open. The lemmas
on `InsertSlot`, `RightHalf`, `Adopt` and `Written` bound the slots; `NatSets` gives the
slot that the scanning loops find. The refinement needs only that the row count in memory is the
one in the file between writes.

*The tree in order.* `Tree(t, b, n, h, d, B)` says that the pages of `t` numbered 0 and `b + 1` to `n`, those written since the last reset, are one tree of height `h`: `d` gives each page
a depth, a child is one deeper than its parent, leaves are the pages of the last depth, each page but the root is at one place of one parent, and no key is above `B`. Depths in place of
paths keep recursion out of the argument; `LevelsOfTree` ties them to the levels that `Balanced` and `Reachable` count. `AppendInv` says that the file is such a tree in which every key is as
often as it was inserted, and that the insert under way has come to a page of it. While a split is written, the tree is in memory (`InMemory`): the file has the pages of it that are not `Pending`.
Three lemmas carry the steps: `LeafInsert` (a key not below any other goes behind the last of its leaf), `SplitLastChild` (the three pages of a split are again a tree with the
same keys) and `Lift` (the root moved to a page of its own is a tree that is one higher). Nothing is shifted on the way, which is why no loop leaves its slice. Keys are
counted by `Places`, the pairs of a page and a slot.

*Lookups.* Up to the second split the tree is a sorted leaf, or a root with one key above two sorted leaves that hold the keys on its two sides (`FewPages`). `FewInv` says that the
file is such a tree with all keys that were given, while it is open and while it is closed. `RootSplits` covers the split of the root, whose halves wait in memory until they are written,
and `GoesDown` says that an insert goes to the leaf of its key. The lemma `InsertSlotIs` (the slot is the first whose key is not smaller) keeps the leaves sorted. A lookup in such a
tree takes at most two steps, so it needs `SearchPath` only at its first two values. Keys need not grow here and the file may be loaded again; what ends the argument is a
second split. TLC checked `FewInv` on the instance of `btree_restarts` before it was proved.

*The table.* `IndInv` (types, `FilesInv`, `StepInv`) says how far the record file
reaches at each step; it carries the refinement, without any condition.
`CommitInv` relates the statement in progress to what was answered: the rows of the INSERT
are split between buffer and rest (`InsertInv`), the counted records are the
acknowledged rows but for the cells an UPDATE has reached (`RowsInv`), the index is
ahead by what the flush has done (`CountInv`). `AheadInv` is what is left of
`CountInv` once statements are cut.

*The catalog.* The position the compiler takes is found by name, and the execution follows
a pointer; that both mean one database needs names to be unique in the list
(`ActiveIsMine`). Uniqueness needs types, and the types need uniqueness, since a
statement changes "the first user of this name": `IndInv` has both, with facts on sessions
and on the process that stopped (`ClosedHasNone`, `CulpritDown`), with `FileHolds` (`catalog` is what a load reads from the file, which has
a list unless it is torn) and with `HoldsFirst`, which says of a torn catalog what is left of uniqueness: a session holds the first database
of its name, or none of the list. That is why `TrapOnlyAfterDrop` lasts where `NamesUnique` ends. Loading reverses lists, which keeps them
injective and unique (`ReversedInjective`, `ReversedUnique`).

*The file.* That a save can be read again is a fact about places, since behind the new entries there may be any old ones. The places of a list are a
recursive function of a finite domain; that there is one, and only one, is an argument by a least counterexample (`ChainExists`, `ChainUnique`). They
grow (`PlacesGrow`), the parts of an entry lie between its place and the next (`UserPlaceIn`, `TablePlaceIn`), so the entries of one kind do not overlap
(`DbOnce`, `UserOnce`, `TableOnce`), and what a load finds where it looks is what the save put there (`ReadBack`), at any size of the old file.

*The directory.* The mapping takes a list to its tree: a function from names to contents, without order.
With unique names the tree has, under the name at each position, the content at that position (`TreeAt`), and is the only
such function (`TreeIs`). A stop in a save that leaves one of the two lists is `StopSaving` (`WholeDirectory`), any other `Tear` (`TornDirectory`). From these follow the tree after each kind of step (`TreeAfterCreate`, `TreeAfterDrop`,
`TreeAfterChange`, `TreeAfterStart`), and both theorems: `OnlyEmptyUnsaved` is kept by every step as it stands, given
`IndInv`, and every step is one of `Directory` or a stutter. A statement of a session whose database was dropped changes a
descriptor that is in no list, and is `ChangeNothing`. Only `TreeAfterDrop` needs `~DropsFirst`.

*The reader.* The texts are any sequences of pieces and the names any pieces that are no digit, quote, symbol or minus. For the lexer `ReadFrom` says of one call of `next` that what it passes is blank,
comment or quote and that its token lies behind (`LexNextReads`); `LocationsLeadBack` counts line breaks. For the parser `Goes` says of a rule at a position that it fails, or moves on
and gives a tree that prints the tokens it moved over, in at most two steps of the printer for each (three with the word of a statement). There is a lemma for each rule (`PrimaryGoes`, `BinaryRestGoes`, ...,
`ColumnDefGoes`; `AppliedGoes` for all of them) and each kind of statement (`UseRead`, ..., `StatementRead`). They also say that a rule asks other rules only about later positions: that is why the
descent comes to an end, so that a function with the equation of `Descent` exists at all (`DescentUptoExists`, for a growing number of positions from the end) and does what its rules say at every position
(`DescentGoes`). Both are arguments by a least counterexample, as is what `Printing` does in so many steps. The invariant `IInv` adds to the properties that tokens are spelled as in the text and lie in
it, and that at each moment the statements so far print the tokens before the parser (`Parsed`): `ParserLosesNothing` speaks of the end only and is not inductive, and neither is `ReadingAdvances`, as
one statement moves on by as much as its tokens. A comma is left out of what is printed, since the code skips it after an argument and does not require it.

*The connections.* `RoomInv` and `KeysInv` (the count is that of the occupied slots, keys are
identifiers that were given, each in at most one slot) hold without condition and give `PutFindsRoom`: the load limit leaves a slot free in
the table and in its copy. The rest holds as long as keys lie at their homes (`apart => Story`): no data is both in the table and in the free list,
whose links are injective and stay inside it (`FreeInv`), every entry leads to data of its own (`EntryInv`), the
observers are what the table has (`GivenInv`), and the copy has what was visited so far (`CopyInv`). That two keys up to `FirstCapacity`
have different homes is arithmetic on remainders (`FirstHomesDistinct`), also in any larger table.

*The web interface.* `Inv` has six parts, each kept by every step given those before it. `TabsInv`: tabs are numbered and each is there once, in the page and in the three copies (what is
restored, being written, stored). `NetInv`: requests have numbers that were given, and connections the server has made. `PageInv` allows page and tab to part only between a change and the effect that follows it,
or after a restore that came late. `KeptInv` says which copy has the texts at each point of restoring and writing. `AnswerInv`: a tab has a query under way (`Awaited`) or what came of the last one
(`Settled`), with `RanInv`, that a query is never newer than the last of its tab. `ListInv` does the same for the sidebar: `AskedInv` (the last request for the list is of the connection, older ones
have smaller numbers), `CurrentInv` (its answer, or the list if there is none under way, has the tables of the connection, unless a query that changed them is still to be answered and will ask again) and
`ObjectInv` (object tabs show the list). The invariants mention `late`, `lost`, `early`, `mixed` and `stale` as the properties do, and no bound on clicks, tabs, requests or loadings is used. Each part
was checked on `web_tabs` and `web_requests` before it was proved.

Model-checked only: liveness (`InsertReturns`, `QueriesAreAnswered`), which is out of the prover's
reach, `CutSaveKeepsAccounts`, and what the compiler, the type checker and the execution do (`TablesAreThoseInUse`, `AcceptedValuesFit`, `AnswersHaveTheColumns`, `VerdictsAreIndependent`,
`OrdinaryQueriesDoNotTrap`, and the properties of `QueryExecution`), whose recursive operators follow the shape of a syntax tree and keep a module from
being proved about. A recursive function over positions or numbers can be reasoned about by a least counterexample, as in `SqlReaderProofs`; what `SearchPath` computes
below a root that was split again is false of the code (section 5), so lookups are not proved any further.

## 5. What the code does otherwise than it says

Shown by a run, with the comment, test or document that says otherwise in `PROJECT.json`:

| run | where | what |
|---|---|---|
| `table_full_buffer` | `DBConnection.cpp:615` | the row that meets a full buffer is dropped |
| `catalog_drop_first` | `DBConnection.cpp:270` | dropping the database created last drops all |

Met while modelling. The passing properties say where these begin, by a bound or by a condition they state:

* *Index* (`FoundUntilSecondSplit`, `NoTrap`). After a split below the root the insert goes on in the left half also for larger keys, which lookups then
  miss (`BTreeIndex.cpp:377`); the shift loops compare an index with a page id (`:301`); page ids restart after a reload, so live pages are
  overwritten (`:134`). None reaches a query, since a table asks its index for the row count only, and with the keys
  of `btree_append` there is no trap.
* *Catalog* (`torn` in `NamesUnique`, `OnlyEmptyUnsaved` and `DirectorySpec`). The file is overwritten in place (`catalog.cpp:58`) and a load checks the
  magic, the version and that it is not short. Stopped in a save, it can have the first entries of the new list and the last of the old. After a DROP of B in the
  list C, B, A, default, the first three without tables and users, stopped behind the entry of A, a restart has C, A and A again, and default is lost; after a statement that makes an entry longer or shorter,
  it takes bytes in the middle of an entry for one, or finds the end of the file and does not start. CREATE DATABASE does not save the
  catalog (`DBConnection.cpp:226`), so a database with nothing in it does not outlive the process.
* *Table* (`SelectReturnsCompleted`). Values go to columns by position, not by the names given (`DBConnection.cpp:612`). Stopped between index and
  record count, the server fails an assertion on the next SELECT (`:545`). Stopped between the index and the records of a DELETE, the rows are hidden
  and a later INSERT shows one of them for each of its own (`:737`).
* *SQL* (`AnswersHaveTheColumns`, `VerdictsAreIndependent`, `OrdinaryQueriesDoNotTrap`). A second `*` answers the value of instruction 0 (`ir.cpp:712`). A second INSERT of a query is checked against the values of the
  first (`type_check.cpp:201`), and the same column twice is accepted. What may stop the server before an answer is sent is `MayEndTheProcess`: a column named as its table (`ir.cpp:484`), a WHERE, an
  operator but `=`, a SELECT or a call in an expression, USE of a database that is gone or past the 256th, two INSERTs, an INSERT without the name of its table (`Parser.cpp:134`), an ALTER of anything but a USER.
* *Execution* (`Usual`). A nested SELECT has a row count nobody set (`QueryExecutionContext.cpp:130`). A SELECT followed by an UPDATE or DELETE of its table in the same query answers the later
  rows, or stops the server. ALTER USER followed by USE changes the user of the other database, and one followed by the CREATE USER it needs succeeds. A table made under the name of a
  dropped one begins with the old row count, so a SELECT stops the server. INSERT in another order of columns stops it if the sizes differ. UPDATE of a column of images stops it if the
  table has two rows or more, DELETE does not reset the count of images, and the position of an image wraps at 256. SELECT of a comparison, of NULL or of a call stops it. A width or height of
  2^32 - 1 or more in `RGB` stops it (`DBConnection.cpp:342`), as does storing an image with more data than a chunk on disk (`:450`); a number past 2^64 is read as another
  one (`ok.hpp:2694`). UPDATE of the table of a nested SELECT is
  overwritten by the SELECT's columns.
* *Connections* (`HomesUntilWrap`). Once identifiers have gone round the table, `remove` can clear the slot of another connection, which is then unknown.
* *Web* (`TabsShowTheirLastAnswer`, `ListIsCurrent`, `TabsOutliveThePage`, `PageShowsActiveTab`). An older answer that comes late replaces a newer one, in a tab and in the sidebar, and a list that comes after a disconnect stays. A query whose answer
  was lost does not refresh the list. If the page is loaded a second time before any tab changed, it finds the tab its first effect made in place of the
  old ones. The query page shows the active tab, whatever it is, when no query tab is open.

## 6. What is not covered

* A write is atomic: a page, a record, a header or an entry of the catalog is never half written. A failed
  write ends the process, as a stop does.
* The bytes inside an entry of the catalog: a load that reads where no entry begins gets one of `Misread`, any lists in the proofs and one list in the runs. A table has one column.
* Tables of one name in two databases share their files. `QueryExecution` names files as the code does, but `Usual` asks for different names: what
  two tables on the same files answer depends on which was opened when.
* Records as bytes and `FixedString`: a value is the text it was made from, with its type; the numbers that are read as others are a parameter. The size of an image wraps at
  32 bits in `RGB` (`StaticStorage.cpp:23`); which arguments make an image is a parameter too.
* Pixels and the chunk file of images: an image is one value in a list.
* Passwords are values (the code compares digests). Permissions are admin or not.
* Malformed HTTP requests, which change nothing; the network library, which is not in the repository.
* Memory: arenas, lists that cannot grow, and the 4 GiB a query reserves for each database.
* Of the web interface: how things look, saving a query to a file, inserting media, the list of `ObjectsOverview` (fetched as the sidebar's is), and refused
  connects, which change nothing. In the models the identifier of a connection is not used again by a server that was restarted.
* Logger, arguments, command line client, IR dump, plugins, the WASM build of the parser: no state the others depend on.

## 7. What could follow

1. `TableNames`: the tables of several databases over the files they share, as a composition of `QueryExecution` with one `RowStore` per file.
2. A restart of the server between `ConnectionTable` and `WebClient`, whose identifiers would then meet again.
3. `remove` of `ok::Table` after it looks for its key, with `IdsLeadToTheirSessions` for any number of identifiers.
