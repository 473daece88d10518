------------------------------ MODULE Catalog ------------------------------
(***************************************************************************)
(* The databases of a server with their tables and users, the catalog file *)
(* that keeps them (Core/DBPool.cpp, Core/catalog.cpp), and the sessions   *)
(* that change them (Server/http.cpp, Core/DBConnection.cpp).  The server  *)
(* has one thread, so a request is one step, up to the writing of the      *)
(* catalog, which the process may not survive.                             *)
(*                                                                         *)
(* A request is one statement.  It is compiled against the list of         *)
(* databases, at the position the session takes for its own database, and  *)
(* executed on the descriptor the session holds a pointer to; the two need *)
(* not be the same database.  A descriptor that was dropped from the list  *)
(* stays allocated.  A failed assertion stops the process.                 *)
(***************************************************************************)
EXTENDS CatalogFile

CONSTANTS
  Default,        \* the database of a new catalog
  Admin,          \* its user
  AdminPassword,  \* and the user's password
  NoPassword,     \* what CREATE USER gives: the empty string
  Sessions,       \* clients of the server
  DropsFirst,     \* DROP DATABASE may name the first database of the list
  MaxChanges,     \* bound: statements that change the databases
  MaxStarts       \* bound: restarts of the server

ASSUME NameAssumption ==
  /\ Default \in DbNames
  /\ Admin \in UserNames
  /\ AdminPassword \in Passwords
  /\ NoPassword \in Passwords

ASSUME BoundAssumption ==
  /\ DropsFirst \in BOOLEAN
  /\ MaxChanges \in Nat
  /\ MaxStarts \in Nat

VARIABLES
  descriptors, \* every DBDescriptor this process has allocated
  dbs,         \* the list of the pool, its head first: positions in descriptors
  file,        \* the catalog file
  catalog,     \* the list a load reads from it, kept beside the file
  sessions,    \* the open connections
  pc,          \* "idle", "save" (catalog_save is called), "writing" (it has
               \* opened the file)
  status,      \* "up", "stopped", or "trapped" by a failed assertion
  culprit,     \* the session whose statement failed the assertion
  refused,     \* a save could not open the catalog since the last one that did
  torn,        \* a save was stopped with neither the old list nor the new in the file
  changes, starts \* the counters behind MaxChanges and MaxStarts

vars == <<descriptors, dbs, file, catalog, sessions, pc, status, culprit, refused, torn, changes, starts>>
-----------------------------------------------------------------------------
(* Databases, and what the list and a session's pointers lead to. *)

NoSession == [db |-> 0, active |-> 0, admin |-> FALSE]

Names(list)  == {list[i].name : i \in DOMAIN list}
Listed       == [i \in DOMAIN dbs |-> descriptors[dbs[i]]]
FirstNamed(list, n) ==
  CHOOSE i \in DOMAIN list : list[i].name = n /\ \A j \in 1 .. i - 1 : list[j].name # n
Mine(s)      == descriptors[sessions[s].db]

(* Faulty variant: active_db_id is only set by USE. *)
Active_Kept(s) == sessions[s].active

(* run_query_handler sets active_db_id to the database with the name of
   the session's own; if there is none it stays what it was. *)
Active(s) ==
  IF Mine(s).name \in Names(Listed) THEN FirstNamed(Listed, Mine(s).name)
  ELSE sessions[s].active

InBounds(s)   == Active(s) \in DOMAIN dbs
Compiles(s)   == sessions' = [sessions EXCEPT ![s].active = Active(s)]
KnownTable(s, t) == InBounds(s) /\ Contains(Listed[Active(s)].tables, t)
HasTable(s, t)   == Contains(Mine(s).tables, t)

Request(s) ==
  /\ status = "up"
  /\ pc = "idle"
  /\ sessions[s] # NoSession

(* A statement that changes the databases is counted. *)
Change(s) ==
  /\ Request(s)
  /\ changes < MaxChanges
  /\ changes' = changes + 1
  /\ Compiles(s)

(* It changes the session's own descriptor, and the catalog is saved. *)
ChangeMine(s, database) ==
  /\ descriptors' = [descriptors EXCEPT ![sessions[s].db] = database]
  /\ pc' = "save"
  /\ UNCHANGED <<dbs, file, catalog, status, culprit, refused, torn, starts>>

Trap(s) ==
  /\ status' = "trapped"
  /\ culprit' = {s}
  /\ Compiles(s)
  /\ UNCHANGED <<descriptors, dbs, file, catalog, pc, refused, torn, changes, starts>>
-----------------------------------------------------------------------------
(* The pool and its file. *)

FirstDatabase ==
  [name |-> Default,
   users |-> <<[name |-> Admin, password |-> AdminPassword, admin |-> TRUE]>>,
   tables |-> <<>>]

(* The first start: DBPool finds no catalog, makes the default and saves. *)
Init ==
  /\ descriptors = <<FirstDatabase>>
  /\ dbs = <<1>>
  /\ file = Written(NoFile, <<FirstDatabase>>, SizeOf(<<FirstDatabase>>))
  /\ catalog = Contents(file)
  /\ sessions = [s \in Sessions |-> NoSession]
  /\ pc = "idle"
  /\ status = "up"
  /\ culprit = {}
  /\ refused = FALSE
  /\ torn = FALSE
  /\ changes = 0
  /\ starts = 0

(* catalog_save cannot open the file: the statement answers an error, and
   what it changed in memory stays. *)
SaveRefused ==
  /\ status = "up"
  /\ pc = "save"
  /\ pc' = "idle"
  /\ refused' = TRUE
  /\ UNCHANGED <<descriptors, dbs, file, catalog, sessions, status, culprit, torn, changes, starts>>

(* catalog_save opens the file and overwrites it from its beginning. *)
SaveBegins ==
  /\ status = "up"
  /\ pc = "save"
  /\ pc' = "writing"
  /\ UNCHANGED <<descriptors, dbs, file, catalog, sessions, status, culprit, refused, torn, changes, starts>>

Saved == Listed

SaveEnds ==
  /\ status = "up"
  /\ pc = "writing"
  /\ pc' = "idle"
  /\ file' = Written(file, Saved, SizeOf(Saved))
  /\ catalog' = Contents(file')
  /\ refused' = FALSE
  /\ UNCHANGED <<descriptors, dbs, sessions, status, culprit, torn, changes, starts>>

(* The process is stopped. *)
Stop ==
  /\ status = "up"
  /\ pc # "writing"
  /\ status' = "stopped"
  /\ UNCHANGED <<descriptors, dbs, file, catalog, sessions, pc, culprit, refused, torn, changes, starts>>

(* It is stopped after some of the writes of a save, or one of them fails
   (OK_VERIFY). *)
StopSaving ==
  /\ status = "up"
  /\ pc = "writing"
  /\ status' = "stopped"
  /\ \E cut \in Cuts(Saved) : file' = Written(file, Saved, cut)
  /\ catalog' = Contents(file')
  /\ torn' = (torn \/ ~Readable(file') \/ catalog' \notin {catalog, Saved})
  /\ UNCHANGED <<descriptors, dbs, sessions, pc, culprit, refused, changes, starts>>

Loaded(entry) == [entry EXCEPT !.users = Reverse(@)]

(* Faulty variant: the connections of the process before are used on. *)
Start_KeepsSessions ==
  /\ status # "up"
  /\ starts < MaxStarts
  /\ starts' = starts + 1
  /\ \E list \in Loadable(file) : descriptors' = [i \in DOMAIN list |-> Loaded(list[i])]
  /\ dbs' = Reverse([i \in DOMAIN descriptors' |-> i])
  /\ pc' = "idle"
  /\ status' = "up"
  /\ culprit' = {}
  /\ refused' = FALSE
  /\ UNCHANGED <<file, catalog, sessions, torn, changes>>

(* catalog_load: create_db and add_user put each entry at the head of its
   list, tables are appended. *)
Start ==
  /\ status # "up"
  /\ starts < MaxStarts
  /\ starts' = starts + 1
  /\ \E list \in Loadable(file) : descriptors' = [i \in DOMAIN list |-> Loaded(list[i])]
  /\ dbs' = Reverse([i \in DOMAIN descriptors' |-> i])
  /\ sessions' = [s \in Sessions |-> NoSession]
  /\ pc' = "idle"
  /\ status' = "up"
  /\ culprit' = {}
  /\ refused' = FALSE
  /\ UNCHANGED <<file, catalog, torn, changes>>
-----------------------------------------------------------------------------
(* Sessions. *)

(* connect_handler: the first database and the first user of that name. *)
Connect(s) ==
  /\ status = "up"
  /\ pc = "idle"
  /\ sessions[s] = NoSession
  /\ \E n \in Names(Listed), u \in UserNames, p \in Passwords :
       LET i     == FirstNamed(Listed, n)
           users == Listed[i].users
           user  == users[FirstNamed(users, u)] IN
       /\ u \in Names(users)
       /\ user.password = p
       /\ sessions' = [sessions EXCEPT
            ![s] = [db |-> dbs[i], active |-> 1, admin |-> user.admin]]
  /\ UNCHANGED <<descriptors, dbs, file, catalog, pc, status, culprit, refused, torn, changes, starts>>

(* The connection is not used for fifteen minutes and dropped. *)
Expire(s) ==
  /\ Request(s)
  /\ sessions' = [sessions EXCEPT ![s] = NoSession]
  /\ UNCHANGED <<descriptors, dbs, file, catalog, pc, status, culprit, refused, torn, changes, starts>>

(* A statement that changes nothing here: a SELECT, or one that is refused
   by the compiler or for the permissions of the user. *)
Answer(s) ==
  /\ Request(s)
  /\ Compiles(s)
  /\ UNCHANGED <<descriptors, dbs, file, catalog, pc, status, culprit, refused, torn, changes, starts>>

(* The compiler looks a table up, or adds one, in a schema that is not
   there; or it finds the table and the session's descriptor does not. *)
FailsAssertion(s) ==
  /\ Request(s)
  /\ ~InBounds(s) \/ \E t \in TableNames : KnownTable(s, t) /\ ~HasTable(s, t)
  /\ Trap(s)

UseDatabase(s) ==
  /\ Request(s)
  /\ \E n \in Names(Listed) :
       LET i == FirstNamed(Listed, n) IN
       sessions' = [sessions EXCEPT
         ![s] = [db |-> dbs[i], active |-> i, admin |-> @.admin]]
  /\ UNCHANGED <<descriptors, dbs, file, catalog, pc, status, culprit, refused, torn, changes, starts>>

NewDatabase(n) == [name |-> n, users |-> <<>>, tables |-> <<>>]

(* create_db puts the database at the head of the list, and saves nothing. *)
CreateDatabase(s) ==
  /\ Change(s)
  /\ \E n \in DbNames \ Names(Listed) :
       descriptors' = Append(descriptors, NewDatabase(n))
  /\ dbs' = <<Len(descriptors) + 1>> \o dbs
  /\ UNCHANGED <<file, catalog, pc, status, culprit, refused, torn, starts>>

(* Dropping the head of the list sets the list to nullptr. *)
DropDatabase(s) ==
  /\ Change(s)
  /\ \E n \in Names(Listed) :
       LET i == FirstNamed(Listed, n) IN
       /\ i # 1 \/ DropsFirst
       /\ dbs' = IF i = 1 THEN <<>> ELSE RemoveAt(dbs, i)
  /\ pc' = "save"
  /\ UNCHANGED <<descriptors, file, catalog, status, culprit, refused, torn, starts>>

(* Faulty variant: the duplicate is looked for by the compiler. *)
CreateTable_SchemaCheck(s) ==
  /\ Change(s)
  /\ InBounds(s)
  /\ \E t \in TableNames :
       /\ ~KnownTable(s, t)
       /\ ChangeMine(s, [Mine(s) EXCEPT !.tables = Append(@, t)])

CreateTable(s) ==
  /\ Change(s)
  /\ InBounds(s)
  /\ \E t \in TableNames :
       /\ ~HasTable(s, t)
       /\ ChangeMine(s, [Mine(s) EXCEPT !.tables = Append(@, t)])

DropTable(s) ==
  /\ Change(s)
  /\ \E i \in DOMAIN Mine(s).tables :
       LET tables == Mine(s).tables IN
       /\ KnownTable(s, tables[i])
       /\ \A j \in 1 .. i - 1 : tables[j] # tables[i]
       /\ ChangeMine(s, [Mine(s) EXCEPT !.tables = RemoveAt(tables, i)])

(* Faulty variant: a new user has the permissions of the first. *)
NewUser_Admin(u) == [name |-> u, password |-> NoPassword, admin |-> TRUE]

NewUser(u) == [name |-> u, password |-> NoPassword, admin |-> FALSE]

(* Faulty variant: the new user is not saved. *)
CreateUser_NoSync(s) ==
  /\ Change(s)
  /\ sessions[s].admin
  /\ \E u \in UserNames \ Names(Mine(s).users) :
       descriptors' = [descriptors EXCEPT ![sessions[s].db].users = <<NewUser(u)>> \o @]
  /\ UNCHANGED <<dbs, file, catalog, pc, status, culprit, refused, torn, starts>>

CreateUser(s) ==
  /\ Change(s)
  /\ sessions[s].admin
  /\ \E u \in UserNames \ Names(Mine(s).users) :
       ChangeMine(s, [Mine(s) EXCEPT !.users = <<NewUser(u)>> \o @])

AlterUser(s) ==
  /\ Change(s)
  /\ sessions[s].admin
  /\ \E u \in Names(Mine(s).users), p \in Passwords :
       ChangeMine(s, [Mine(s) EXCEPT !.users[FirstNamed(Mine(s).users, u)].password = p])

Statement(s) ==
  \/ Answer(s)
  \/ FailsAssertion(s)
  \/ UseDatabase(s)
  \/ CreateDatabase(s)
  \/ DropDatabase(s)
  \/ CreateTable(s)
  \/ DropTable(s)
  \/ CreateUser(s)
  \/ AlterUser(s)

Next ==
  \/ \E s \in Sessions : Connect(s) \/ Expire(s) \/ Statement(s)
  \/ SaveRefused
  \/ SaveBegins
  \/ SaveEnds
  \/ Stop
  \/ StopSaving
  \/ Start

Spec == Init /\ [][Next]_vars
-----------------------------------------------------------------------------
(* Properties. *)

(* Pointers lead to descriptors: of the list, each once, and of the
   sessions, dropped or not. *)
TypeOK ==
  /\ descriptors \in Seq(Database)
  /\ dbs \in Seq(DOMAIN descriptors)
  /\ IsInjective(dbs)
  /\ file \in File
  /\ catalog \in Seq(Database)
  /\ sessions \in [Sessions -> [db : {0} \cup DOMAIN descriptors, active : Nat, admin : BOOLEAN]]
  /\ pc \in {"idle", "save", "writing"}
  /\ status \in {"up", "stopped", "trapped"}
  /\ culprit \in SUBSET Sessions
  /\ refused \in BOOLEAN
  /\ torn \in BOOLEAN
  /\ changes \in 0 .. MaxChanges
  /\ starts \in 0 .. MaxStarts

(* Lists by name, whatever their order. *)
Accounts(users) ==
  [u \in Names(users) |->
     LET v == users[FirstNamed(users, u)] IN [password |-> v.password, admin |-> v.admin]]
Content(d)   == [tables |-> Range(d.tables), users |-> Accounts(d.users)]
TreeOf(list) == [n \in Names(list) |-> Content(list[FirstNamed(list, n)])]

HasNoDuplicates(list) == \A i, j \in DOMAIN list : list[i].name = list[j].name => i = j

UniqueNames ==
  /\ HasNoDuplicates(Listed)
  /\ HasNoDuplicates(catalog)
  /\ \A d \in Range(descriptors) \cup Range(catalog) :
       HasNoDuplicates(d.users) /\ IsInjective(d.tables)

(* get_db, find_user and the search for a table take the first with the
   name: there never is a second, in any database a session can reach and in
   any the catalog holds, whatever was dropped, made again or loaded. Only a
   save stopped with parts of two lists in the file can make one. *)
NamesUnique == ~torn => UniqueNames

(* The compiler and the execution of a statement look at the same database:
   what the compiler accepts fails no assertion, but in a session whose
   database was dropped; whatever list was loaded. *)
TrapOnlyAfterDrop == \A s \in culprit : sessions[s].db \notin Range(dbs)

(* Between statements the catalog holds everything in memory but databases
   with nothing in them, and nothing else, unless a save was refused, or was
   stopped with parts of two lists in the file: so a stop between statements
   loses none that was answered but CREATE DATABASE. *)
OnlyEmptyUnsaved ==
  status = "up" /\ pc = "idle" /\ ~refused /\ ~torn =>
    LET memory == TreeOf(Listed)
        saved  == TreeOf(catalog) IN
    \A n \in DOMAIN memory \cup DOMAIN saved :
      \/ n \in DOMAIN memory \cap DOMAIN saved /\ memory[n] = saved[n]
      \/ n \in DOMAIN memory \ DOMAIN saved /\ memory[n] = TreeOf(<<NewDatabase(n)>>)[n]

(* Lists that only differ in passwords. *)
SameShape(a, b) ==
  /\ DOMAIN a = DOMAIN b
  /\ \A i \in DOMAIN a :
       /\ a[i].name = b[i].name
       /\ a[i].tables = b[i].tables
       /\ DOMAIN a[i].users = DOMAIN b[i].users
       /\ \A j \in DOMAIN a[i].users :
            /\ a[i].users[j].name = b[i].users[j].name
            /\ a[i].users[j].admin = b[i].users[j].admin

(* A save of changed passwords can be stopped after any of its writes: the
   file still is a catalog, of the same databases, tables and users, and
   each user has the old password or the new one. *)
CutSaveKeepsAccounts ==
  [][pc = "writing" /\ status' = "stopped" /\ Readable(file) /\ SameShape(catalog, Saved) =>
       /\ Readable(file')
       /\ SameShape(catalog, catalog')
       /\ \A i \in DOMAIN catalog : \A j \in DOMAIN catalog[i].users :
            catalog[i].users[j]' \in {catalog[i].users[j], Saved[i].users[j]}]_vars

(* DROP DATABASE takes one database from the list. *)
DropsOneDatabase ==
  [][status = "up" /\ status' = "up" =>
       \A m, n \in Names(Listed) \ Names(Listed)' : m = n]_vars
-----------------------------------------------------------------------------
(* The directory this implements.  A stop that leaves parts of two lists in
   the file ends what is promised. *)

DirectoryPhase ==
  IF torn THEN "torn"
  ELSE IF status # "up" THEN "down"
  ELSE CASE pc = "idle" -> "idle" [] pc = "save" -> "changed" [] pc = "writing" -> "saving"

Directory == INSTANCE Directory WITH
  now   <- TreeOf(IF torn THEN <<>> ELSE Listed),
  saved <- TreeOf(IF torn THEN <<>> ELSE catalog),
  phase <- DirectoryPhase

(* Every statement changes one database, or none if the session's own was
   dropped, and is saved before the next one; a restart has what was saved,
   and what was being saved, if the file has all of it. *)
DirectorySpec == Directory!Spec
=============================================================================
