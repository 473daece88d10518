---------------------------- MODULE CatalogFile ----------------------------
(***************************************************************************)
(* The catalog file (Core/catalog.cpp): what catalog_save writes for a     *)
(* list of databases and what catalog_load reads.  The file is overwritten *)
(* in place, one write for each entry, and never truncated: behind a list  *)
(* that became shorter, and behind the writes of a save that was stopped,  *)
(* are the entries of the lists before.  A load reads as many databases as *)
(* the header counts, each with as many users and tables as its own entry  *)
(* counts, from wherever the entry before it ended.                        *)
(*                                                                         *)
(* Entries are kept with the byte they begin at, by their kind.            *)
(***************************************************************************)
EXTENDS Integers, SequencesExt

CONSTANTS
  DbNames,    \* names of databases
  TableNames, \* names of tables
  UserNames,  \* names of users
  Passwords,  \* passwords a user can have
  Misread     \* lists that a load can make of bytes that are no such entry

User     == [name : UserNames, password : Passwords, admin : BOOLEAN]
Database == [name : DbNames, users : Seq(User), tables : Seq(TableNames)]
Entry    == [name : DbNames, users : Nat, tables : Nat]
File     == [size : Nat, count : Nat, dbs : SUBSET (Nat \X Entry),
             users : SUBSET (Nat \X User), tables : SUBSET (Nat \X TableNames)]

ASSUME MisreadAssumption == Misread \subseteq Seq(Database)

(* Bytes of the header and of the entries; a table has one column. *)
HeaderSize == 24
DbSize     == 80
UserSize   == 97
TableEntry == 74
TableSize  == TableEntry + 65

(* at[i] is step[i] of at[i - 1]. *)
Chain(first, n, step) ==
  LET at[i \in 0 .. n] == IF i = 0 THEN first ELSE step[i][at[i - 1]] IN at
-----------------------------------------------------------------------------
(* Where the parts of an entry at o are. *)

UserPlace(o, j)         == o + DbSize + UserSize * (j - 1)
TablePlace(o, users, j) == o + DbSize + UserSize * users + TableSize * (j - 1)
EndOf(o, e)             == TablePlace(o, e.users, e.tables + 1)
EntryOf(d)              == [name |-> d.name, users |-> Len(d.users), tables |-> Len(d.tables)]

(* catalog_save: every entry begins where the one before it ended. *)
Places(list) ==
  Chain(HeaderSize, Len(list), [i \in DOMAIN list |-> [o \in Nat |-> EndOf(o, EntryOf(list[i]))]])

DbEntries(list) ==
  LET at == Places(list) IN {<<at[i - 1], EntryOf(list[i])>> : i \in DOMAIN list}
UserEntries(list) ==
  LET at == Places(list) IN
  UNION {{<<UserPlace(at[i - 1], j), list[i].users[j]>> : j \in DOMAIN list[i].users}
         : i \in DOMAIN list}
TableEntries(list) ==
  LET at == Places(list) IN
  UNION {{<<TablePlace(at[i - 1], Len(list[i].users), j), list[i].tables[j]>>
          : j \in DOMAIN list[i].tables} : i \in DOMAIN list}
SizeOf(list)       == Places(list)[Len(list)]

(* What there is of one kind when the first bytes are new, up to cut: an
   entry of before that was cut into is none, unless it is the same. *)
Over(old, new, width, cut) ==
  {c \in old : c[1] >= cut \/ c \in new} \cup {c \in new : c[1] + width <= cut}

(* Faulty variant: the file is truncated when it is opened. *)
Written_Truncates(file, list, cut) ==
  [size   |-> cut,
   count  |-> Len(list),
   dbs    |-> Over({}, DbEntries(list), DbSize, cut),
   users  |-> Over({}, UserEntries(list), UserSize, cut),
   tables |-> Over({}, TableEntries(list), TableSize, cut)]

(* The file after the first writes of a save, cut bytes of it. *)
Written(file, list, cut) ==
  [size   |-> IF cut > file.size THEN cut ELSE file.size,
   count  |-> IF cut = 0 THEN file.count ELSE Len(list),
   dbs    |-> Over(file.dbs, DbEntries(list), DbSize, cut),
   users  |-> Over(file.users, UserEntries(list), UserSize, cut),
   tables |-> Over(file.tables, TableEntries(list), TableSize, cut)]

(* Between two writes: a table's entry is written before its column, and the
   column's name before its type, one byte. *)
Cuts(list) ==
  {0, HeaderSize} \cup {c[1] + DbSize : c \in DbEntries(list)}
                  \cup {c[1] + UserSize : c \in UserEntries(list)}
                  \cup {c[1] + TableEntry : c \in TableEntries(list)}
                  \cup {c[1] + TableSize - 1 : c \in TableEntries(list)}
                  \cup {c[1] + TableSize : c \in TableEntries(list)}

NoFile == [size |-> 0, count |-> 0, dbs |-> {}, users |-> {}, tables |-> {}]
-----------------------------------------------------------------------------
(* catalog_load *)

Found(entries, o)  == {c[2] : c \in {e \in entries : e[1] = o}}
ReadAt(entries, o) == CHOOSE x \in Found(entries, o) : TRUE

(* All of the database is there. *)
Whole(file, o) ==
  /\ Found(file.dbs, o) # {}
  /\ LET e == ReadAt(file.dbs, o) IN
     /\ \A j \in 1 .. e.users  : Found(file.users, UserPlace(o, j)) # {}
     /\ \A j \in 1 .. e.tables : Found(file.tables, TablePlace(o, e.users, j)) # {}

(* The load gets no further than to a database that is not there. *)
ReadPlaces(file) ==
  Chain(HeaderSize, file.count,
        [i \in 1 .. file.count |->
          [o \in Nat |-> IF Whole(file, o) THEN EndOf(o, ReadAt(file.dbs, o)) ELSE o]])

DatabaseAt(file, o) ==
  LET e == ReadAt(file.dbs, o) IN
  [name   |-> e.name,
   users  |-> [j \in 1 .. e.users  |-> ReadAt(file.users, UserPlace(o, j))],
   tables |-> [j \in 1 .. e.tables |-> ReadAt(file.tables, TablePlace(o, e.users, j))]]

Readable(file) == LET at == ReadPlaces(file) IN \A i \in 1 .. file.count : Whole(file, at[i - 1])
Reading(file)  == LET at == ReadPlaces(file) IN [i \in 1 .. file.count |-> DatabaseAt(file, at[i - 1])]

Contents(file) == IF Readable(file) THEN Reading(file) ELSE <<>>

(* A read past the end fails an assertion. *)
EndsEarly(file) ==
  LET o == ReadPlaces(file)[file.count] IN
  IF Found(file.dbs, o) = {} THEN o + DbSize > file.size
  ELSE EndOf(o, ReadAt(file.dbs, o)) > file.size

(* The lists a load can get: other bytes than those of an entry it expects
   are taken for one all the same. *)
Loadable(file) ==
  IF Readable(file) THEN {Reading(file)} ELSE IF EndsEarly(file) THEN {} ELSE Misread
=============================================================================
