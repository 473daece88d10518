----------------------------- MODULE Directory -----------------------------
(***************************************************************************)
(* What the server promises about its databases, tables and users: every   *)
(* statement changes one named database, and after a restart the server    *)
(* has what was saved last.  A save replaces what was saved before, and    *)
(* may be refused before it begins.  Stopped half way it can leave what    *)
(* was saved before, or what was to be saved, or parts of both: then       *)
(* nothing is promised any more.                                           *)
(***************************************************************************)
EXTENDS Integers

CONSTANTS
  DbNames,    \* names of databases
  TableNames, \* names of tables
  UserNames,  \* names of users
  Passwords   \* passwords a user can have

VARIABLES
  now,   \* the databases of the running server, by name
  saved, \* what a restart finds
  phase  \* "idle", "changed" (to be saved), "saving", "down", or "torn"

vars == <<now, saved, phase>>

Users    == UNION {[us -> [password : Passwords, admin : BOOLEAN]] : us \in SUBSET UserNames}
Database == [tables : SUBSET TableNames, users : Users]
Tree     == UNION {[ds -> Database] : ds \in SUBSET DbNames}
Empty    == [tables |-> {}, users |-> [u \in {} |-> u]]

(* The first start makes one database, and saves it. *)
Init ==
  /\ \E n \in DbNames, us \in Users : now = [d \in {n} |-> [tables |-> {}, users |-> us]]
  /\ saved = now
  /\ phase = "idle"

(* A new database is not saved until something else is. *)
AddDatabase ==
  /\ phase = "idle"
  /\ UNCHANGED <<saved, phase>>
  /\ \E n \in DbNames \ DOMAIN now :
       now' = [d \in DOMAIN now \cup {n} |-> IF d = n THEN Empty ELSE now[d]]

RemoveDatabase ==
  /\ phase = "idle"
  /\ phase' = "changed"
  /\ UNCHANGED saved
  /\ \E n \in DOMAIN now : now' = [d \in DOMAIN now \ {n} |-> now[d]]

ChangeTables(n) ==
  \E t \in TableNames :
    \/ /\ t \notin now[n].tables
       /\ now' = [now EXCEPT ![n].tables = @ \cup {t}]
    \/ /\ t \in now[n].tables
       /\ now' = [now EXCEPT ![n].tables = @ \ {t}]

(* A new user is not an admin; a change of the password leaves the rest. *)
ChangeUsers(n) ==
  \E u \in UserNames, p \in Passwords :
    LET us == now[n].users
        with(v) == [w \in DOMAIN us \cup {u} |-> IF w = u THEN v ELSE us[w]] IN
    \/ /\ u \notin DOMAIN us
       /\ now' = [now EXCEPT ![n].users = with([password |-> p, admin |-> FALSE])]
    \/ /\ u \in DOMAIN us
       /\ now' = [now EXCEPT ![n].users = with([us[u] EXCEPT !.password = p])]

Change ==
  /\ phase = "idle"
  /\ phase' = "changed"
  /\ UNCHANGED saved
  /\ \E n \in DOMAIN now : ChangeTables(n) \/ ChangeUsers(n)

(* A statement on a database that was dropped saves what there is. *)
ChangeNothing ==
  /\ phase = "idle"
  /\ phase' = "changed"
  /\ UNCHANGED <<now, saved>>

SaveRefused ==
  /\ phase = "changed"
  /\ phase' = "idle"
  /\ UNCHANGED <<now, saved>>

SaveBegins ==
  /\ phase = "changed"
  /\ phase' = "saving"
  /\ UNCHANGED <<now, saved>>

SaveEnds ==
  /\ phase = "saving"
  /\ phase' = "idle"
  /\ saved' = now
  /\ UNCHANGED now

Stop ==
  /\ phase \notin {"saving", "down", "torn"}
  /\ phase' = "down"
  /\ UNCHANGED <<now, saved>>

StopSaving ==
  /\ phase = "saving"
  /\ phase' = "down"
  /\ saved' \in {saved, now}
  /\ UNCHANGED now

Tear ==
  /\ phase = "saving"
  /\ phase' = "torn"
  /\ now' = [n \in {} |-> Empty]
  /\ saved' = [n \in {} |-> Empty]

Start ==
  /\ phase = "down"
  /\ now' = saved
  /\ phase' = "idle"
  /\ UNCHANGED saved

Next ==
  \/ AddDatabase
  \/ RemoveDatabase
  \/ Change
  \/ ChangeNothing
  \/ SaveRefused
  \/ SaveBegins
  \/ SaveEnds
  \/ Stop
  \/ StopSaving
  \/ Tear
  \/ Start

Spec == Init /\ [][Next]_vars
=============================================================================
