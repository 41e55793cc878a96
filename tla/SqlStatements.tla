--------------------------- MODULE SqlStatements ----------------------------
(***************************************************************************)
(* The statements of the native driver's calls (src/native/shared), as far *)
(* as its promises tell them apart, and what they do to the database file. *)
(*                                                                         *)
(* The statements of one call concern different rows, so a call is the set *)
(* of them; in which order they run is left open.                          *)
(***************************************************************************)
EXTENDS Naturals

CONSTANTS
  Ids,      \* record ids, of one table
  Version   \* the schema version of the application

ASSUME VersionAssumption == Version \in Nat \ {0, 1}

\* pragma user_version, the version of the tables in the file (0: there are
\* none), the table's ids, and whether local_storage has a last pulled at.
Contents == [version : 0 .. Version + 1, tables : 0 .. Version + 1,
             rows : SUBSET Ids, pulled : BOOLEAN]

Erased == [version |-> 0, tables |-> 0, rows |-> {}, pulled |-> FALSE]

\* What an earlier run of the application, older or newer, may have left.
FoundContents ==
  {c \in Contents : c.version = c.tables /\ (c.version = 0 => c = Erased)}

(* Rows inserted, deleted with notice to the record cache (destroy) and    *)
(* without it (purge), the schema's statements ("schema"), a migration's   *)
(* ("steps"), "pragma user_version = ..." ("version") and the insert of    *)
(* the last pulled at ("pulled").                                          *)
Marks      == {"schema", "steps", "version", "pulled"}
Statements == [create : SUBSET Ids, destroy : SUBSET Ids, purge : SUBSET Ids,
               marks : SUBSET Marks]
Nothing    == [create |-> {}, destroy |-> {}, purge |-> {}, marks |-> {}]

Deleted(s) == s.destroy \cup s.purge
OnRows(s)  == s.create \cup Deleted(s)

Effects(s, c, version) ==
  [version |-> IF "version" \in s.marks THEN version ELSE c.version,
   tables  |-> IF {"schema", "steps"} \cap s.marks # {} THEN Version ELSE c.tables,
   rows    |-> (c.rows \cup s.create) \ Deleted(s),
   pulled  |-> c.pulled \/ "pulled" \in s.marks]

\* setUserVersion() sets the version; a Fault would be to add to it.
FaultEffect(s, c) == Effects(s, c, c.version + Version)
Effect(s, c)      == Effects(s, c, Version)

\* SQLite refuses a table that is not there, or there already, and an id that
\* is taken. A migration alters a table, so that it needs the older tables.
Runs(s, c) ==
  /\ OnRows(s) # {} \/ "pulled" \in s.marks => c.tables > 0
  /\ "schema" \in s.marks => c.tables = 0
  /\ "steps" \in s.marks => c.tables \in 1 .. Version - 1
  /\ s.create \cap c.rows = {}

Without(s, t) ==
  [create |-> s.create \ t.create, destroy |-> s.destroy \ t.destroy,
   purge |-> s.purge \ t.purge, marks |-> s.marks \ t.marks]

\* The statements of a call, one by one.
Singles(s) ==
  {[Nothing EXCEPT !.create = {id}] : id \in s.create}
    \cup {[Nothing EXCEPT !.destroy = {id}] : id \in s.destroy}
    \cup {[Nothing EXCEPT !.purge = {id}] : id \in s.purge}
    \cup {[Nothing EXCEPT !.marks = {m}] : m \in s.marks}

\* The calls. A batch names an id once.
SetUp     == [Nothing EXCEPT !.marks = {"schema", "version"}]
Migration == [Nothing EXCEPT !.marks = {"steps", "version"}]
SetPulled == [Nothing EXCEPT !.marks = {"pulled"}]
Batches  == {s \in Statements :
               /\ s.marks = {} /\ OnRows(s) # {}
               /\ s.create \cap Deleted(s) = {} /\ s.destroy \cap s.purge = {}}
Loads    == {s \in Batches : Deleted(s) = {}}
Calls    == Batches \cup {SetUp, Migration, SetPulled}
=============================================================================
