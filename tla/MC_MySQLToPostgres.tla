------------------------- MODULE MC_MySQLToPostgres -------------------------
(***************************************************************************)
(* Dumps in the layout mysqldump writes: a comment or DROP line, then per  *)
(* table CREATE TABLE, the columns, PRIMARY KEY, UNIQUE KEYs, KEYs,        *)
(* CONSTRAINTs and the ENGINE line.  One or two tables, t1 and t2, each    *)
(* of one of a few shapes.                                                 *)
(***************************************************************************)
EXTENDS MySQLToPostgres

IntTypes == {"int", "bigint", "smallint", "tinyint"}

\* NOT NULL AUTO_INCREMENT is only allowed on an integer column.
ColumnLines(name, types) ==
    {Line("column", name, ty, FALSE, FALSE, {}) : ty \in types}
    \cup {Line("column", name, ty, TRUE, FALSE, {}) : ty \in types \cap IntTypes}

PKLines(cols) == IF cols = {} THEN <<>> ELSE <<Line("pk", "", "", FALSE, FALSE, cols)>>

\* A one-column table; an AUTO_INCREMENT column is the primary key.
SmallTables(t, types) ==
    UNION {{<<Line("create", t, "", FALSE, FALSE, {}), c>> \o PKLines(pk) :
               pk \in IF c.auto THEN {{"c1"}} ELSE {{}, {"c1"}}} :
           c \in ColumnLines("c1", types)}

(***************************************************************************)
(* A two-column table with a UNIQUE KEY, an index, and a foreign key with *)
(* its FK_ index; pks gives the primary keys it may have.                  *)
(***************************************************************************)
KeyedTables(t, pks(_)) ==
    UNION {{<<Line("create", t, "", FALSE, FALSE, {}), c1,
       Line("column", "c2", "varchar", FALSE, FALSE, {})>>
     \o PKLines(pk)
     \o <<Line("unique", "u_c2", "", FALSE, FALSE, {"c2"}),
          Line("key", "ix_" \o t, "", FALSE, FALSE, {"c2"}),
          Line("key", "FK_" \o t, "", FALSE, TRUE, {"c1"}),
          Line("constraint", "", "", FALSE, FALSE, {})>> : pk \in pks(c1)} :
           c1 \in ColumnLines("c1", {"int"})}

SinglePK(c1) == IF c1.auto THEN {{"c1"}} ELSE {{"c1"}, {"c1", "c2"}}
AnyPK(c1) == {{"c1"}, {"c1", "c2"}}

Other == <<Line("other", "", "", FALSE, FALSE, {})>>
Engine == <<Line("engine", "", "", FALSE, FALSE, {})>>

Dump(tables(_)) ==
    {Other \o a \o Engine : a \in tables("t1")}
    \cup {Other \o a \o Engine \o Other \o b \o Engine : a \in tables("t1"), b \in tables("t2")}

MCTables(t) == SmallTables(t, BaselineTypes) \cup KeyedTables(t, SinglePK)
MCDumps == Dump(MCTables)

\* Also tinyint and tinyblob columns.
MCTypesTables(t) == SmallTables(t, BaselineTypes \cup {"tinyint", "tinyblob"})
MCDumpsTypes == Dump(MCTypesTables)

\* An AUTO_INCREMENT column that is part of a composite primary key.
MCCompositeTables(t) == KeyedTables(t, AnyPK)
MCDumpsComposite == Dump(MCCompositeTables)

=============================================================================
