--------------------------- MODULE MySQLToPostgres ---------------------------
(***************************************************************************)
(* The schema converter src/scripts/mysql_to_postgres.py,                  *)
(* convert_mysql_to_postgres: one pass over the lines of a mysqldump       *)
(* structure file that rewrites each CREATE TABLE for PostgreSQL.  The     *)
(* loop body is one action per class of line, in the order the code tests  *)
(* them; the accumulators columns, constraints and indexes are per table.  *)
(*                                                                         *)
(* A line is abstracted to a record after strip() and backtick removal:   *)
(*   kind   "create", "column", "pk", "unique", "key", "constraint",       *)
(*          "engine" (the closing ") ENGINE=..." line) or "other"          *)
(*   name   the table, column or index name                                *)
(*   type   the MySQL type of a column, without its display width          *)
(*   auto   whether the column is NOT NULL AUTO_INCREMENT                  *)
(*   fk     whether a KEY's name starts with FK_                           *)
(*   cols   the columns of a key                                           *)
(* A column's text is abstracted to its type token; each re.sub /         *)
(* str.replace of lines 64-93 is the map it induces on type tokens.        *)
(***************************************************************************)
EXTENDS Integers, Sequences, FiniteSets

CONSTANTS
    Dumps           \* the structure files the converter may be given

VARIABLES
    lines,          \* the input, mysql_sql.split('\n')
    pos,            \* index of the line the for loop is at
    in_table,
    table_name,
    columns,        \* converted column definitions of the current table
    constraints,    \* PRIMARY KEY / UNIQUE entries of the current table
    indexes,        \* CREATE INDEX statements of the current table
    output

vars == <<lines, pos, in_table, table_name, columns, constraints, indexes, output>>

NoTable == "none"

\* The uniform shape of an input line and of an output item.
Line(kind, name, type, auto, fk, cols) ==
    [kind |-> kind, name |-> name, type |-> type, auto |-> auto, fk |-> fk, cols |-> cols]
Item(kind, table, name, type, cols) ==
    [kind |-> kind, table |-> table, name |-> name, type |-> type, cols |-> cols]

LineKinds == {"create", "column", "pk", "unique", "key", "constraint", "engine", "other"}
LineSet ==
    [kind : LineKinds, name : STRING, type : STRING, auto : BOOLEAN, fk : BOOLEAN,
     cols : SUBSET STRING]

\* Every dump is a sequence of lines of the shape above.
ASSUME DumpsAssumption == Dumps \subseteq Seq(LineSet)

\* The types the OTRS baseline schema uses.
BaselineTypes ==
    {"int", "bigint", "smallint", "varchar", "datetime", "text", "longtext", "longblob", "blob"}

\* The elements of a sequence.
SeqRange(s) == {s[i] : i \in DOMAIN s}

-----------------------------------------------------------------------------
(***************************************************************************)
(* Column type conversion, lines 62-93.  Sub applies one substitution to  *)
(* a type token; a pipeline is a sequence of them applied in order.        *)
(***************************************************************************)
Sub(f, t) == IF t \in DOMAIN f THEN f[t] ELSE t

\* The substitution of a by b, and the union of two substitutions (the
\* left one first), as the TLC module defines them.
a :> b == [x \in {a} |-> b]
f @@ g == [x \in DOMAIN f \cup DOMAIN g |-> IF x \in DOMAIN f THEN f[x] ELSE g[x]]

\* The straight-line assignments col = re.sub(...) of lines 73-77 and 79-93.
Apply4(steps, t) == Sub(steps[4], Sub(steps[3], Sub(steps[2], Sub(steps[1], t))))
Apply10(steps, t) ==
    Sub(steps[10], Sub(steps[9], Sub(steps[8], Sub(steps[7], Sub(steps[6],
        Sub(steps[5], Apply4(steps, t)))))))

(***************************************************************************)
(* Lines 64-71.  'bigint' / 'smallint' in the line pick the BIGSERIAL /    *)
(* SMALLSERIAL rewrite; every other type goes through                     *)
(* int\(\d+\)\s+NOT NULL AUTO_INCREMENT -> SERIAL PRIMARY KEY, which also *)
(* matches the tail of tinyint(n) and mediumint(n).                        *)
(***************************************************************************)
AutoConvert(type) ==
    CASE type = "bigint"   -> "BIGSERIAL PRIMARY KEY"
      [] type = "smallint" -> "SMALLSERIAL PRIMARY KEY"
      [] OTHER -> Sub(("int" :> "SERIAL PRIMARY KEY")
                      @@ ("tinyint" :> "tinySERIAL PRIMARY KEY")
                      @@ ("mediumint" :> "mediumSERIAL PRIMARY KEY"), type)

(***************************************************************************)
(* Lines 73-77.  int\(\d+\) runs first and also rewrites the tail of       *)
(* bigint(n), smallint(n), tinyint(n), so the three later substitutions    *)
(* find nothing left to match.                                             *)
(***************************************************************************)
IntSteps ==
    << ("int" :> "INTEGER") @@ ("bigint" :> "bigINTEGER")
          @@ ("smallint" :> "smallINTEGER") @@ ("tinyint" :> "tinyINTEGER")
          @@ ("mediumint" :> "mediumINTEGER"),
       "bigint" :> "BIGINT",
       "smallint" :> "SMALLINT",
       "tinyint" :> "SMALLINT" >>

\* Mutant: the blob replacement (line 85) runs before longblob (line 83).
CommonStepsBlobFirst ==
    << "datetime" :> "TIMESTAMP",
       "longtext" :> "TEXT",
       "mediumtext" :> "TEXT",
       ("blob" :> "BYTEA") @@ ("tinyblob" :> "tinyBYTEA")
          @@ ("longblob" :> "longBYTEA") @@ ("mediumblob" :> "mediumBYTEA"),
       "longblob" :> "BYTEA",
       "mediumblob" :> "BYTEA",
       "smallINTEGER" :> "SMALLINT",
       "bigINTEGER" :> "BIGINT",
       "smallSERIAL PRIMARY KEY" :> "SMALLSERIAL PRIMARY KEY",
       "text" :> "TEXT" >>

(***************************************************************************)
(* Lines 79-93: str.replace of substrings (so 'blob' also rewrites the    *)
(* tail of tinyblob), the capitalisation fix-ups, and \btext\b (which      *)
(* leaves tinytext alone).                                                 *)
(***************************************************************************)
CommonSteps ==
    << "datetime" :> "TIMESTAMP",
       "longtext" :> "TEXT",
       "mediumtext" :> "TEXT",
       "longblob" :> "BYTEA",
       "mediumblob" :> "BYTEA",
       ("blob" :> "BYTEA") @@ ("tinyblob" :> "tinyBYTEA")
          @@ ("longblob" :> "longBYTEA") @@ ("mediumblob" :> "mediumBYTEA"),
       "smallINTEGER" :> "SMALLINT",
       "bigINTEGER" :> "BIGINT",
       "smallSERIAL PRIMARY KEY" :> "SMALLSERIAL PRIMARY KEY",
       "text" :> "TEXT" >>

ConvertColumn(l) ==
    Apply10(CommonSteps, IF l.auto THEN AutoConvert(l.type) ELSE Apply4(IntSteps, l.type))

\* 'SERIAL' in col (line 100)
SerialTypes ==
    {"SERIAL PRIMARY KEY", "BIGSERIAL PRIMARY KEY", "SMALLSERIAL PRIMARY KEY",
     "tinySERIAL PRIMARY KEY", "mediumSERIAL PRIMARY KEY"}

-----------------------------------------------------------------------------
Cur == lines[pos]

\* The for loop is at a line of the given class.
At(kind) == pos <= Len(lines) /\ Cur.kind = kind

\* The for loop moves to the next line.
Advance == pos' = pos + 1

\* Mutant: the per-table accumulators are not reset by a new CREATE TABLE.
CreateTableNoReset ==
    /\ At("create")
    /\ in_table' = TRUE
    /\ table_name' = Cur.name
    /\ output' = Append(output, Item("open", Cur.name, "", "", {}))
    /\ Advance
    /\ UNCHANGED <<lines, columns, constraints, indexes>>

\* Mutant: columns and constraints are reset, indexes are not.
CreateTableKeepIndexes ==
    /\ At("create")
    /\ in_table' = TRUE
    /\ table_name' = Cur.name
    /\ output' = Append(output, Item("open", Cur.name, "", "", {}))
    /\ columns' = <<>>
    /\ constraints' = <<>>
    /\ Advance
    /\ UNCHANGED <<lines, indexes>>

\* Lines 23-30: a CREATE TABLE line starts a table, whatever state it is in.
CreateTable ==
    /\ At("create")
    /\ in_table' = TRUE
    /\ table_name' = Cur.name
    /\ output' = Append(output, Item("open", Cur.name, "", "", {}))
    /\ columns' = <<>>
    /\ constraints' = <<>>
    /\ indexes' = <<>>
    /\ Advance
    /\ UNCHANGED lines

(***************************************************************************)
(* Lines 33-52: the items (columns, then constraints; the filter of line   *)
(* 35 never removes one, since constraints only holds PRIMARY KEY and      *)
(* UNIQUE entries), ");", "" and the indexes (the filter of line 48 never  *)
(* removes one either).                                                    *)
(***************************************************************************)
EndTable ==
    /\ in_table
    /\ At("engine")
    /\ output' = output \o columns \o constraints
                    \o << Item("close", table_name, "", "", {}),
                         Item("blank", table_name, "", "", {}) >>
                    \o indexes
    /\ in_table' = FALSE
    /\ Advance
    /\ UNCHANGED <<lines, table_name, columns, constraints, indexes>>

\* Lines 55-95: a column definition is converted and kept.
Column ==
    /\ in_table
    /\ At("column")
    /\ columns' = Append(columns, Item("column", table_name, Cur.name, ConvertColumn(Cur), {}))
    /\ Advance
    /\ UNCHANGED <<lines, in_table, table_name, constraints, indexes, output>>

\* Mutant: the SERIAL check of line 100 is dropped.
PrimaryKeyAlways ==
    /\ in_table
    /\ At("pk")
    /\ constraints' = Append(constraints, Item("pk", table_name, "", "", Cur.cols))
    /\ Advance
    /\ UNCHANGED <<lines, in_table, table_name, columns, indexes, output>>

\* Lines 98-102: PRIMARY KEY is kept unless some column so far became SERIAL.
PrimaryKey ==
    /\ in_table
    /\ At("pk")
    /\ constraints' =
          IF \E i \in DOMAIN columns : columns[i].type \in SerialTypes
          THEN constraints
          ELSE Append(constraints, Item("pk", table_name, "", "", Cur.cols))
    /\ Advance
    /\ UNCHANGED <<lines, in_table, table_name, columns, indexes, output>>

\* Mutant: UNIQUE KEY is handled like a regular KEY, as a separate index.
UniqueKeyAsIndex ==
    /\ in_table
    /\ At("unique")
    /\ indexes' = Append(indexes, Item("unique", table_name, Cur.name, "", Cur.cols))
    /\ Advance
    /\ UNCHANGED <<lines, in_table, table_name, columns, constraints, output>>

\* Lines 105-110: UNIQUE KEY becomes a UNIQUE constraint.
UniqueKey ==
    /\ in_table
    /\ At("unique")
    /\ constraints' = Append(constraints, Item("unique", table_name, "", "", Cur.cols))
    /\ Advance
    /\ UNCHANGED <<lines, in_table, table_name, columns, indexes, output>>

\* Lines 113-122: KEY becomes CREATE INDEX on table_name, unless it is FK_.
Key ==
    /\ in_table
    /\ At("key")
    /\ indexes' =
          IF Cur.fk THEN indexes
          ELSE Append(indexes, Item("index", table_name, Cur.name, "", Cur.cols))
    /\ Advance
    /\ UNCHANGED <<lines, in_table, table_name, columns, constraints, output>>

\* Lines 125-126 and fall-through: CONSTRAINT lines, and every line that
\* no branch takes (outside a table, or not a definition), are dropped.
Skip ==
    /\ pos <= Len(lines)
    /\ \/ Cur.kind \in {"constraint", "other"}
       \/ ~in_table /\ Cur.kind # "create"
    /\ Advance
    /\ UNCHANGED <<lines, in_table, table_name, columns, constraints, indexes, output>>

Init ==
    /\ lines \in Dumps
    /\ pos = 1
    /\ in_table = FALSE
    /\ table_name = NoTable
    /\ columns = <<>>
    /\ constraints = <<>>
    /\ indexes = <<>>
    /\ output = <<>>

Next ==
    \/ CreateTable \/ EndTable \/ Column \/ PrimaryKey
    \/ UniqueKey \/ Key \/ Skip

Spec == Init /\ [][Next]_vars

\* The loop has consumed every line; '\n'.join(output) is returned.
Done == pos > Len(lines)

-----------------------------------------------------------------------------
(***************************************************************************)
(*                              Properties                                 *)
(***************************************************************************)

ItemKinds == {"open", "column", "pk", "unique", "close", "blank", "index"}

TypeOK ==
    /\ pos \in 1..Len(lines) + 1
    /\ in_table \in BOOLEAN
    /\ \A i \in DOMAIN output : output[i].kind \in ItemKinds
    /\ \A i \in DOMAIN columns : columns[i].kind = "column"
    /\ \A i \in DOMAIN constraints : constraints[i].kind \in {"pk", "unique"}
    /\ \A i \in DOMAIN indexes : indexes[i].kind = "index"

\* The tables of the dump, and where their definitions start and end.
InputTables == {lines[i].name : i \in {j \in DOMAIN lines : lines[j].kind = "create"}}
CreateAt(t) == CHOOSE i \in DOMAIN lines : lines[i].kind = "create" /\ lines[i].name = t
EndAt(t) ==
    CHOOSE j \in DOMAIN lines :
        /\ j > CreateAt(t) /\ lines[j].kind = "engine"
        /\ \A k \in CreateAt(t) + 1 .. j - 1 : lines[k].kind # "engine"
BodyOf(t) == SubSeq(lines, CreateAt(t) + 1, EndAt(t) - 1)
LinesOf(t, kind) == SelectSeq(BodyOf(t), LAMBDA l : l.kind = kind)

\* Where the output statement of table t opens and closes, and its indexes.
OpenAt(t) == CHOOSE k \in DOMAIN output : output[k].kind = "open" /\ output[k].table = t
CloseAt(t) == CHOOSE k \in DOMAIN output : output[k].kind = "close" /\ output[k].table = t
NextOpen(k) ==
    LET later == {j \in DOMAIN output : j > k /\ output[j].kind = "open"}
    IN  IF later = {} THEN Len(output) + 1 ELSE CHOOSE j \in later : \A i \in later : j <= i
ItemsOf(t, kind) ==
    SelectSeq(SubSeq(output, OpenAt(t) + 1, CloseAt(t) - 1), LAMBDA it : it.kind = kind)
IndexesAfter(t) ==
    SelectSeq(SubSeq(output, CloseAt(t) + 1, NextOpen(CloseAt(t)) - 1),
              LAMBDA it : it.kind = "index")

Names(s) == [i \in DOMAIN s |-> s[i].name]

(***************************************************************************)
(* The CREATE TABLE the converter writes for each table of the dump        *)
(* contains exactly that table's columns, in their order, and no others:  *)
(* the accumulators are reset at every CREATE TABLE (lines 27-29).         *)
(***************************************************************************)
TablesKeepTheirColumns ==
    Done =>
        \A t \in InputTables :
            /\ Cardinality({k \in DOMAIN output : output[k].kind = "open" /\ output[k].table = t}) = 1
            /\ Names(ItemsOf(t, "column")) = Names(LinesOf(t, "column"))

(***************************************************************************)
(* The CREATE INDEX statements written after a table are exactly its own  *)
(* non-FK_ KEYs, each once, on that table (lines 113-122, 47-49).          *)
(***************************************************************************)
IndexesOfOwnTable ==
    Done =>
        \A t \in InputTables :
            LET own == SelectSeq(LinesOf(t, "key"), LAMBDA l : ~l.fk) IN
            [i \in DOMAIN IndexesAfter(t) |-> <<IndexesAfter(t)[i].name, IndexesAfter(t)[i].table, IndexesAfter(t)[i].cols>>]
                = [i \in DOMAIN own |-> <<own[i].name, t, own[i].cols>>]

(***************************************************************************)
(* The primary key of every converted table is the dump's: either the     *)
(* SERIAL PRIMARY KEY column the AUTO_INCREMENT column became, or the      *)
(* PRIMARY KEY constraint (line 100 keeps only one of the two).            *)
(***************************************************************************)
PrimaryKeyPreserved ==
    Done =>
        \A t \in InputTables :
            LET pkIn  == UNION {l.cols : l \in SeqRange(LinesOf(t, "pk"))}
                pkOut == {c.name : c \in {it \in SeqRange(ItemsOf(t, "column")) : it.type \in SerialTypes}}
                           \cup UNION {it.cols : it \in SeqRange(ItemsOf(t, "pk"))}
            IN  pkIn = pkOut

(***************************************************************************)
(* PostgreSQL refuses a table with two primary keys: a converted table     *)
(* declares at most one, a SERIAL PRIMARY KEY column or a PRIMARY KEY      *)
(* constraint (the reason for the check of line 100).                     *)
(***************************************************************************)
SinglePrimaryKey ==
    Done =>
        \A t \in InputTables :
            Len(SelectSeq(ItemsOf(t, "column"), LAMBDA it : it.type \in SerialTypes))
              + Len(ItemsOf(t, "pk")) <= 1

\* Types PostgreSQL accepts, as the converter spells them.
PostgresTypes ==
    {"INTEGER", "BIGINT", "SMALLINT", "varchar", "TIMESTAMP", "TEXT", "BYTEA",
     "SERIAL PRIMARY KEY", "BIGSERIAL PRIMARY KEY", "SMALLSERIAL PRIMARY KEY"}

(***************************************************************************)
(* Every column the converter writes has a PostgreSQL type: the chain of  *)
(* substitutions of lines 64-93, whose order matters (int before bigint,   *)
(* longblob before blob), leaves no MySQL-only type behind.               *)
(***************************************************************************)
ColumnsArePostgres ==
    \A k \in DOMAIN output : output[k].kind = "column" => output[k].type \in PostgresTypes

=============================================================================
