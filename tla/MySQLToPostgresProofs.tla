------------------------ MODULE MySQLToPostgresProofs ------------------------
(***************************************************************************)
(* Proofs about convert_mysql_to_postgres for every dump, of any length   *)
(* and with any number of tables, whose lines have the shape the module   *)
(* abstracts them to.                                                      *)
(***************************************************************************)
EXTENDS MySQLToPostgres, SequenceTheorems, TLAPS

(***************************************************************************)
(* The column lines of the dump use the baseline schema's types, and only *)
(* int, bigint and smallint columns are AUTO_INCREMENT.  With tinyint or  *)
(* tinyblob columns the conversion leaves MySQL types behind (run          *)
(* conv_types), so the theorem below needs this hypothesis.               *)
(***************************************************************************)
BaselineColumns ==
    \A d \in Dumps : \A i \in DOMAIN d :
        d[i].kind = "column" =>
            /\ d[i].type \in BaselineTypes
            /\ d[i].auto => d[i].type \in {"int", "bigint", "smallint"}

(***************************************************************************)
(* The MySQL tokens a baseline column may still have when the             *)
(* substitutions of lines 79-93 begin, the step that converts each, and   *)
(* the tokens a column may have after step i.                              *)
(***************************************************************************)
LeftTokens == {"datetime", "longtext", "longblob", "blob", "smallINTEGER", "bigINTEGER", "text"}

ConvertedBy ==
    [t \in LeftTokens |->
        IF t = "datetime" THEN 1 ELSE IF t = "longtext" THEN 2
        ELSE IF t = "longblob" THEN 4 ELSE IF t = "blob" THEN 6
        ELSE IF t = "smallINTEGER" THEN 7 ELSE IF t = "bigINTEGER" THEN 8 ELSE 10]

TypesAfter(i) == PostgresTypes \cup {t \in LeftTokens : ConvertedBy[t] > i}

\* The tokens a column may have after each step.
LEMMA TypesAfterValues ==
  /\ TypesAfter(0) = PostgresTypes \cup {"datetime", "longtext", "longblob", "blob", "smallINTEGER", "bigINTEGER", "text"}
  /\ TypesAfter(1) = PostgresTypes \cup {"longtext", "longblob", "blob", "smallINTEGER", "bigINTEGER", "text"}
  /\ TypesAfter(2) = PostgresTypes \cup {"longblob", "blob", "smallINTEGER", "bigINTEGER", "text"}
  /\ TypesAfter(3) = PostgresTypes \cup {"longblob", "blob", "smallINTEGER", "bigINTEGER", "text"}
  /\ TypesAfter(4) = PostgresTypes \cup {"blob", "smallINTEGER", "bigINTEGER", "text"}
  /\ TypesAfter(5) = PostgresTypes \cup {"blob", "smallINTEGER", "bigINTEGER", "text"}
  /\ TypesAfter(6) = PostgresTypes \cup {"smallINTEGER", "bigINTEGER", "text"}
  /\ TypesAfter(7) = PostgresTypes \cup {"bigINTEGER", "text"}
  /\ TypesAfter(8) = PostgresTypes \cup {"text"}
  /\ TypesAfter(9) = PostgresTypes \cup {"text"}
  /\ TypesAfter(10) = PostgresTypes
  BY DEF TypesAfter, ConvertedBy, LeftTokens

\* The ten substitutions of lines 79-93.
LEMMA CommonStepValues ==
  /\ CommonSteps[1] = "datetime" :> "TIMESTAMP"
  /\ CommonSteps[2] = "longtext" :> "TEXT"
  /\ CommonSteps[3] = "mediumtext" :> "TEXT"
  /\ CommonSteps[4] = "longblob" :> "BYTEA"
  /\ CommonSteps[5] = "mediumblob" :> "BYTEA"
  /\ CommonSteps[6] = ("blob" :> "BYTEA") @@ ("tinyblob" :> "tinyBYTEA")
                          @@ ("longblob" :> "longBYTEA") @@ ("mediumblob" :> "mediumBYTEA")
  /\ CommonSteps[7] = "smallINTEGER" :> "SMALLINT"
  /\ CommonSteps[8] = "bigINTEGER" :> "BIGINT"
  /\ CommonSteps[9] = "smallSERIAL PRIMARY KEY" :> "SMALLSERIAL PRIMARY KEY"
  /\ CommonSteps[10] = "text" :> "TEXT"
  BY DEF CommonSteps

\* Step i of lines 79-93 keeps a column among the tokens allowed after it.
LEMMA CommonStep ==
  ASSUME NEW i \in 1..10, NEW x \in TypesAfter(i - 1)
  PROVE  Sub(CommonSteps[i], x) \in TypesAfter(i)
  <1>1. CASE i = 1
    <2>1. /\ x \in PostgresTypes \cup {"datetime", "longtext", "longblob", "blob", "smallINTEGER", "bigINTEGER", "text"}
          /\ TypesAfter(i) = PostgresTypes \cup {"longtext", "longblob", "blob", "smallINTEGER", "bigINTEGER", "text"}
      BY <1>1, TypesAfterValues
    <2>2. CommonSteps[i] = "datetime" :> "TIMESTAMP"
      BY <1>1, CommonStepValues
    <2>3. QED
      BY <2>1, <2>2 DEF Sub, :>, @@, PostgresTypes
  <1>2. CASE i = 2
    <2>1. /\ x \in PostgresTypes \cup {"longtext", "longblob", "blob", "smallINTEGER", "bigINTEGER", "text"}
          /\ TypesAfter(i) = PostgresTypes \cup {"longblob", "blob", "smallINTEGER", "bigINTEGER", "text"}
      BY <1>2, TypesAfterValues
    <2>2. CommonSteps[i] = "longtext" :> "TEXT"
      BY <1>2, CommonStepValues
    <2>3. QED
      BY <2>1, <2>2 DEF Sub, :>, @@, PostgresTypes
  <1>3. CASE i = 3
    <2>1. /\ x \in PostgresTypes \cup {"longblob", "blob", "smallINTEGER", "bigINTEGER", "text"}
          /\ TypesAfter(i) = PostgresTypes \cup {"longblob", "blob", "smallINTEGER", "bigINTEGER", "text"}
      BY <1>3, TypesAfterValues
    <2>2. CommonSteps[i] = "mediumtext" :> "TEXT"
      BY <1>3, CommonStepValues
    <2>3. QED
      BY <2>1, <2>2 DEF Sub, :>, @@, PostgresTypes
  <1>4. CASE i = 4
    <2>1. /\ x \in PostgresTypes \cup {"longblob", "blob", "smallINTEGER", "bigINTEGER", "text"}
          /\ TypesAfter(i) = PostgresTypes \cup {"blob", "smallINTEGER", "bigINTEGER", "text"}
      BY <1>4, TypesAfterValues
    <2>2. CommonSteps[i] = "longblob" :> "BYTEA"
      BY <1>4, CommonStepValues
    <2>3. QED
      BY <2>1, <2>2 DEF Sub, :>, @@, PostgresTypes
  <1>5. CASE i = 5
    <2>1. /\ x \in PostgresTypes \cup {"blob", "smallINTEGER", "bigINTEGER", "text"}
          /\ TypesAfter(i) = PostgresTypes \cup {"blob", "smallINTEGER", "bigINTEGER", "text"}
      BY <1>5, TypesAfterValues
    <2>2. CommonSteps[i] = "mediumblob" :> "BYTEA"
      BY <1>5, CommonStepValues
    <2>3. QED
      BY <2>1, <2>2 DEF Sub, :>, @@, PostgresTypes
  <1>6. CASE i = 6
    <2>1. /\ x \in PostgresTypes \cup {"blob", "smallINTEGER", "bigINTEGER", "text"}
          /\ TypesAfter(i) = PostgresTypes \cup {"smallINTEGER", "bigINTEGER", "text"}
      BY <1>6, TypesAfterValues
    <2>2. CommonSteps[i] = ("blob" :> "BYTEA") @@ ("tinyblob" :> "tinyBYTEA")
                            @@ ("longblob" :> "longBYTEA") @@ ("mediumblob" :> "mediumBYTEA")
      BY <1>6, CommonStepValues
    <2>3. QED
      BY <2>1, <2>2 DEF Sub, :>, @@, PostgresTypes
  <1>7. CASE i = 7
    <2>1. /\ x \in PostgresTypes \cup {"smallINTEGER", "bigINTEGER", "text"}
          /\ TypesAfter(i) = PostgresTypes \cup {"bigINTEGER", "text"}
      BY <1>7, TypesAfterValues
    <2>2. CommonSteps[i] = "smallINTEGER" :> "SMALLINT"
      BY <1>7, CommonStepValues
    <2>3. QED
      BY <2>1, <2>2 DEF Sub, :>, @@, PostgresTypes
  <1>8. CASE i = 8
    <2>1. /\ x \in PostgresTypes \cup {"bigINTEGER", "text"}
          /\ TypesAfter(i) = PostgresTypes \cup {"text"}
      BY <1>8, TypesAfterValues
    <2>2. CommonSteps[i] = "bigINTEGER" :> "BIGINT"
      BY <1>8, CommonStepValues
    <2>3. QED
      BY <2>1, <2>2 DEF Sub, :>, @@, PostgresTypes
  <1>9. CASE i = 9
    <2>1. /\ x \in PostgresTypes \cup {"text"}
          /\ TypesAfter(i) = PostgresTypes \cup {"text"}
      BY <1>9, TypesAfterValues
    <2>2. CommonSteps[i] = "smallSERIAL PRIMARY KEY" :> "SMALLSERIAL PRIMARY KEY"
      BY <1>9, CommonStepValues
    <2>3. QED
      BY <2>1, <2>2 DEF Sub, :>, @@, PostgresTypes
  <1>10. CASE i = 10
    <2>1. /\ x \in PostgresTypes \cup {"text"}
          /\ TypesAfter(i) = PostgresTypes
      BY <1>10, TypesAfterValues
    <2>2. CommonSteps[i] = "text" :> "TEXT"
      BY <1>10, CommonStepValues
    <2>3. QED
      BY <2>1, <2>2 DEF Sub, :>, @@, PostgresTypes
  <1>11. QED
    BY <1>1, <1>2, <1>3, <1>4, <1>5, <1>6, <1>7, <1>8, <1>9, <1>10

\* The four substitutions of lines 73-77.
LEMMA IntStepValues ==
  /\ IntSteps[1] = ("int" :> "INTEGER") @@ ("bigint" :> "bigINTEGER")
                      @@ ("smallint" :> "smallINTEGER") @@ ("tinyint" :> "tinyINTEGER")
                      @@ ("mediumint" :> "mediumINTEGER")
  /\ IntSteps[2] = "bigint" :> "BIGINT"
  /\ IntSteps[3] = "smallint" :> "SMALLINT"
  /\ IntSteps[4] = "tinyint" :> "SMALLINT"
  BY DEF IntSteps

(***************************************************************************)
(* Lines 64-77 give a baseline column a PostgreSQL type or a token that a *)
(* later substitution converts: int\(\d+\) runs first, so the bigint and   *)
(* smallint substitutions after it find nothing left to match.             *)
(***************************************************************************)
LEMMA IntegerStepsBaseline ==
  ASSUME NEW l, l.type \in BaselineTypes, l.auto \in BOOLEAN,
         l.auto => l.type \in {"int", "bigint", "smallint"}
  PROVE  (IF l.auto THEN AutoConvert(l.type) ELSE Apply4(IntSteps, l.type)) \in TypesAfter(0)
  <1> DEFINE AfterInt == {"INTEGER", "bigINTEGER", "smallINTEGER", "varchar", "datetime",
                          "text", "longtext", "longblob", "blob"}
  <1>1. AfterInt \subseteq TypesAfter(0)
    BY TypesAfterValues DEF PostgresTypes
  <1>2. CASE l.auto
    BY <1>2, TypesAfterValues DEF AutoConvert, Sub, :>, @@, PostgresTypes
  <1>3. CASE ~l.auto
    <2>1. Sub(IntSteps[1], l.type) \in AfterInt
      BY IntStepValues DEF Sub, :>, @@, BaselineTypes
    <2>2. \A k \in 2..4 : \A y \in AfterInt : Sub(IntSteps[k], y) = y
      BY IntStepValues DEF Sub, :>
    <2>3. Apply4(IntSteps, l.type) \in AfterInt
      BY <2>1, <2>2 DEF Apply4
    <2>4. QED
      BY <1>1, <1>3, <2>3
  <1>4. QED
    BY <1>2, <1>3

\* The substitutions of lines 64-93 turn each baseline column into a
\* PostgreSQL type.
LEMMA ConvertBaseline ==
  ASSUME NEW l, l.type \in BaselineTypes, l.auto \in BOOLEAN,
         l.auto => l.type \in {"int", "bigint", "smallint"}
  PROVE  ConvertColumn(l) \in PostgresTypes
  <1>1. PICK v0 \in TypesAfter(0) :
          v0 = IF l.auto THEN AutoConvert(l.type) ELSE Apply4(IntSteps, l.type)
    BY IntegerStepsBaseline
  <1>2. \A x \in TypesAfter(0) : Sub(CommonSteps[1], x) \in TypesAfter(1)
    BY CommonStep
  <1>3. \A x \in TypesAfter(1) : Sub(CommonSteps[2], x) \in TypesAfter(2)
    BY CommonStep
  <1>4. \A x \in TypesAfter(2) : Sub(CommonSteps[3], x) \in TypesAfter(3)
    BY CommonStep
  <1>5. \A x \in TypesAfter(3) : Sub(CommonSteps[4], x) \in TypesAfter(4)
    BY CommonStep
  <1>6. \A x \in TypesAfter(4) : Sub(CommonSteps[5], x) \in TypesAfter(5)
    BY CommonStep
  <1>7. \A x \in TypesAfter(5) : Sub(CommonSteps[6], x) \in TypesAfter(6)
    BY CommonStep
  <1>8. \A x \in TypesAfter(6) : Sub(CommonSteps[7], x) \in TypesAfter(7)
    BY CommonStep
  <1>9. \A x \in TypesAfter(7) : Sub(CommonSteps[8], x) \in TypesAfter(8)
    BY CommonStep
  <1>10. \A x \in TypesAfter(8) : Sub(CommonSteps[9], x) \in TypesAfter(9)
    BY CommonStep
  <1>11. \A x \in TypesAfter(9) : Sub(CommonSteps[10], x) \in TypesAfter(10)
    BY CommonStep
  <1>12. Apply10(CommonSteps, v0) \in TypesAfter(10)
    BY <1>2, <1>3, <1>4, <1>5, <1>6, <1>7, <1>8, <1>9, <1>10, <1>11, Zenon
    DEF Apply10, Apply4
  <1>13. QED
    BY <1>1, <1>12, TypesAfterValues DEF ConvertColumn
-----------------------------------------------------------------------------
(***************************************************************************)
(*                       The pass over the lines                           *)
(***************************************************************************)

\* The lines of all dumps, and the values the converter copies from them.
DumpLines == UNION {SeqRange(d) : d \in Dumps}
DumpNames == {l.name : l \in DumpLines} \cup {NoTable, ""}

\* Output items of the given kinds, with the fields the converter fills.
ItemRecords(K) ==
    [kind : K, table : DumpNames, name : DumpNames,
     type : {ConvertColumn(l) : l \in DumpLines} \cup {""},
     cols : {l.cols : l \in DumpLines} \cup {{}}]

(***************************************************************************)
(* The loop index stays within the dump or one past its end, and each     *)
(* accumulator holds items of its own kinds: columns only column          *)
(* definitions, constraints only PRIMARY KEY and UNIQUE entries, indexes   *)
(* only CREATE INDEX statements.                                           *)
(***************************************************************************)
TypeIInv ==
    /\ lines \in Dumps
    /\ pos \in 1..Len(lines) + 1
    /\ in_table \in BOOLEAN
    /\ table_name \in DumpNames
    /\ columns \in Seq(ItemRecords({"column"}))
    /\ constraints \in Seq(ItemRecords({"pk", "unique"}))
    /\ indexes \in Seq(ItemRecords({"index"}))
    /\ output \in Seq(ItemRecords(ItemKinds))

\* Items whose column definition, if they are one, has a PostgreSQL type.
PgItems == {it \in ItemRecords(ItemKinds) : it.kind = "column" => it.type \in PostgresTypes}

\* Every column converted so far, kept or written, has a PostgreSQL type.
PgIInv ==
    /\ TypeIInv
    /\ columns \in Seq(PgItems)
    /\ output \in Seq(PgItems)

\* Every item record has one of the kinds an item may have.
LEMMA ItemRecordsGrow ==
  ASSUME NEW K \in SUBSET ItemKinds
  PROVE  ItemRecords(K) \subseteq ItemRecords(ItemKinds)
  BY DEF ItemRecords

\* Two elements of S form a sequence over S.
LEMMA PairSeq ==
  ASSUME NEW S, NEW a \in S, NEW b \in S
  PROVE  <<a, b>> \in Seq(S)
  OBVIOUS

\* The line the loop is at is a line of the dump, with a name and keys.
LEMMA CurLine ==
  ASSUME TypeIInv, pos <= Len(lines)
  PROVE  /\ Cur \in DumpLines
         /\ Cur \in LineSet
         /\ Cur.name \in DumpNames
         /\ Cur.cols \in {l.cols : l \in DumpLines}
  <1>1. lines \in Seq(LineSet) /\ pos \in 1..Len(lines)
    BY DumpsAssumption DEF TypeIInv
  <1>2. Cur \in DumpLines
    BY <1>1, LenProperties DEF Cur, DumpLines, SeqRange, TypeIInv
  <1>3. Cur \in LineSet
    BY <1>1, ElementOfSeq DEF Cur
  <1>4. QED
    BY <1>2, <1>3 DEF DumpNames

LEMMA TypeInit == Init => TypeIInv
  <1> SUFFICES ASSUME Init PROVE TypeIInv
    OBVIOUS
  <1>1. lines \in Seq(LineSet)
    BY DumpsAssumption DEF Init
  <1>2. Len(lines) \in Nat
    BY <1>1, LenProperties
  <1>3. /\ <<>> \in Seq(ItemRecords({"column"}))
        /\ <<>> \in Seq(ItemRecords({"pk", "unique"}))
        /\ <<>> \in Seq(ItemRecords({"index"}))
        /\ <<>> \in Seq(ItemRecords(ItemKinds))
    BY EmptySeq
  <1>4. pos \in 1..Len(lines) + 1
    BY <1>2 DEF Init
  <1>5. table_name \in DumpNames
    BY DEF Init, DumpNames
  <1>6. QED
    BY <1>3, <1>4, <1>5, Zenon DEF Init, TypeIInv

\* The loop moves one line on and keeps the dump.
LEMMA AdvanceType ==
  ASSUME TypeIInv, pos <= Len(lines), Advance, lines' = lines
  PROVE  lines' \in Dumps /\ pos' \in 1..Len(lines') + 1
  BY DEF TypeIInv, Advance

(***************************************************************************)
(* Each branch of the loop body appends to an accumulator only an item of *)
(* that accumulator's kinds, built from the current line.                 *)
(***************************************************************************)
LEMMA TypeNext ==
  ASSUME TypeIInv, [Next]_vars
  PROVE  TypeIInv'
  <1>1. CASE CreateTable
    <2>1. pos <= Len(lines) BY <1>1 DEF CreateTable, At
    <2>2. Item("open", Cur.name, "", "", {}) \in ItemRecords(ItemKinds)
      BY <2>1, CurLine DEF Item, ItemRecords, DumpNames, ItemKinds
    <2>3. output' \in Seq(ItemRecords(ItemKinds))
      BY <1>1, <2>2, AppendProperties DEF CreateTable, TypeIInv
    <2>4. /\ columns' \in Seq(ItemRecords({"column"}))
          /\ constraints' \in Seq(ItemRecords({"pk", "unique"}))
          /\ indexes' \in Seq(ItemRecords({"index"}))
      BY <1>1, EmptySeq DEF CreateTable
    <2>5. table_name' \in DumpNames
      BY <1>1, <2>1, CurLine DEF CreateTable
    <2>6. QED
      BY <1>1, <2>1, <2>3, <2>4, <2>5, AdvanceType DEF CreateTable, TypeIInv
  <1>2. CASE EndTable
    <2>1. pos <= Len(lines) BY <1>2 DEF EndTable, At
    <2>2. /\ columns \in Seq(ItemRecords(ItemKinds))
          /\ constraints \in Seq(ItemRecords(ItemKinds))
          /\ indexes \in Seq(ItemRecords(ItemKinds))
          /\ output \in Seq(ItemRecords(ItemKinds))
      BY ItemRecordsGrow, SeqMonotonic DEF TypeIInv, ItemKinds
    <2>3. << Item("close", table_name, "", "", {}), Item("blank", table_name, "", "", {}) >>
            \in Seq(ItemRecords(ItemKinds))
      <3>1. /\ Item("close", table_name, "", "", {}) \in ItemRecords(ItemKinds)
            /\ Item("blank", table_name, "", "", {}) \in ItemRecords(ItemKinds)
        BY DEF TypeIInv, Item, ItemRecords, DumpNames, ItemKinds
      <3>2. QED
        BY <3>1, PairSeq
    <2>4. output' \in Seq(ItemRecords(ItemKinds))
      BY <1>2, <2>2, <2>3, ConcatProperties DEF EndTable
    <2>5. QED
      BY <1>2, <2>1, <2>4, AdvanceType DEF EndTable, TypeIInv
  <1>3. CASE Column
    <2>1. pos <= Len(lines) BY <1>3 DEF Column, At
    <2>2. Item("column", table_name, Cur.name, ConvertColumn(Cur), {})
            \in ItemRecords({"column"})
      BY <2>1, CurLine DEF TypeIInv, Item, ItemRecords, DumpNames
    <2>3. columns' \in Seq(ItemRecords({"column"}))
      BY <1>3, <2>2, AppendProperties DEF Column, TypeIInv
    <2>4. QED
      BY <1>3, <2>1, <2>3, AdvanceType DEF Column, TypeIInv
  <1>4. CASE PrimaryKey
    <2>1. pos <= Len(lines) BY <1>4 DEF PrimaryKey, At
    <2>2. Item("pk", table_name, "", "", Cur.cols) \in ItemRecords({"pk", "unique"})
      BY <2>1, CurLine DEF TypeIInv, Item, ItemRecords, DumpNames
    <2>3. constraints' \in Seq(ItemRecords({"pk", "unique"}))
      BY <1>4, <2>2, AppendProperties DEF PrimaryKey, TypeIInv
    <2>4. QED
      BY <1>4, <2>1, <2>3, AdvanceType DEF PrimaryKey, TypeIInv
  <1>5. CASE UniqueKey
    <2>1. pos <= Len(lines) BY <1>5 DEF UniqueKey, At
    <2>2. Item("unique", table_name, "", "", Cur.cols) \in ItemRecords({"pk", "unique"})
      BY <2>1, CurLine DEF TypeIInv, Item, ItemRecords, DumpNames
    <2>3. constraints' \in Seq(ItemRecords({"pk", "unique"}))
      BY <1>5, <2>2, AppendProperties DEF UniqueKey, TypeIInv
    <2>4. QED
      BY <1>5, <2>1, <2>3, AdvanceType DEF UniqueKey, TypeIInv
  <1>6. CASE Key
    <2>1. pos <= Len(lines) BY <1>6 DEF Key, At
    <2>2. Item("index", table_name, Cur.name, "", Cur.cols) \in ItemRecords({"index"})
      BY <2>1, CurLine DEF TypeIInv, Item, ItemRecords, DumpNames
    <2>3. indexes' \in Seq(ItemRecords({"index"}))
      BY <1>6, <2>2, AppendProperties DEF Key, TypeIInv
    <2>4. QED
      BY <1>6, <2>1, <2>3, AdvanceType DEF Key, TypeIInv
  <1>7. CASE Skip
    BY <1>7, AdvanceType DEF Skip, TypeIInv
  <1>8. CASE UNCHANGED vars
    BY <1>8 DEF vars, TypeIInv
  <1>9. QED
    BY <1>1, <1>2, <1>3, <1>4, <1>5, <1>6, <1>7, <1>8 DEF Next

\* Each item of a sequence of item records has one of the record's kinds.
LEMMA ItemKindsOfSeq ==
  ASSUME NEW K, NEW s \in Seq(ItemRecords(K))
  PROVE  \A i \in DOMAIN s : s[i].kind \in K
  <1> SUFFICES ASSUME NEW i \in DOMAIN s PROVE s[i].kind \in K
    OBVIOUS
  <1>1. s[i] \in ItemRecords(K)
    BY LenProperties, ElementOfSeq
  <1>2. QED
    BY <1>1 DEF ItemRecords

\* The typing of the accumulators gives TypeOK's kinds.
LEMMA TypeIInvImpliesTypeOK == TypeIInv => TypeOK
  <1> SUFFICES ASSUME TypeIInv PROVE TypeOK
    OBVIOUS
  <1>1. /\ \A i \in DOMAIN output : output[i].kind \in ItemKinds
        /\ \A i \in DOMAIN columns : columns[i].kind = "column"
        /\ \A i \in DOMAIN constraints : constraints[i].kind \in {"pk", "unique"}
        /\ \A i \in DOMAIN indexes : indexes[i].kind = "index"
    BY ItemKindsOfSeq DEF TypeIInv
  <1>2. QED
    BY <1>1 DEF TypeIInv, TypeOK

\* Items of kinds other than a column definition have no type to check.
LEMMA NonColumnsPg ==
  ASSUME NEW K \in SUBSET ItemKinds, "column" \notin K
  PROVE  ItemRecords(K) \subseteq PgItems
  BY DEF ItemRecords, PgItems

\* A column line of a baseline dump converts to a PostgreSQL type.
LEMMA CurColumnPg ==
  ASSUME BaselineColumns, TypeIInv, pos <= Len(lines), Cur.kind = "column"
  PROVE  ConvertColumn(Cur) \in PostgresTypes
  <1>1. lines \in Dumps /\ pos \in DOMAIN lines
    BY DumpsAssumption, LenProperties DEF TypeIInv
  <1>2. /\ Cur.type \in BaselineTypes
        /\ Cur.auto => Cur.type \in {"int", "bigint", "smallint"}
    BY <1>1 DEF BaselineColumns, Cur
  <1>3. Cur.auto \in BOOLEAN
    BY CurLine DEF LineSet
  <1>4. QED
    BY <1>2, <1>3, ConvertBaseline

(***************************************************************************)
(* The columns a table accumulates have PostgreSQL types, and EndTable    *)
(* writes them with constraints, the closing lines and indexes, which are *)
(* not column definitions.                                                 *)
(***************************************************************************)
LEMMA PgNext ==
  ASSUME BaselineColumns, PgIInv, [Next]_vars
  PROVE  PgIInv'
  <1>1. TypeIInv'
    BY TypeNext DEF PgIInv
  <1>2. CASE CreateTable
    <2>1. pos <= Len(lines) BY <1>2 DEF CreateTable, At
    <2>2. Item("open", Cur.name, "", "", {}) \in PgItems
      BY <2>1, CurLine DEF PgIInv, Item, ItemRecords, DumpNames, ItemKinds, PgItems
    <2>3. output' \in Seq(PgItems)
      BY <1>2, <2>2, AppendProperties DEF CreateTable, PgIInv
    <2>4. columns' \in Seq(PgItems)
      BY <1>2, EmptySeq DEF CreateTable
    <2>5. QED
      BY <1>1, <2>3, <2>4 DEF PgIInv
  <1>3. CASE EndTable
    <2>1. /\ constraints \in Seq(PgItems)
          /\ indexes \in Seq(PgItems)
      <3>1. /\ ItemRecords({"pk", "unique"}) \subseteq PgItems
            /\ ItemRecords({"index"}) \subseteq PgItems
        BY NonColumnsPg DEF ItemKinds
      <3>2. QED
        BY <3>1, SeqMonotonic DEF PgIInv, TypeIInv
    <2>2. << Item("close", table_name, "", "", {}), Item("blank", table_name, "", "", {}) >>
            \in Seq(PgItems)
      <3>1. /\ Item("close", table_name, "", "", {}) \in PgItems
            /\ Item("blank", table_name, "", "", {}) \in PgItems
        BY DEF PgIInv, TypeIInv, Item, ItemRecords, DumpNames, ItemKinds, PgItems
      <3>2. QED
        BY <3>1, PairSeq
    <2>3. output' \in Seq(PgItems)
      BY <1>3, <2>1, <2>2, ConcatProperties DEF EndTable, PgIInv
    <2>4. QED
      BY <1>1, <1>3, <2>3 DEF EndTable, PgIInv
  <1>4. CASE Column
    <2>1. pos <= Len(lines) /\ Cur.kind = "column" BY <1>4 DEF Column, At
    <2>2. ConvertColumn(Cur) \in PostgresTypes
      BY <2>1, CurColumnPg DEF PgIInv
    <2>3. Item("column", table_name, Cur.name, ConvertColumn(Cur), {}) \in PgItems
      BY <2>1, <2>2, CurLine DEF PgIInv, TypeIInv, Item, ItemRecords, DumpNames,
                                 ItemKinds, PgItems
    <2>4. columns' \in Seq(PgItems)
      BY <1>4, <2>3, AppendProperties DEF Column, PgIInv
    <2>5. QED
      BY <1>1, <1>4, <2>4 DEF Column, PgIInv
  <1>5. CASE PrimaryKey \/ UniqueKey \/ Key \/ Skip \/ UNCHANGED vars
    BY <1>1, <1>5 DEF PrimaryKey, UniqueKey, Key, Skip, vars, PgIInv
  <1>6. QED
    BY <1>2, <1>3, <1>4, <1>5 DEF Next

\* What PgIInv says of the output is ColumnsArePostgres.
LEMMA PgIInvImpliesProperty == PgIInv => ColumnsArePostgres
  <1> SUFFICES ASSUME PgIInv, NEW k \in DOMAIN output, output[k].kind = "column"
               PROVE  output[k].type \in PostgresTypes
    BY DEF ColumnsArePostgres
  <1>1. output[k] \in PgItems
    BY LenProperties, ElementOfSeq DEF PgIInv
  <1>2. QED
    BY <1>1 DEF PgItems

(***************************************************************************)
(* For every dump of well-formed lines, whatever its length and number of *)
(* tables, the loop of convert_mysql_to_postgres stays within the dump,   *)
(* and its accumulators and output hold only items of their kinds.        *)
(***************************************************************************)
THEOREM TypeCorrect == Spec => []TypeOK
  <1>1. Init => TypeIInv
    BY TypeInit
  <1>2. TypeIInv /\ [Next]_vars => TypeIInv'
    BY TypeNext
  <1>3. TypeIInv => TypeOK
    BY TypeIInvImpliesTypeOK
  <1>4. QED
    BY <1>1, <1>2, <1>3, PTL DEF Spec

(***************************************************************************)
(* When the dump's columns use the baseline schema's types, every column  *)
(* definition convert_mysql_to_postgres writes, in a dump of any length   *)
(* and with any number of tables, has a PostgreSQL type: the order of the *)
(* substitutions of lines 64-93 leaves no MySQL type behind.              *)
(***************************************************************************)
THEOREM BaselineColumnsArePostgres ==
  ASSUME BaselineColumns
  PROVE  Spec => []ColumnsArePostgres
  <1>1. Init => PgIInv
    BY TypeInit, EmptySeq DEF Init, PgIInv
  <1>2. PgIInv /\ [Next]_vars => PgIInv'
    BY PgNext
  <1>3. PgIInv => ColumnsArePostgres
    BY PgIInvImpliesProperty
  <1>4. QED
    BY <1>1, <1>2, <1>3, PTL DEF Spec

====
