\* Conversion of one- and two-table dumps over the baseline schema's types.
CONSTANTS
    Dumps <- MCDumps
SPECIFICATION Spec
\* The converter stops after the last line.
CHECK_DEADLOCK FALSE
INVARIANTS
    TypeOK
    ColumnsArePostgres
    TablesKeepTheirColumns
    IndexesOfOwnTable
    SinglePrimaryKey
