\* tinyint and tinyblob columns.
CONSTANTS
    Dumps <- MCDumpsTypes
SPECIFICATION Spec
CHECK_DEADLOCK FALSE
INVARIANT
    ColumnsArePostgres
