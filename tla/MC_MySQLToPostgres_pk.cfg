\* An AUTO_INCREMENT column inside a composite primary key.
CONSTANTS
    Dumps <- MCDumpsComposite
SPECIFICATION Spec
CHECK_DEADLOCK FALSE
INVARIANT
    PrimaryKeyPreserved
