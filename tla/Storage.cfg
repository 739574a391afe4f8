SPECIFICATION Spec
CONSTANTS
    Names = {a, b}
    Versions = {{}, {x}, {y}}
    MaxId = 2
INVARIANTS
    TypeOK
    NamesUnique
    AccountsKept
    StructureSettles
PROPERTY ImplementsAccounts
CHECK_DEADLOCK FALSE
