SPECIFICATION PubSpec
CONSTANTS
    old = old
    new1 = new1
    new2 = new2
    outside = outside
    edited = edited
    created = created
    check = check
    Missing = Missing
    Null = Null
    Paths <- MCPaths
    Contents = {old, new1, new2, outside}
    Original <- MCOriginal
    WritesOf <- MCWritesOf
    Outside = {outside}
    Checks = {check}
    MaxChecks = 0
    MaxEdits = 0
INVARIANTS
    OwnChangesRecoverable
CHECK_DEADLOCK FALSE
