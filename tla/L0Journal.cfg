CONSTANTS
    server = server
    daemon = daemon
    s1 = s1
    s2 = s2
    d1 = d1
    hello = hello
    bye = bye
    Procs <- MCProcs
    Tasks <- MCTasks
    ProcOf <- MCProcOf
    Texts <- MCTexts
    NoText = NoText
    Preview = Preview
    MaxRows = 3
    MaxTimeouts = 1
SPECIFICATION Spec
INVARIANTS
    TypeOK
    RowsAreWhole
    LockedCapturesDoNotFork
    OneRowPerProcessAndText
PROPERTY
    AuditVerdictIsTrue
SYMMETRY Alike
