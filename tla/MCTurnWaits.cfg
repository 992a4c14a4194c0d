SPECIFICATION MCSpec
CONSTANTS
    DoorCommits = {d, e}
    Writers = {w}
    Processes <- MCProcesses
    Refs <- MCRefs
    RefOf <- OneRef
    ServedBy <- Together
    Nonces = {1, 2}
    HOLD = 1
    ROUNDS = 1
    PLANS = 2
    SEATS = 1
PROPERTY WaitsEnd
