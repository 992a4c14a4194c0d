SPECIFICATION MCSpec
CONSTANTS
    Names <- MCNames
    First = "a"
    Requests <- MCRequests
    Offers <- MCOffers
    MaxServed = 4
    LEASE = 1
    MaxClock = 2
    Calls <- Reviewing
    Offerings <- Reviews
    Hours = 1
    MaxVersion = 4
    MaxTime = 2
    Band = 25
    DoorCommits = {door}
    Writers = {writer}
    Processes <- MCProcesses
    Refs <- MCRefs
    RefOf <- OneRef
    ServedBy <- Apart
    Nonces = {1, 2}
    HOLD = 2
    ROUNDS = 2
    PLANS = 2
    SEATS = 1
VIEW WhatMoves
CHECK_DEADLOCK FALSE
INVARIANTS OneNamePerLocation TrashedStaysRecoverable DecisionsAct ReadersReadReviewed TurnsEndWithCommits
PROPERTIES NamedTablesLast DoorsEndTheirOwnTable TurnHoldsOthersBack
