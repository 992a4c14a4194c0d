SPECIFICATION MCSpec
CONSTANTS
    Parts = {"directory"}
    DirectoryOffers <- Readmitted
    AccessOffers <- NoMixes
    Calls = {c1, c2}
    Tags = {"v"}
    Branches <- MCBranches
    Inside <- MCInside
    HOLD = 1
    ATTEMPTS = 2
    MaxClock = 2
    MaxVersion = 3
    bronze = bronze  silver = silver  here = here  there = there
    Files = {f1, f2}
    Slots = {1, 2}
    ann = ann  bob = bob  cat = cat  root = root  entry = entry  upper = upper  proj = proj  other = other
    depot = depot  leaf = leaf  readers = readers  writers = writers
    Everyone = Everyone
    Nobody = Nobody
    Turns = {1, 2, 3}
SYMMETRY AlikeCalls
CHECK_DEADLOCK FALSE
INVARIANT OneTableReadsIt
