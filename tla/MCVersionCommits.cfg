SPECIFICATION Spec
CONSTANTS
    Doors = {d1, d2}
    Txns = {t}
    Requests = {r1, r2}
    Commits <- MCCommits
    Announced = {d1, d2, t}
    ATTEMPTS = 2
    MaxVersion = 4
    Offers <- MCOffers
SYMMETRY AlikeWriters
CHECK_DEADLOCK FALSE
INVARIANTS LandsAtMostOnce AnswersAreTrue LandedKeepsItsParts
