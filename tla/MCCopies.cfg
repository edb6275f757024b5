CONSTANTS
    Readers = {r1, r2}
    Writers = {w1, w2}
    Entries = {e1, e2, e3}
    MaxWrites = 2
    Viewers = {v1, v2}
    Players = {1, 2, 3}
    MaxScore = 2
    Setters = {a1, a2}
    EnvPinned = FALSE
    MaxUpsets = 3
    NoCopy = NoCopy
    NoRoster = NoRoster
    NoValue = NoValue
SPECIFICATION Spec
INVARIANTS ReadsSeeInvalidatedWrites ResultsStayFull OwnRowNeverAhead
PROPERTIES GatesFollowTheRow
CHECK_DEADLOCK FALSE
