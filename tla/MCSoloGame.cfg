CONSTANTS
    Players = {p1, p2}
    NumQuestions = 2
    Points = {0, 1}
    None = None
    Requests = {r1, r2}
    Loads = {f1}
SPECIFICATION SoloSpec
INVARIANTS ProgressMatchesLog AutoFinishLeavesNobody LastFinisherCloses
SYMMETRY MCSymmetry
