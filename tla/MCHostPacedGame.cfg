CONSTANTS
    Players = {p1}
    NumQuestions = 2
    Points = {0, 1, 2}
    None = None
    Requests = {r1, r2}
    HostRequests = {h1, h2}
SPECIFICATION Spec
INVARIANTS OneAnswerPerQuestion ScoreIsSumOfAnswers
PROPERTIES FinishedIsFinal AnswersFollowHost
SYMMETRY MCSymmetry
