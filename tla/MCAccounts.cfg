CONSTANTS
    Requests = {r1, r2}
    Tokens = {t1, t2}
    Links = {l1, l2}
    NoKey = NoKey
SPECIFICATION AccountSpec
INVARIANTS SessionsStayRevocable LinkSetsOnePassword
SYMMETRY MCSymmetry
