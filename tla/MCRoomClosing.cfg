CONSTANTS
    host = host
    license = license
    Players = {p1, p2}
    Questions = {q1, q2}
    Closers <- MCClosers
    Reason <- MCReason
    ReadsFail = FALSE
    None = None
SPECIFICATION Spec
INVARIANTS TypeOK ArchiveIsComplete PodiumMatchesArchive RowsOutliveArchive EndIsUnderWay
SYMMETRY MCSymmetry
