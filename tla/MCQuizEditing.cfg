CONSTANTS
    Owner = owner
    Guests = {g1, g2}
    Questions = {q1, q2, q3}
    Invites = {i1, i2}
    GrantLimit = 1
    MaxVersion = 2
    MaxChange = 1
    MaxBusy = 2
    Imported = Imported
    Gone = Gone
    None = None
SPECIFICATION Spec
INVARIANTS ListIsOneSave DeletedQuizHasNoGrants GrantsWithinLimit
PROPERTIES NoUnseenLoss
SYMMETRY MCSymmetry
