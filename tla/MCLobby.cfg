CONSTANTS
    Rooms = {r1}
    PlayerPaced = {r1}
    Seats = {s1, s2, s3}
    Nicknames = {n1, n2}
    Joins = {j1, j2}
    Creates = {k1}
    RoomLimit = 1
    PlayerCap = 1
    OpenCap = 2
    None = None
SPECIFICATION Spec
INVARIANTS EverySeatIsDealt CapBindsNewcomers
SYMMETRY MCSymmetry
