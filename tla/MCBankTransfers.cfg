CONSTANTS
    u1 = u1
    cheap = cheap
    dear = dear
    t1 = t1
    t2 = t2
    Users <- MCUsers
    Items <- MCItems
    Price <- MCPrice
    Amounts = {1, 2}
    Orders = {o1, o2}
    Carts = {c1}
    Rows <- MCRows
    Transfers <- MCTransfers
    SplitId <- MCSplitId
    HasReference <- MCSplitId
    Quoted <- MCQuoted
    Elsewhere = Elsewhere
    LookupFails = FALSE
    MaxInFlight = 1
    Admin = Admin
    None = None
SPECIFICATION Spec
INVARIANTS TypeOK CodeIffPaid PaidByOneTransfer PaidAmountIsLedgerMoney
PROPERTIES LedgerIsAppendOnly KeepsPromise
SYMMETRY MCSymmetry
