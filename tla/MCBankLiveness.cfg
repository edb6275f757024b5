CONSTANTS
    u1 = u1
    cheap = cheap
    dear = dear
    t1 = t1
    t2 = t2
    Users <- MCUsers
    Items <- MCTwoItems
    Price <- MCTwoPrices
    Amounts = {1, 2}
    Orders = {o1, o2}
    Carts = {c1, c2}
    Rows <- MCRowsOne
    Transfers <- MCOneTransfer
    SplitId = {}
    HasReference <- MCSplitId
    Quoted <- MCQuotedOne
    Elsewhere = Elsewhere
    LookupFails = FALSE
    MaxInFlight = 1
    Admin = Admin
    None = None
SPECIFICATION FairSpec
INVARIANTS OnePendingPerBuyer
PROPERTIES MoneyReachesLedger ExactMoneyActivates

