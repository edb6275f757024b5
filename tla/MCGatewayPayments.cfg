CONSTANTS
    u1 = u1
    stranger = stranger
    cheap = cheap
    Users <- MCUsers
    Items <- MCItems
    Price <- MCPrice
    Amounts = {1, 2}
    Orders = {o1, o2}
    Carts = {c1}
    Rows <- MCRows
    Payments = {p1}
    Payers <- MCPayers
    Pages <- MCPages
    Admin = Admin
    None = None
SPECIFICATION FairSpec
INVARIANTS MoneyGrantsOnce OpenOrdersAreUngranted MisroutedNeverGrants
PROPERTIES CapturedMoneyActivates
CHECK_DEADLOCK FALSE
