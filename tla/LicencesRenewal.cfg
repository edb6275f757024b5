CONSTANTS
    free = free
    pro = pro
    business = business
    Users = {u1, u2}
    Codes = {c1, c2}
    Plans = {free, pro, business}
    Free = free
    Rank <- MCRank
    PlanOf <- MCPlanOf
    TermOf <- MCTermOf
    MaxUses <- MCMaxUses
    ShelfLife <- MCShelfLife
    Assigned = {u1}
    AdminTerms = {1}
    MaxDay = 2
    MaxEnd = 2
    Enforcing = TRUE
    MaxBusy = 2
    None = None
SPECIFICATION Spec
PROPERTY DowngradesTakeLapsedTerms
SYMMETRY MCSymmetry
