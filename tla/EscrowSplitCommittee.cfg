\* A 3-of-4 committee with one dissenting ballot.
SPECIFICATION BasketSpec
CONSTANTS
    a1 = a1
    a2 = a2
    a3 = a3
    a4 = a4
    usd = usd
    eur = eur
    Buyer = buyer
    Seller = seller
    Arbiter = arbiter
    Panel = {a1, a2, a3, a4}
    Treasuries = {treasury}
    Self = self
    NoTreasury = none
    BuyerFunds = 6
    Amounts = {2}
    Deadlines = {2}
    Timeouts = {0}
    Buffers = {}
    Graces = {0}
    ArbiterFees = {}
    PlatformFees = {5000}
    Committees <- ThreeOfFour
    MilestonePlans = {}
    ZeroTransferOk = FALSE
    Pausable = FALSE
    MinDeadlineBuffer = 2
    MaxLedger = 2
    Lead = lead
    SideTokens = {usd, eur}
    Baskets = {}
    BuyerSide = 2
INVARIANTS
    CommitteeCanDecide
CHECK_DEADLOCK FALSE
