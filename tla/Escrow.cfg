\* Every kind of escrow: one arbiter, a committee, milestones, a basket.
SPECIFICATION CarefulSpec
CONSTANTS
    a1 = a1
    a2 = a2
    a3 = a3
    a4 = a4
    usd = usd
    eur = eur
    Buyer = buyer
    Seller = seller
    Arbiter = arbiter
    Panel = {a1, a2, a3}
    Treasuries = {treasury}
    Self = self
    NoTreasury = none
    BuyerFunds = 6
    Amounts = {0, 2, 5}
    Deadlines = {1, 2, 3}
    Timeouts = {0, 2}
    Buffers = {1}
    Graces = {0, 1}
    ArbiterFees = {0, 2000, 2001}
    PlatformFees = {5000, 10001}
    Committees <- SmallCommittees
    MilestonePlans <- PlanChoices
    ZeroTransferOk = FALSE
    Pausable = TRUE
    MinDeadlineBuffer = 2
    MaxLedger = 4
    Lead = lead
    SideTokens = {usd, eur}
    Baskets <- BasketChoices
    BuyerSide = 2
INVARIANTS
    VaultBacked
    MilestonesInStep
PROPERTIES
    ImplementsVault
    CommitteeDecides
    BasketMovesWhole
    SilenceNotForever
CHECK_DEADLOCK FALSE
