\* The subscription, the wrapped token, the airdrop and the price oracle.
SPECIFICATION ServicesSpec
CONSTANTS
    ann = ann
    ben = ben
    carol = carol
    basic = basic
    gold = gold
    MaxLedger = 3
    Subscribers = {carol}
    SubscriberFunds = 2
    PlanIds = {basic, gold}
    PlanTerms <- PlanChoices
    Trials = {0, 1}
    Prepays = {0, 1}
    GracePeriods = {0, 1}
    Approvals = {2}
    ChargeLists <- ChargeChoices
    BpsDenominator = 4
    NoPlan = NoPlan
    Wrappers = {ann, ben}
    WrapperFunds = 2
    WrapTerms <- WrapChoices
    WrapTaxes = {0, 1}
    WrapAmounts = {0, 1, 2}
    WrapBatches <- BatchChoices
    MinAmounts <- MinChoices
    RateLimits <- LimitChoices
    Reserves = {0, 9}
    FeeBase = 2
    NoLimit = NoLimit
    Claimants = {ann, ben}
    AirTokens = {basic, gold}
    AirTrees <- TreeChoices
    AirTerms <- AirChoices
    LiquidBase = 2
    AirFunding = {1, 2}
    ClaimLists <- ClaimChoices
    MaxAirHeld = 3
    NoRoot = NoRoot
    Feeders = {ann, ben}
    PublisherLists <- ListChoices
    Heartbeats = {1}
    Prices = {1, 4}
    Submitted <- SubmittedChoices
    Quorums = {2}
    Deviations = {1}
    Smoothings = {0, 1, 2, 3}
    Bonds <- BondChoices
    BondTokens = {basic, gold}
    MaxBond = 1
    MaxReports = 3
    OracleBase = 2
    MaxHistory = 2
    PriceMax = 8
    NoPrice = NoPrice
INVARIANTS
    PrepaidAccounted
    DelinquencyIsCurrent
    WrappedBacked
    AllocationsHonoured
    AveragesWithinReports
SYMMETRY NameSymmetry
CHECK_DEADLOCK FALSE
