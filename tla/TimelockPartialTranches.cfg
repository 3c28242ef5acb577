\* Partial releases of a lock with tranches.
SPECIFICATION FreeTimelockSpec
CONSTANTS
    ann = ann
    ben = ben
    dot = dot
    eve = eve
    fay = fay
    MaxLedger = 3
    Addresses = {dot}
    SignerLists = {}
    WeightMaps = {}
    Approvals = {}
    Thresholds = {1}
    Lifetimes = {1}
    Validities = {Unlimited}
    Unlimited = Unlimited
    Missing = Missing
    Batches = {}
    MaxProposals = 1
    U32Max = 3
    Main = main
    OtherTokens = {}
    AdminFunds = 2
    LockAmounts = {1}
    ReleaseLedgers = {}
    TranchePlans <- TwoTranches
    Yields = {0}
    MaxHeld = 4
    Unscheduled = Unscheduled
    LedgerBuffer = 2
    Backers = {ann, ben}
    BackerFunds = 2
    Campaigns <- CampaignChoices
    PledgeAmounts = {0, 1, 2}
    NewDeadlines = {2}
    RefundLists <- RefundChoices
    MilestoneLists <- MilestoneChoices
    MaxOther = 1
    Unbounded = Unbounded
    Stakers = {ann, ben}
    StakerFunds = 2
    StakeAmounts <- StakeChoices
    MaxStaked = 2
    MaxReplaced = 1
    Rates = {0, 1}
    PeriodEnds = {2}
    UnbondPeriods = {0, 1}
    NoRequest = NoRequest
    RewardScale = 2
    Bidders = {ann, ben}
    BidderFunds = 4
    SellerFunds = 1
    AuctionTerms <- AuctionChoices
    BidAmounts = {1, 2, 3, 4}
    RoyaltyShares = {0, 1}
    None = None
    hal = hal
    ivy = ivy
    Holders = {hal, ivy}
    HolderFunds <- HolderFundsChoice
    Proposers = {hal}
    Delegators = {ivy}
    DaoConfigs <- DaoConfigChoices
    Drafts <- DraftChoices
    DelegatorLists <- DelegatorChoices
    ChoiceAmounts = {1}
    MaxMotions = 2
    NoDelegate = NoDelegate
    Voters = {ann, ben}
    VoterWeights = {2}
    Ballots <- BallotChoices
    Rankings <- RankingChoices
    Hidden <- HiddenChoices
    MinBuffer = 0
    MinDuration = 1
    MaxChoices = 2
    MaxPhases = 2
    Unset = Unset
    FinancialDelay = 2
    CriticalDelay = 3
INVARIANTS
    NothingEarly
CHECK_DEADLOCK FALSE
