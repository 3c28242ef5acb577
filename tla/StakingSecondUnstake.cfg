\* The staking contract's promise that a second unstake is refused.
SPECIFICATION PotsSpec
CONSTANTS
    ann = ann
    ben = ben
    dot = dot
    eve = eve
    fay = fay
    MaxLedger = 3
    Addresses = {dot, eve, fay}
    SignerLists <- SignerChoices
    WeightMaps <- WeightChoices
    Approvals <- ApprovalChoices
    Thresholds = {0, 2, 3}
    Lifetimes = {1}
    Validities = {Unlimited, 0}
    Unlimited = Unlimited
    Missing = Missing
    Batches <- BatchChoices
    MaxProposals = 2
    U32Max = 3
    Main = main
    OtherTokens = {other}
    AdminFunds = 4
    LockAmounts = {0, 1, 2}
    ReleaseLedgers = {1, 3}
    TranchePlans <- TrancheChoices
    Yields = {0, 1}
    MaxHeld = 4
    Unscheduled = Unscheduled
    LedgerBuffer = 2
    Backers = {ann, ben}
    BackerFunds = 2
    Campaigns <- CampaignChoices
    PledgeAmounts = {0, 1, 2}
    NewDeadlines = {2}
    RefundLists <- RefundChoices
    MilestoneLists <- MilestoneChoices
    MaxOther = 1
    Unbounded = Unbounded
    Stakers = {ann, ben}
    StakerFunds = 2
    StakeAmounts = {1}
    MaxStaked = 2
    MaxReplaced = 1
    Rates = {0, 1}
    PeriodEnds = {2}
    UnbondPeriods = {0, 1}
    NoRequest = NoRequest
    RewardScale = 2
    Bidders = {ann, ben}
    BidderFunds = 4
    SellerFunds = 1
    AuctionTerms <- AuctionChoices
    BidAmounts = {1, 2, 3, 4}
    RoyaltyShares = {0, 1}
    None = None
    hal = hal
    ivy = ivy
    Holders = {hal, ivy}
    HolderFunds <- HolderFundsChoice
    Proposers = {hal}
    Delegators = {ivy}
    DaoConfigs <- DaoConfigChoices
    Drafts <- DraftChoices
    DelegatorLists <- DelegatorChoices
    ChoiceAmounts = {1}
    MaxMotions = 2
    NoDelegate = NoDelegate
    Voters = {ann, ben}
    VoterWeights = {2}
    Ballots <- BallotChoices
    Rankings <- RankingChoices
    Hidden <- HiddenChoices
    MinBuffer = 0
    MinDuration = 1
    MaxChoices = 2
    MaxPhases = 2
    Unset = Unset
    FinancialDelay = 2
    CriticalDelay = 3
INVARIANT UnstakedNotLost
SYMMETRY NameSymmetry
CHECK_DEADLOCK FALSE
