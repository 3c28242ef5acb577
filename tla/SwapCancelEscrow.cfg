SPECIFICATION ExchangeSpec
CONSTANTS
    ann = ann
    ben = ben
    cid = cid
    usd = usd
    eur = eur
    Collectors = {ann, ben}
    MaxTokenId = 2
    Collections <- CollectionChoices
    TokenRoyalties = {0, 5000, 10001}
    MintCounts = {2}
    TokenLists <- TokenListChoices
    MaxOwned = 3
    Nobody = Nobody
    Market = Market
    Royal = Royal
    PayTokens = {usd, eur}
    DefaultToken = usd
    CollectorFunds <- FundsChoice
    ListTerms <- ListChoices
    BundleTerms <- BundleChoices
    IdLists <- IdListChoices
    OfferAmounts = {1, 2}
    OfferLists <- OfferListChoices
    OfferExpiries = {1}
    CounterRates = {5000}
    Whitelists <- WhitelistChoices
    Splits <- SplitChoices
    SingleBps = 3334
    Discounts = {0}
    MaxListings = 2
    MaxCalls = 7
    MaxBundles = 1
    MaxBatch = 2
    Parties = {ann, ben}
    SwapTokens = {usd, eur}
    PartyFunds = 4
    TokenKeeps <- NothingKept
    SwapTerms <- TermChoices
    BasketTerms <- BasketChoices
    FillAmounts = {1, 2}
    CancelLists <- CancelChoices
    FeeRates = {0, 3000, 10001}
    MaxSwaps = 2
    MaxBaskets = 1
    Anyone = Anyone
    MaxLedger = 2
INVARIANT CancelReturnsEscrow
CHECK_DEADLOCK FALSE
