\* The token (supply, transfers, batches, allowances, compliance, lockups, permits and
\* snapshots), the NFT collection, the marketplace and the swap.
SPECIFICATION AssetsSpec
CONSTANTS
    alice = alice
    bob = bob
    k1 = k1
    k2 = k2
    None = None
    Accounts = {alice, bob}
    Admins = {bob}
    Caps <- CapChoices
    Amounts <- AmountChoices
    Batches <- BatchChoices
    Pairs <- OnePair
    Expiries = {0, 1}
    Targets = {alice}
    Treasuries = {bob}
    Locks = {0}
    I128Max = 2
    I128Min <- MinusOne
    MaxLedger = 3
    MaxGranted = 2
    Permits <- SignedPermits
    Keys = {k1, k2}
    U32Max = 3
    Ledgers = {0, 1, 2, 3}
    MaxSnapshots = 4
    ann = ann
    ben = ben
    cid = cid
    usd = usd
    eur = eur
    Collectors = {ann, ben, cid}
    MaxTokenId = 2
    Collections <- CollectionChoices
    TokenRoyalties = {0, 5000, 10001}
    MintCounts = {2}
    TokenLists <- TokenListChoices
    MaxOwned = 3
    Nobody = Nobody
    Market = Market
    Royal = Royal
    PayTokens = {usd, eur}
    DefaultToken = usd
    CollectorFunds <- FundsChoice
    ListTerms <- ListChoices
    BundleTerms <- BundleChoices
    IdLists <- IdListChoices
    OfferAmounts = {1, 2}
    OfferLists <- OfferListChoices
    OfferExpiries = {1}
    CounterRates = {5000}
    Whitelists <- WhitelistChoices
    Splits <- SplitChoices
    SingleBps = 3334
    Discounts = {0}
    MaxListings = 2
    MaxCalls = 7
    MaxBundles = 1
    MaxBatch = 2
    Parties = {ann, ben}
    SwapTokens = {usd, eur}
    PartyFunds = 4
    TokenKeeps <- KeepChoices
    SwapTerms <- TermChoices
    BasketTerms <- BasketChoices
    FillAmounts = {1, 2}
    CancelLists <- CancelChoices
    FeeRates = {0, 3000, 10001}
    MaxSwaps = 2
    MaxBaskets = 1
    Anyone = Anyone
INVARIANTS
    SupplyCoversBalances
    NoOverspend
    PermitsAppliedOnce
    BalanceAtAgrees
    EnumerationAgrees
    OffersBacked
    EscrowAccounted
    PriceKept
PROPERTIES
    CapRespected
    RestrictionsBind
    RevokedStaysRevoked
    SoldForPay
CHECK_DEADLOCK FALSE
