\* A batch with an entry that names the sender.
SPECIFICATION TokenSpec
CONSTANTS
    alice = alice
    bob = bob
    k1 = k1
    k2 = k2
    None = None
    Accounts = {alice, bob}
    Admins = {bob}
    Caps <- CapChoices
    Amounts = {1}
    Batches <- BatchChoices
    Pairs = {}
    Expiries = {1}
    Targets = {}
    Treasuries = {}
    Locks = {}
    I128Max = 3
    I128Min <- MinusOne
    MaxLedger = 1
    MaxGranted = 3
    Permits = {}
    Keys = {}
    U32Max = 3
    Ledgers = {}
    MaxSnapshots = 0
INVARIANTS
    SupplyMatchesBalances
