# Soroban starter kit in TLA+

This directory specifies the smart contracts of the Soroban starter kit
(`src/contracts/*`) in TLA+, model-checks them with TLC on small instances and
proves the most important results with TLAPS for every value of the constants.
The specifications are written from the Rust source; `PROJECT.json` names, for
every definition, the lines it stands for.

## 1. The system

The kit is a set of independent contracts for the Stellar network, each a Rust
crate under `contracts/`. The Soroban host runs one invocation at a time, rolls
an invocation back as a whole when it returns an error or panics, and refuses to
re-enter a contract that is already on the call stack. There are therefore no
threads and no half-done invocations: what is hard is the *order* in which
different parties call the entry points, the ledger clock that passes between
two calls, and the several sets of books (token balances, amounts, milestone
lists, flags) that every call has to keep in step. In every module a step is one
successful invocation; failed ones are stutters.

### Inventory

| contract | state it keeps | operations that change it | what must hold |
|---|---|---|---|
| escrow | lifecycle state, Amount, deadline, terms, milestones, dispute and committee ballots, fees, pause flag, basket | five initializers, fund, deliver, approve, partial release, four refunds, cancel, mutual cancel, extend, milestones, raise/resolve/vote/time out a dispute, fee and pause administration, basket entry points | the contract holds what its books say; a settlement empties it, once; silence of one party does not keep the money |
| token | supply, cap, balances, allowances with expiry, permits, snapshots, freeze/blacklist/lockup, pause, admin handover | mint, burn, transfers and batches, approvals, spends, permits, snapshots, compliance, administration | supply covers balances, the cap holds, restrictions bind spenders too, a spender takes at most what was granted |
| multisig | signers, weights, threshold, proposals with signatures, spending limits | initialize, add/remove signer, propose, sign, execute one or a batch, clean up | a call is made once, by enough weight, in time; the wallet never locks itself out |
| timelock | state, amount, release ledger, tranches, staked principal, balances per token | three initializers, stake/call back, deposit, release, release in part, cancel, reassign | nothing early, nothing twice, nothing left behind |
| staking | stakes, reward-per-token accumulator, unbonding requests | stake, claim, unstake, withdraw, slash, set rate | rewards equal what the ledgers earned; unbonding loses nothing |
| vesting | schedules, tranches, milestones, revocations in progress | create, release, revoke, finalize | vested amounts only grow and are paid once |
| subscription | plans, subscriptions, usage, grace | subscribe, change plan, charge, batch, report usage, cancel | one charge per interval, none after cancel |
| crowdfund | pledges, goal, deadline, milestones and votes, reward tiers | pledge, withdraw, claim, refund, cancel, milestones | claim and refund exclude each other; pledges are backed |
| auction | highest bid, credits, settlement, Dutch price | start, bid, cancel, end, withdraw | losers get their bids back, one winner pays once |
| lottery | tickets, commitment, draw, rollover | buy, commit, draw, roll over, refund | prize and refunds exclude each other |
| dao | proposals, votes, delegations, vote locks, council | propose, vote, delegate, queue, execute, veto, cancel | one vote per token; only passed proposals execute, once |
| ballot | voters, commitments, ballots, ties, certified result | register, commit, reveal, tally, resolve, certify | one vote per voter; the tally counts revealed votes |
| nft | owners, approvals, owner index, supply | mint, transfer, batch, approve, burn | one owner per token, index and owners agree, approvals end with a transfer |
| marketplace | listings, bundles, offers in escrow, royalties | list, buy, delist, offer, accept, cancel, expire, sweep | an offer's money goes to exactly one place |
| swap | swaps, fills, hash locks, baskets | propose, accept, fill, cancel, refund, expire | a swap settles once and returns the rest |
| airdrop | root, claimed leaves, vesting locks | claim, batch, release, sweep | a leaf is claimed once; claims never exceed the deposit |
| oracle | feeds, publishers' submissions, bonds, breaker | submit, update, slash, pause | a stale or deviating price is not served |
| bonding-curve | reserve, supply, surge window | buy, parameters | the reserve covers the curve |
| wrapped-token | reserve, wrapped supply, rate window | wrap, unwrap, batches, pauses | wrapped supply is backed by the reserve |
| common | helpers: deadline check, fees, storage TTL, guard, Merkle, commit hashes | none of its own | part of the contracts that call it |

Interactions: all contracts call an external SEP-41 token (`transfer`,
`transfer_from`, `balance`); the timelock and the marketplace call a staking
contract; the DAO and the multisig call arbitrary contracts on execution; the
marketplace calls an NFT contract; the token's transfer hook calls out without
looking at the answer.

### State of the source

The repository carries unresolved merges: several contracts contain two
interleaved versions of the same function and do not compile as they stand. Escrow,
token, multisig, timelock and common are readable throughout; the others are
specified in the version whose functions are complete, named in the header of each
module and in section 7. Three are beyond that (section 8): of vesting, lottery and
bonding-curve no single version can be put together from what is there.

## 2. Plan

1. *Done.* Escrow (`Escrow`, `EscrowBasket`, the abstract `EscrowVault`) and its
   proofs: the flagship contract and the one in which the most entry points
   compete for one pot of money.
2. *Done.* Token (`Token`, `TokenSpending`, `TokenPermit`, `TokenSnapshot`) and
   its proofs: every other contract relies on it.
3. *Done.* Wallets (`Multisig`, `Timelock`) with first proofs for the multisig.
4. *Done.* Pots with competing exits: `Crowdfund`, `Staking`, `Auction`.
5. *Done.* Governance: `Dao` and `Ballot`.
6. *Done.* Exchange: `Nft`, `Marketplace` over it, `Swap`.
7. *Done.* Services: `Subscription`, `WrappedToken`, `Airdrop`, `Oracle`.
8. *Done.* Proofs: every safety property of a passing run, for every value of the
   constants, with the exception of the next item (section 5).
9. *Done.* `AveragesWithinReports` of the oracle, which rests on loops that filter, on an
   insertion sort and on saturating arithmetic.

Contracts that do not interact share one TLC run per family: an MC module extends the
contracts' modules, which share the clock of `HostClock`, and a variable chooses the
contract a behaviour exercises (`MCAssets` over `MCToken` and `MCExchange`, `MCPots`,
`MCServices`). The state spaces then add up instead of multiplying. The marketplace does
interact with the collection and is checked together with it.

## 3. Modules and code

**`Escrow`** has one variable per storage key of `escrow/src/storage.rs` (keys
that only an initializer writes are the record `terms`), plus `bal`, the payment
token's books. The token is external: `TransferOk` and `Move` state what the
escrow relies on. Each entry point is an action with the code's name. The
settlement helpers of `lifecycle.rs` (`ReleaseToSeller`, `RefundToBuyer`,
`SettleMilestone`, ...) are shared operators because that is how the code shares
them; `Close` is the "effects before interactions" block. Fee formulas keep their
integer division. `ZeroTransferOk` distinguishes tokens that refuse a transfer of
zero (the kit's own does) from those that do not.

**`EscrowBasket`** adds `initialize_with_tokens` and the three multi-token entry
points to all of `Escrow`, because the code leaves the single-token entry points
callable on a basket.

**`EscrowVault`** is what a depositor is promised: one deposit, payouts that only
drain it, a closing that leaves nothing and is final. `Escrow!Vault` instantiates
it with the phase read off `state` and the holding read off the *token's* books.

**`Token`** covers `lib.rs`, `token_interface.rs` and `allowance.rs` with all
features on. `I128Max`/`I128Min` stand for the limits of i128: additions the code
checks are guards. **`TokenSpending`** adds two history variables (granted, spent
per owner and spender) that constrain nothing but a bound, and two that remember what
amounts below zero did: which pairs raised their own allowance, and what circulated
before `initialize`. **`TokenPermit`** treats
signed permits as messages in circulation that anyone submits, in any order, any
number of times; the signature check is external and accepts what was signed with
the registered key. **`TokenSnapshot`** keeps both the per-ledger key and the
history the code keeps, and runs the code's half-open binary search.

**`HostClock`** is the ledger clock that all modules but the escrow's and the token's
share. **`Multisig`** models the proposal
phases of `multisig/src/lib.rs`; `signatures` records the weight each signer was
counted with, `calls` counts the external calls made. Weights saturate at
`U32Max`. **`Timelock`** keeps the two sets of books the contract has: `Amount`
with tranche flags on one side, `LockedBalance` with a ledger per token on the
other. The staking contract it delegates to is external: it returns the principal
with any yield out of `Yields`.

**`Crowdfund`** has the campaign's keys, the pot and the backers' purses. Pledges
through the token whitelist are booked under keys of their own and counted one to
one towards the same total; the model tells the campaign's own token, which may be
whitelisted, from all others. **`Staking`** keeps the accumulator in fixed point with
both integer divisions and the clamping to the emission period. Three history
variables record what was emitted, what was paid and what `unstake` overwrote. The
token, external, refuses negative amounts; where the contract itself does not look
at the sign (`unstake`), the model does not either.

**`Auction`** has the ascending auction with an extending deadline, credits for outbid
bidders, buy-it-now, reserve, cancellation with a fee to the leading bidder, and the
Dutch sale. The lot may be a token in the contract's hands, and the seller may be
unable to receive the proceeds, which then stay claimable as the code has it.

**`Dao`** covers proposals, votes that lock tokens, delegation chains of at most 20
hops, choices, bonds, the queue, the council's veto and emergency execution, and the
adaptive quorum average with its integer divisions. The token is external and moves
between holders at any time. **`Ballot`** covers the five ways of voting, tallies,
tie-breaking and certification. A commitment is a hash of which the model knows what it
opens to by `reveal_vote` and by `reveal_vote_blinded`; the two hash different layouts of
their arguments but share the key, and one hash may open both ways.

**`Nft`** keeps balances, owners, approvals and the enumeration as the code does: an
array per owner, an inverse index, and removal by moving the last entry into the gap.
**`Marketplace`** extends it, so that holders transfer, approve and burn tokens while
they are listed; a purchase is the collection's `transfer_from` (`Gives` is its check of
owner and approval) together with the payment. **`Swap`** has one record per swap with
the options of `SwapOptions`, the contract's balance per token and the parties'
balances; baskets have records of their own. A token may keep back part of every
transfer (`keeps`); `Reaches` is what arrives, which `transfer_in_measured` measures and
its callers drop, as the model does.

**`Subscription`** is the contract as `charge_one` bills it: a record per subscriber
and plan, allowances at the external token, pulled charges with a grace period.
**`WrappedToken`** has reserve, supply, fees, quota, rate window, pauses and an oracle
that may answer anything; the underlying token may keep a tax on every transfer.
**`Airdrop`** represents a Merkle tree by the set of its leaves: what a proof verifies
for. **`Oracle`** keeps the bounded histories with their merging of observations of one
ledger, bonds per token with the token of the moment, which `configure_bonding` may
replace, and computes the three averages as the code does, loop by loop (`Kept`, `Tally`,
`Ema`, `Sorted`), with i128 sums that saturate at `PriceMax`.

Definitions marked *Mutant* in the modules are deliberately wrong variants of the
definition that follows them. They are used only to show that a property notices
the corresponding bug.

## 4. Runs

| run | states | what it shows |
|---|---|---|
| `escrow` | 238 k | all kinds of escrow through all entry points |
| `assets` | 1.5 M | owner, spender and admin of the token, permits and snapshots; collection, marketplace over a collection in use, swap |
| `pots` | 1.6 M | multisig under changing signers; timelock used carefully; crowdfunding, staking, auction; DAO from proposal to execution; ballot up to certification |
| `services` | 1.1 M | subscription, wrapped token, airdrop, oracle |

and eight runs in which the code does something other than its own documents or
tests say (section 6).

**Escrow.** `VaultBacked`: the contract holds exactly `Amount` while the escrow is
live. `MilestonesInStep`: the milestone list and `Amount` agree. `CommitteeDecides`:
a committee settles a dispute only on enough agreeing ballots. `BasketMovesWhole`:
never some tokens of a basket without the others. `ImplementsVault`: refinement of
`EscrowVault`. `SilenceNotForever`: liveness, below.

**Token** (in `assets`). Amounts have either sign, since `burn_from` and the allowance
paths do not look at it. `SupplyCoversBalances`: the supply covers what circulates, but
for what a negative `burn_from` made before `initialize`. `CapRespected`: a negative
`burn_from` is the only call that takes the supply past the cap. `RestrictionsBind`: a
freeze, a lockup or a pause imposed after an allowance was given still binds the spender.
`NoOverspend` relates what a spender took to all that was ever granted, for pairs whose
spender never called `transfer_from` of the owner to itself with a negative amount.
`PermitsAppliedOnce`, `RevokedStaysRevoked`: permits may be submitted by anybody in any
order. `BalanceAtAgrees`: the binary search finds what the per-ledger keys hold.

**Wallets** (in `pots`). `ThresholdReachable`: no sequence of signer changes locks the
wallet. `CalledOnce`, `QuorumCalls`: a call happens once, on distinct signatures
whose weight at signing reaches the threshold of the moment, before expiry.
`NothingEarly`, `ClosedInFull`, `ClaimsBacked`: a timelock pays nothing before its
ledger, leaves nothing behind, and can pay every claim it admits.

**Pots.** `PledgesCovered`: until the creator takes something, the pot is exactly the
recorded pledges, whatever withdrawals, refunds and batches came before.
`ClaimOrRefund`: a claim on a campaign that was not cancelled takes all of it, although
refunds are open after the claim window too; milestones may have paid the creator of a
campaign that is refunded in the end (section 6). `NeverOverDistributes`: rewards paid
and pending never exceed rate times ledgers. `StakeAccountedFor`: every stake token is
staked, waiting, or was in a request that a second `unstake` replaced; that it replaces
one at all is `staking_second_unstake`. `BidsBacked`: the auction holds the live bid,
every refund and the seller's unpaid proceeds and nothing else; `LotFollowsMoney`: the
lot ends with the winner who paid, or with the seller when nobody did. Both hold until a
bid follows a buy-it-now sale (section 6).

**Governance** (in `pots`). `LocksBacked`: overwritten locks, bonds, slashing and emergency
execution never let one proposal's money pay for another's. `TokensVoteOnce`: handing
tokens on while voting is open does not vote with them twice. `ExecutedAsVoted`: the
vote stands still from the deadline on, and what is executed without the council was
carried and waited out `ExecutionDelay`, the one delay the code reads; the delays of the
tiers are `dao_tier_delays`. `RoutesCountOnce`: re-registration, relayers and changes of
phase do not count a ballot twice within one way of voting: `vote` and `vote_ranked`
count a voter once, the reveals once for every commit phase. The ways add up (section 6).
`CertifiedLeads`: reveals that arrive after a tie was resolved cannot get a choice
certified that no longer leads.

**Exchange** (in `assets`). `EnumerationAgrees`: the enumeration, its inverse, balances and
supply describe the owners, while no batch names a token twice. `OffersBacked`: the
marketplace holds every open offer in full, and beyond them exactly what replaced batch
offers left behind; that they leave anything is `marketplace_batch_offers`. `SoldForPay`:
a token that the marketplace takes from its owner makes that owner richer, however
listings, offers and the token moved before, unless royalties take the whole price.
`EscrowAccounted`: the swap holds the unfilled rest of its escrowed swaps, less what
fills of unescrowed swaps drew and what a taxing token kept back of deposits recorded in
full. `PriceKept`: partial fills pay the agreed price, short of it by less than one unit
a fill.

**Services.** `PrepaidAccounted`: prepaid money is in the contract as the records say,
and beyond it exactly what replaced records said.
`DelinquencyIsCurrent`: nobody is suspended for a failure that was paid since.
`WrappedBacked`: reserve, supply and balances agree, with a taxing token too as long as
it is not wrapped in a batch. `AllocationsHonoured`: an allocation is paid once and in
full, at once and through its schedule. `AveragesWithinReports`: the moving average lies
between the prices it is taken from even where its steps saturate, the time-weighted
average does unless the weighted sum would leave i128, and the median lies
between the fresh prices unless twice a price would; while the list names nobody twice, a
quorum of different publishers was heard and the median splits them in halves.

### Bounds, and why they are enough

- *Amounts* are a handful of integers chosen so that every division rounds (5
  units at 2000 and at 5000 basis points) and so that two partial releases
  followed by a settlement fit. Zero, over-limit fees, empty or duplicated
  committees, plans and baskets with a zero are offered as inputs as well, so the
  rejecting guards are exercised.
- *Clock.* `MaxLedger` is past every deadline, grace period and timeout that can
  be configured; in a dispute the horizon moves so that a timeout can always
  elapse.
- *Parties.* One buyer, seller and arbiter, or a committee of three with two
  required (the smallest that can split); one owner/spender pair, since
  allowances of different pairs share nothing but the owner's balance.
- *Token.* Amounts from -1 to 2; `I128Max = 2` is small enough for sums to hit it.
  `MaxGranted` bounds the history variable. A behaviour exercises compliance, spending,
  permits or snapshots, and keeps the keys of the others small.
- *Multisig.* Three addresses, two proposals, weights that saturate
  (`U32Max = 3`), batches that name an id twice.
- *Timelock.* Up to three tranches, two tokens, yields 0 and 1.
- *Crowdfund.* Two backers with two units, a goal of two, a tier with one place and
  one without limit, a capped campaign, one that must be refused. The clock passes the
  extended deadline, and the claim window where the deadline is not extended.
- *Staking.* Two stakers, amounts -1 and 1, periods with and without unbonding, a
  period that ends before the clock does, a scale of 2 at which both divisions round.
  `MaxStaked` and `MaxReplaced` bound what negative amounts could otherwise pump up;
  `MaxOther` bounds pledges in other tokens.
- *Auction.* Two bidders, terms with and without reserve, extension, buy-it-now price,
  grace period and lot, one Dutch sale whose price falls to its floor.
- *DAO and ballot.* Two holders, two proposals, a quorum that one holder alone can miss;
  two voters and two choices (a tie needs no more), two commit phases (`MaxPhases`) and
  a turnout of seven (`MaxTurnout`), at which one voter has two commitments counted both
  ways. Their clock ends at ledger 2, past the deadline and the delay. A configuration
  that must be refused is among the inputs.
- *Exchange.* Two token ids and two collectors make every case of the swap-with-last
  removal; a third collector owns and lists nothing (`TwoOwners`) and is left to try a
  seller's calls on what belongs to others; two listings and two payment tokens. `MaxCalls` bounds the marketplace's
  history to seven successful calls, enough to list, offer, raise, sell elsewhere and
  sweep; `TradeClock` ends at ledger 2, when everything that expires has. Two swaps of
  up to four units; two fills of two out of 4-for-3 round the price down twice. Tokens
  keep back nothing or one unit of a transfer.
- *Services.* One subscriber with two plans, because plans share the subscriber's
  allowance and nothing else; fee bases of 2 and 4 instead of 10000, at which one unit
  already rounds; a histories' length of two (`MaxHistory`), so that entries are dropped,
  and three reports; prices of both signs; `PriceMax = 8`, which sums, differences and
  weighted sums of these prices exceed; smoothing factors that must be refused (0 and 3);
  publisher lists with repetitions; bonds in a second token only where no price is
  reported (`OneToken`), since prices and bonds share nothing.
- *Symmetry.* `ann` and `ben` are interchangeable in every constant of `pots` and
  `services`; the multisig has names of its own and the subscriber is `carol`.
- Deadlock is not checked where the system may really stop: a settled escrow or
  lock at the clock's bound has nothing left to do.

### Discipline assumed in passing runs

Some entry points contradict each other when mixed. The passing runs state the
discipline that careful users keep, and section 6 shows what happens otherwise.

- `AmountLeftAlone`: `update_amount` and `release_partial` are not used on
  milestone escrows, nor `update_amount` on baskets.
- `Punctual`: snapshots are filed under the current ledger, once.
- `CarefulTimelockNext`: `deposit` and `release_partial` are used on plain locks
  only, a lock is closed in one go only if they were not used, and staked tokens
  are called back before `cancel`.

The proofs of section 5 assume the same discipline where, and only where, they name
`CarefulSpec`, `CarefulTimelockSpec` or `PunctualSpec`.

### Fairness

Only the escrow has liveness properties. `DiligentBuyer` assumes that ledgers keep
closing and that a buyer who wants its money back keeps calling `request_refund`
and `claim_dispute_timeout`, both of which it can call alone. Nothing is assumed
of the seller, the arbiters or the admin, and the conclusions are conditional on
the admin not keeping the contract paused.

## 5. Proofs

Each listed theorem is checked by TLAPS from the assumptions named in the modules:
candidate inputs have the type the contract's interface gives them, sets of addresses
are finite, markers such as `None`, `NoPlan` or `Unset` are not values of the data they
stand in for, contract addresses are nobody's. TLC evaluates the assumptions in every
run. Amounts are integers of either sign wherever a contract takes an i128 from its
caller, lists may repeat their entries, and the clock has no bound but a finite one;
where a theorem needs more it says so in its statement.

**`FoldLemmas`.** Most invariants relate a balance to a *sum* over accounts, listings or
proposals, and batches are *folds*. The library's induction theorems take an operator,
which the provers cannot instantiate, so induction is stated here for sets
(`SubsetInduction`, `NumberInduction`). The recursive function behind
`SumFunctionOnSet` is shown to exist by building a table of the sums of all subsets
(`TableExists`, `SumIsTable`); from that follow the laws the other modules cite:
changing one entry (`SumBump`), splitting, adding, scaling and regrouping sums
(`SumSplit`, `SumPlus`, `SumScale`, `SumByKey`). `FoldTableExists` and `FoldStays` do the
same for `FoldLeft`: a fold stays in a family of sets if each of its steps does.

**`EscrowProofs`.** `VaultBacked` is not inductive: to know that a settlement can pay
what it books one must also know that fees are bounded and go to somebody else than the
contract (`FeeRouted`), that the milestone plan is one of the candidates (`PlanKnown`),
that an escrow not yet initialized is untouched (`Pristine`) and that amounts are
positive where they are agreed on (`Priced`). `IInv` is their conjunction with `TypeOK`.
From `Invariance` follow `TypeCorrect`, `VaultAlwaysBacked`, and, with one lemma per
settlement helper, `TerminalIsFinal`. `EscrowImplementsVault` and
`SettledEscrowsAreEmpty` are about all of `Spec`, for escrows without milestones: with
them the source can strand tokens (section 6). Under `CarefulSpec` the same two and
`VaultBacked` hold with milestones and baskets too (`CarefulEscrowImplementsVault`,
`CarefulEscrowsSettleEmpty`, `CarefulVaultBacked`), from `BasketInv` (a basket is one
that was offered, and `Amount` is what is left of its lead entry) and `InStep`
(`MilestonesInStep`, which already holds before the deposit). They assume `LeadOnce`,
that a basket names its lead token once, and `FreshPlans`, that a milestone is not
handed in as already released; section 6 says what the code does otherwise.
`CommitteeExecutes` and `CommitteesDecide` rest on `CommitteeInv`: no ballot is on
record before a dispute is raised, a threshold is positive, and the ballots of an open
dispute are below it.

**`TokenProofs`.** `TypeOK` is inductive for amounts of any sign: no path makes a
balance negative. The lemma `Losses` says through which actions an account can lose
tokens; the three restriction theorems follow from it and `RestrictionsAlwaysBind` puts
them together. `CapHolds`, `SupplyAlwaysCovers` and `NobodyOverspends` are for amounts
of any sign and name the calls they except. `SpendInv` strengthens `NoOverspend`: for a
pair that never raised its own allowance, what is spent plus what is still allowed never
exceeds what was granted. `SupplyInv` adds to `SupplyCoversBalances` what circulates
before the token has an admin. `PermitInv` says that the permits applied for an owner
are exactly one for each nonce below the current one; `RevokedStaysRevoked` follows
because a nonce is only used in order. `BalanceAtIsRight` is about the half-open binary
search on histories of any length: `SnapshotInv` says that a history is sorted, that no
entry is from the future, and that the search of any part that must contain a ledger
finds what the per-ledger key holds.

**`MultisigProofs`.** `CalledOnce` needs that ids not handed out yet carry no
proposal (`FreshIds`), or a new proposal could land on an executed one. `CallsNeedQuorum`
needs that the accumulated weight of a proposal is the saturated sum of the weights its
signatures were counted with (`WeightCounted`). `NeverLockedOut` and
`MultisigTypeCorrect` complete it.

**`PotsProofs`.** *Crowdfunding:* `PledgesCovered` needs that the pot never exceeds the
pledges and that `TotalPledged` never falls behind them, `ClaimOrRefund` that
`TotalPledged` is also what refunds and milestones have taken out, so that a claim after
either asks for more than there is. *Auction:* `BidsInOrder` records what `start`
checked and what bids preserve, so that a settlement knows who leads and at which
price. *Timelock* (under `CarefulTimelockSpec`): `TimelockInv` says where the principal
of each kind of lock is (`PrincipalInPlace`), that kinds do not mix (`KindsApart`) and
that whatever was paid had matured. *Staking:* `NeverOverDistributes` is a statement
about two integer divisions; `WithinEmission` states it scaled, before they round, and
sums what each staker has earned since it was last paid.

**`GovernanceProofs`.** *DAO:* a lock key may be overwritten while its tokens stay in the
DAO, so `LocksBacked` and `TokensVoteOnce` are carried by one invariant: the DAO holds, for
each proposal that can still be voted on, the larger of the votes cast and the locks on
record (`DaoBacked`), and tokens never appear (`NothingMinted`). `ExecutedAsVoted` needs
that a queued proposal was carried by votes that are closed (`QueuedCarried`). *Ballot:*
`BallotInv` says of each voter that it was counted or still holds what it may be counted
for, route by route and commit phase by commit phase, a commitment that opens both ways
included.

**`ExchangeProofs`.** *Swap:* every part of an offer is filled or remains, and nothing
was paid for a swap yet to be proposed (`SwapInv`); what a token kept back is carried
along. *Collection:* the enumeration is a bijection between an owner's slots and tokens;
each lemma follows it through one add or one swap-with-last removal, and folds carry it
through batches. *Marketplace:* `MarketInv` adds to `OffersBacked` that prices, royalty
rates and splits are in their ranges, so that a royalty is part of its price and a Dutch
price stays above its floor, and that no listing has offers before it exists.
`SoldForPay` also needs that an offer on record is for something (`RealOffers`), and
that what is left of a price after royalties below the whole is positive.

**`ServicesProofs`.** *Wrapped token:* `WrappedBacked` is inductive with its types.
*Airdrop:* `TotalLocked` is what the schedules still owe and is in the contract
(`LockedIsOwed`); nothing was paid for a pair that has not claimed. *Subscription:* a
delinquency is of the interval that is due, and none starts in a trial (`Current`).
*Oracle:* `OracleInv` says that both trails are in the order of the ledgers, not ahead
of the clock and no longer than `MaxHistory`, that the history has at most one
observation a ledger (what the merge in `push_history` is for), and that the tokens
held, over all tokens bonds were ever taken in, are the sum of the bonds.
`AveragesWithinReports` follows from it and from what the readers' loops compute, each
treated as a fold (`EmaReaches`, `KeptReaches`, `TallyReaches`, `SortedReaches`).
Saturating a number brings it closer to zero, so a step of the moving average never
passes the price it moves to (`EmaStepWithin`). The loop of `twap` keeps its sum between
the least and the greatest price times the time weighed so far (`Balanced`), which
telescopes to the time since the oldest observation; saturation does no harm while these
bounds are representable. The insertion sort puts the prices in order by a one-to-one
renaming of their places (`Ranks`), from which the median's halves are counted.

Some results are stated only as theorems, without a run of their own: the type
invariants, `TerminalFrozen`, `NothingStranded`, `ThresholdExecutes`, the restriction
theorems one by one, `SpendsUnexpired`, the oracle's trails (`TrailsStayKempt`) and its
bonds (`BondsStayHeld`: a penalty never lacks the tokens while all bonds are in the token
of the moment).

Only model-checked: liveness (`SilenceNotForever`) and everything with `ENABLED`, which
the prover does not cover.

## 6. Where the code and its documents disagree

Each of these is a run that TLC must find violated.

- `escrow_split_committee`: ballots in both directions count towards one threshold,
  so a 3-of-4 committee with one ballot each way accepts no third one; ADR-0008
  describes votes per direction.
- `token_batch_self`: a batch entry that names the sender is deducted and never
  credited.
- `timelock_partial_tranches`: `release_partial` marks no tranche, so a matured one
  can be claimed repeatedly out of those that have not matured.
- `auction_refunds`: `place_bid` looks at the deadline and not at `Settled`. After a
  buy-it-now sale has paid the seller, a higher bid queues a refund of the sale price,
  which the contract no longer holds.
- `swap_cancel_escrow`: `fill_swap_partial` delivers from the contract whether or not
  the swap was escrowed, so it can spend another swap's escrow.
- `staking_second_unstake`: a second `unstake` overwrites the request that waits and its
  tokens stay in the contract; the regression test of #945, `contract-api.md` and
  `error-reference.md` say it is refused with `UnbondRequestPending`.
- `dao_tier_delays`: `queue_proposal` reads `ExecutionDelay` for every proposal;
  `FinancialDelay` and `CriticalDelay`, by which the module documentation has
  high-impact proposals wait longer, are written and never read.
- `marketplace_batch_offers`: `make_offers_batch` stores an offer over the buyer's
  earlier one without refunding it; the fuzz target and the property tests assert that
  the balance is the sum of the offers and that nothing is trapped.

Seen while modelling, without a run:

- *Escrow.* `update_amount` after `initialize_with_milestones` changes `Amount` and not
  the milestones, and the last milestone completes the escrow with tokens inside;
  `release_partial` on a milestone escrow can leave the milestones asking for more than
  is held; `request_refund` admits `Delivered` and the helper it calls does not, so the
  refund after delivery of ADR-0004 never goes through; settling a basket through a
  single-token entry point strands the side tokens; a basket that names its lead token
  twice deposits both entries and records one; `initialize_with_milestones` stores the
  `released` flags it is given and counts the whole sum; the documentation gives the
  minimum deadline as 100 ledgers, `MIN_DEADLINE_BUFFER` as 10.
- *Token.* A negative `burn_from` raises balance and supply past the cap (the test at
  `test.rs:386` expects it to be refused), and does so even before `initialize`, which
  then forgets it; a negative `transfer_from` of the owner to itself raises the
  spender's allowance, because `transfer_impl` returns before it looks at the amount
  (`lib.rs:887`; `test.rs:310` expects a refusal); the snapshot history is not sorted
  when callers choose the ledger (`lib.rs:420` says it is); `decrease_allowance` can
  take an allowance below zero and accepts a negative delta; cancelling the current
  permit nonce blocks all later permits of that owner (documented in `permit.rs`);
  `set_admin` leaves a pending admin proposal acceptable.
- *Multisig.* Signatures of removed signers keep counting; `set_token_spending_limit`
  asks for no authorization and execution never consults the limits.
- *Timelock.* `cancel` does not call staked tokens back (it fails, or pays out of yield
  and leaves the principal behind) and leaves yield in the contract; `release` pays in
  whatever token the caller names; a later deposit of the same token becomes claimable
  at the earliest ledger of all deposits; `release` and `cancel` ignore what `deposit`
  and `release_partial` did; `reschedule_tranche` reads keys nothing writes.
- *Crowdfund.* `claim` does not look at `Cancelled`, so a cancelled campaign that met
  its goal can still be claimed by whoever is first; `release_milestone` counts no votes
  (a TODO in the source) and looks at neither goal nor deadline (`lib.rs:678-723`), so a
  creator may be paid by milestones before backers are refunded what is left, where
  `lib.rs:36` says all-or-nothing; pledges in other tokens count towards the goal, have
  no way out, and make `claim`, which asks for the whole total in the campaign's token,
  fail.
- *Staking.* The tests expect `InvalidAmount` for non-positive amounts, no entry point
  returns it.
- *Auction.* `cancel` without bids (`lib.rs:722-729`) does not give the lot back,
  although `lib.rs:58-60` says that it does.
- *DAO.* What `queue_proposal` writes before returning an error (slashed bond, quorum
  average) is rolled back with it; `cancel_proposal` asks for a ledger before the
  proposal's own and never succeeds; `vote_with_delegators` counts a delegator again who
  voted.
- *Ballot.* A voter is counted once per entry point (`vote`, `vote_ranked`,
  `reveal_vote`, `reveal_vote_blinded`) and once more for every commit phase, not once,
  as `lib.rs:7` and `error-reference.md:655` say; a commitment whose hash opens both
  ways is counted both ways.
- *Nft.* A `transfer_batch` that names an id twice counts it twice.
- *Marketplace.* `HighestOffer` is never lowered when that offer is cancelled.
- *Swap.* `propose_swap` measures what arrives, drops the measurement and records the
  amount in full (`lib.rs:391-393`), against its comment (`lib.rs:378-379`) and the test
  of #1299 (`test.rs:1231-1274`), so the escrow of a token that taxes transfers is not
  backed; `execute_swap` gives party A what arrived less a fee recomputed from it, but
  forwards the fee on the nominal price (`lib.rs:544-572`), so that with a taxing token
  it forwards more than arrived, which its comment (`lib.rs:529-531`) excludes.
- *Subscription.* `subscribe` takes no payment, so subscribing to a dear plan and
  changing to a cheap one credits money that was never paid (`lib.rs:161`); subscribing
  to a plan that is suspended replaces the record and strands what it says was prepaid
  (`lib.rs:476-484`), where ADR-0012:87 has `AlreadySubscribed`.
- *Wrapped token.* The `saturating_sub` of the quota and the rate window does not clamp
  at zero as its comment says; a batch of unwraps passes the rate limit by; the window
  is tumbling where the documentation says sliding; batches do not measure what arrives.
- *Airdrop.* A merge has separated the body of `sweep_unclaimed` (`lib.rs:636-656`) from
  its head. It would drain what schedules still owe, but cannot succeed in the version
  modelled, because nothing sets `DataKey::Token`.
- *Oracle.* `FeedPaused` is set and then an error returned, which rolls it back, so a
  feed never pauses (`lib.rs:671`); observations of one ledger are merged pairwise, so
  three do not "contribute equally"; `set_publishers` accepts an address twice, which
  alone can make up the quorum, although `lib.rs:516-520` says the quorum keeps a single
  publisher from setting the median; `configure_bonding` (`lib.rs:871`) may replace the
  token under existing bonds, which are then slashed in another token than they were
  posted in. `submit_price` takes any i128: where the sum of the two middle prices or
  the weighted sum of a window saturates, the median or the time-weighted average may be
  closer to zero than every price it is taken from, which is why `AveragesWithinReports`
  is conditional there.

## 7. Readings of ambiguous source

- Escrow: `lifecycle::transfer_funds`, `release_to_seller_amount` and
  `refund_to_buyer_amount` are called and not defined; they are read as the
  corresponding settlement of that amount.
- Token: `increase_allowance` and `decrease_allowance` of the facade are those of
  `allowance.rs`; `require_not_locked` is read as refusing a locked account;
  `transfer_batch` is the one in `lib.rs`.
- Timelock: `TokenReleaseLedger`, `TokenCount` and `TokenAt` are used and not
  declared in `DataKey`; they are read as ordinary keys. The constant
  `TRANCHE_COUNT` is used as a key.
- Crowdfund: the last storage write of `refund_batch` names a variable that does not
  exist there (a line of `set_milestones`); it is left out.
- Staking: `stake` and `claim_rewards` are read without the pieces of another `slash`
  that lie between their lines; of the two `slash` functions the complete one is
  modelled. `ready_at` and `available_at` are the same field. Stake and reward token
  are different tokens.

- Auction: `cancel` is the version with the grace period and the compensation.
- DAO: `apply_voting_type` is called and not defined; quadratic voting takes the integer
  square root its callers' comments name.
- Ballot: of several copies of a function the one with weights is modelled, of the two
  `deregister_voter` the complete one.
- Nft: the version its tests drive (ids chosen by the minter, an enumeration per owner).
- Marketplace: `buy` and `accept_offer` hold pieces of two versions; modelled are the
  bound on the price, payment in the listing's token and royalties by `settle_sale`.
- Swap: the version with options; the fee is paid once; a refund of a hash-locked swap
  cancels it and an expiry expires it.
- Subscription: the version billed by `charge_one`. Its prepaid money is held and
  refunded but never consumed, because only fragments of the metered charge remain.
- Wrapped token: `wrap` and `unwrap` are defined twice, the short definitions being a batch
  of one; `require_not_paused` of the long ones is read as the wrap or unwrap pause flag.
- Airdrop: the version with tokens and vesting, with the `set_root` of the version with
  rounds.
- Oracle: feeds of several assets are independent, one is modelled.

## 8. Not modelled

*Vesting:* merges interleaved two versions, and `claim`, on which every property would
rest, has lost its body. *Lottery:* two storage layouts (one lottery; lotteries by id)
are mixed within the entry points, so tickets bought by one are not seen by the other,
and any model would be of a contract that does not exist. *Bonding curve:* `lib.rs` holds
fragments between prose; no entry point that buys or sells is complete.

Code replacement (`propose_upgrade`, `execute_upgrade`): the new code is unknown.
Storage TTLs and archival: entries are extended on use and their expiry is a host
matter. Events, metadata, read-only queries. Authorization is modelled by who may
take a step (an action's comment names the caller), not as signatures. Off-chain
parts (scripts, bindings, docker, docs, benches).

Of modelled contracts: votes on crowdfunding milestones, which nothing reads;
`reassign_beneficiary` and `reschedule_tranche` of the timelock; the multisig's spending
limits and its off-chain signature check; sealed bids of the auction; what a DAO's
dispatched payload does; the ballots by id; collection-wide operators of the nft; the
marketplace's staking tiers and several collections; the swap's referrers; metering in
the subscription; rounds of the airdrop; the oracle's feed metadata.
