---- MODULE Swap ----
(***************************************************************************)
(* The token swap (contracts/swap): a party offers an amount of one token  *)
(* for an amount of another, escrowed or drawn from its allowance, for the *)
(* whole or in parts, under a hash lock or not; and swaps of whole baskets.*)
(*                                                                         *)
(* Merges left several functions in pieces.  Modelled is the version with  *)
(* options: the fee is paid once, a refund of a hash-locked swap cancels   *)
(* it and an expiry expires it.  A token may keep a part of every transfer.*)
(* A party's allowance covers its unescrowed offers.  misdrawn, overstated,*)
(* paidFor and fills are history variables.                                *)
(***************************************************************************)
EXTENDS HostClock, Sequences, FiniteSets, Functions

CONSTANTS
    Parties,      \* addresses
    SwapTokens,   \* token contracts
    PartyFunds,   \* what a party holds of each token at first
    TokenKeeps,   \* candidates for what each token keeps of a transfer
    SwapTerms,    \* candidate [tokenA, amountA, tokenB, amountB, expires, counterparty,
                  \* maxDelay, partial, escrowed, hashLock]
    BasketTerms,  \* candidate [offers, demands, expires]: legs are functions of the tokens
    FillAmounts,  \* candidate fills
    CancelLists,  \* candidate lists of swap ids
    FeeRates,     \* candidate fee_bps
    MaxSwaps,     \* bound: swaps proposed
    MaxBaskets,   \* bound: baskets proposed
    Anyone        \* an absent counterparty or execution delay

BpsWhole == 10000

ASSUME SwapAssumption ==
    /\ {PartyFunds, MaxSwaps, MaxBaskets} \subseteq Nat /\ FillAmounts \subseteq Int /\ FeeRates \subseteq Nat
    /\ CancelLists \subseteq Seq(Nat) /\ Anyone \notin Parties \cup Nat
    /\ TokenKeeps \subseteq [SwapTokens -> Nat]
    /\ \A t \in SwapTerms :
         /\ t.tokenA \in SwapTokens /\ t.tokenB \in SwapTokens /\ t.amountA \in Int
         /\ t.amountB \in Int /\ t.expires \in Nat /\ t.counterparty \in Parties \cup {Anyone}
         /\ t.maxDelay \in Nat \cup {Anyone} /\ {t.partial, t.escrowed, t.hashLock} \subseteq BOOLEAN
    /\ \A b \in BasketTerms : b \in [offers : [SwapTokens -> Nat], demands : [SwapTokens -> Nat],
                                     expires : Nat]

VARIABLES
    keeps,      \* what each token keeps of a transfer
    swapReady,  \* Initialized key
    feeBps,     \* FeeBps key
    swaps,      \* Swap keys, in order of their id
    baskets,    \* BasketSwap keys, in order of their id
    swapHeld,   \* what the contract holds of each token
    partyBal,   \* what the parties hold
    feesPaid,   \* what the treasury and referrers were sent
    misdrawn,   \* what fill_swap_partial took for unescrowed swaps
    overstated, \* what tokens kept of sums that the contract reckons in full
    paidFor,    \* token_b takers paid, fee included, by swap
    fills       \* number of fills, by swap

swapOnlyVars == <<keeps, swapReady, feeBps, swaps, baskets, swapHeld, partyBal, feesPaid, misdrawn, overstated, paidFor, fills>>
swapVars == <<now, swapOnlyVars>>

SwapIds == 1..MaxSwaps
NoTokens == [t \in SwapTokens |-> 0]

SwapInit ==
    /\ now = 0
    /\ swapReady = FALSE /\ feeBps \in FeeRates
    /\ swaps = <<>> /\ baskets = <<>>
    /\ keeps \in TokenKeeps
    /\ swapHeld = NoTokens /\ feesPaid = NoTokens /\ misdrawn = NoTokens /\ overstated = NoTokens
    /\ partyBal = [a \in Parties |-> [t \in SwapTokens |-> PartyFunds]]
    /\ paidFor = [s \in SwapIds |-> 0] /\ fills = [s \in SwapIds |-> 0]

\* Admin.
InitializeSwap ==
    /\ ~swapReady
    /\ feeBps <= BpsWhole
    /\ swapReady' = TRUE
    /\ UNCHANGED <<now, keeps, feeBps, swaps, baskets, swapHeld, partyBal, feesPaid, misdrawn, overstated, paidFor, fills>>

\* Admin.
SetFeeBps(bps) ==
    /\ swapReady
    /\ bps <= BpsWhole
    /\ feeBps' = bps
    /\ UNCHANGED <<now, keeps, swapReady, swaps, baskets, swapHeld, partyBal, feesPaid, misdrawn, overstated, paidFor, fills>>

\* What arrives of a transfer of x of token t.
Reaches(t, x) == IF x > keeps[t] THEN x - keeps[t] ELSE 0

\* A party; what arrives of the deposit is measured, and the offer recorded in full.
ProposeSwap(a, t) ==
    LET deposit == IF t.escrowed THEN t.amountA ELSE 0 IN
    /\ swapReady
    /\ t.amountA > 0 /\ t.amountB > 0
    /\ t.expires > now
    /\ partyBal[a][t.tokenA] >= deposit
    /\ swapHeld' = [swapHeld EXCEPT ![t.tokenA] = @ + Reaches(t.tokenA, deposit)]
    /\ overstated' = [overstated EXCEPT ![t.tokenA] = @ + deposit - Reaches(t.tokenA, deposit)]
    /\ partyBal' = [partyBal EXCEPT ![a][t.tokenA] = @ - deposit]
    /\ swaps' = Append(swaps, [terms |-> t, party |-> a, state |-> "Pending", filled |-> 0,
                               remaining |-> t.amountA, created |-> now])
    /\ UNCHANGED <<now, keeps, swapReady, feeBps, baskets, feesPaid, misdrawn, paidFor, fills>>

PendingSwap(s) == s \in DOMAIN swaps /\ swaps[s].state = "Pending"

\* calculate_and_validate_fee: at least one unit of a payment that has a fee.
SwapFee(x) ==
    LET raw == (x * feeBps) \div BpsWhole IN
    IF feeBps # 0 /\ raw = 0 /\ x > 0 THEN 1 ELSE raw

\* Mutant: the price is taken from what is left of the offer.
PriceOfRest(s, x) == (x * swaps[s].terms.amountB) \div swaps[s].remaining

\* What x of token_a costs in token_b.
PriceOf(s, x) == (x * swaps[s].terms.amountB) \div swaps[s].terms.amountA

\* The swap after x more of it is filled.
Fill(s, x) ==
    /\ swaps' = [swaps EXCEPT ![s].filled = @ + x, ![s].remaining = @ - x,
                              ![s].state = IF swaps[s].remaining = x THEN "Executed" ELSE @]
    /\ paidFor' = [paidFor EXCEPT ![s] = @ + PriceOf(s, x)]
    /\ fills' = [fills EXCEPT ![s] = @ + 1]
    /\ UNCHANGED <<now, keeps, swapReady, feeBps, baskets>>

\* A taker, who knows the secret or not.  The proposer's share is reckoned from what
\* arrived of the price; the fee, which treasury and referrer share, from the price.
ExecuteSwap(s, b, x, secret) ==
    LET w == swaps[s]
        t == w.terms
        price == PriceOf(s, x)
        fee == SwapFee(price)
        arrived == Reaches(t.tokenB, price)
        share == arrived - SwapFee(arrived)
        paid == [partyBal EXCEPT ![b][t.tokenB] = @ - price]
        got == [paid EXCEPT ![w.party][t.tokenB] = @ + Reaches(t.tokenB, share)]
        drawn == IF t.escrowed THEN got ELSE [got EXCEPT ![w.party][t.tokenA] = @ - x]
        passed == [swapHeld EXCEPT ![t.tokenB] = @ + arrived - share - fee]
    IN
    /\ swapReady
    /\ x > 0
    /\ PendingSwap(s)
    /\ now <= t.expires
    /\ t.counterparty # Anyone => b = t.counterparty
    /\ t.maxDelay # Anyone => now <= w.created + t.maxDelay
    /\ t.hashLock => secret
    /\ x <= w.remaining
    /\ ~t.partial => x = w.remaining
    /\ price > 0 /\ fee <= price /\ share >= 0
    /\ paid[b][t.tokenB] >= 0 /\ passed[t.tokenB] >= 0 /\ drawn[w.party][t.tokenA] >= 0
    /\ t.escrowed => passed[t.tokenA] >= x
    /\ partyBal' = [drawn EXCEPT ![b][t.tokenA] = @ + Reaches(t.tokenA, x)]
    /\ swapHeld' = IF t.escrowed THEN [passed EXCEPT ![t.tokenA] = @ - x] ELSE passed
    /\ overstated' = [overstated EXCEPT ![t.tokenB] = @ + fee - SwapFee(arrived)]
    /\ feesPaid' = [feesPaid EXCEPT ![t.tokenB] = @ + fee]
    /\ Fill(s, x)
    /\ UNCHANGED misdrawn

\* The proposer itself, which pays itself through the contract, and is sent the whole
\* price; the contract delivers, escrowed or not.
FillSwapPartial(s, x) ==
    LET w == swaps[s]
        t == w.terms
        price == PriceOf(s, x)
        lost == price - Reaches(t.tokenB, price)
        passed == [swapHeld EXCEPT ![t.tokenB] = @ - lost]
        back == [partyBal EXCEPT ![w.party][t.tokenB] = @ - lost]
    IN
    /\ x > 0
    /\ PendingSwap(s)
    /\ t.partial
    /\ now <= t.expires
    /\ x <= w.remaining
    /\ price > 0
    /\ partyBal[w.party][t.tokenB] >= price
    /\ passed[t.tokenB] >= 0 /\ passed[t.tokenA] >= x
    /\ swapHeld' = [passed EXCEPT ![t.tokenA] = @ - x]
    /\ partyBal' = [back EXCEPT ![w.party][t.tokenA] = @ + Reaches(t.tokenA, x)]
    /\ misdrawn' = IF t.escrowed THEN misdrawn ELSE [misdrawn EXCEPT ![t.tokenA] = @ + x]
    /\ overstated' = [overstated EXCEPT ![t.tokenB] = @ + lost]
    /\ Fill(s, x)
    /\ UNCHANGED feesPaid

\* Mutant: the whole offer is returned, whatever was filled of it.
WholeOffer(s) == swaps[s].terms.amountA

Unfilled(s) == swaps[s].terms.amountA - swaps[s].filled

\* What is left of the escrow of swap s in token t.
Rest(s, t) == IF swaps[s].terms.escrowed /\ swaps[s].terms.tokenA = t THEN Unfilled(s) ELSE 0

\* The pending swaps in S end, and what is left of their escrow goes back.
ReturnRest(S, state) ==
    /\ \A s \in S : PendingSwap(s)
    /\ swapHeld' = [t \in SwapTokens |-> swapHeld[t] - SumFunctionOnSet([s \in S |-> Rest(s, t)], S)]
    /\ \A t \in SwapTokens : swapHeld'[t] >= 0
    /\ partyBal' = [a \in Parties |-> [t \in SwapTokens |->
                       partyBal[a][t] + SumFunctionOnSet([s \in S |-> Reaches(t, Rest(s, t))],
                                                         {s \in S : swaps[s].party = a})]]
    /\ swaps' = [s \in DOMAIN swaps |-> IF s \in S THEN [swaps[s] EXCEPT !.state = state] ELSE swaps[s]]
    /\ UNCHANGED <<now, keeps, swapReady, feeBps, baskets, feesPaid, misdrawn, overstated, paidFor, fills>>

\* The proposer; after the expiry, anyone.
CancelSwap(s) == swapReady /\ ReturnRest({s}, "Cancelled")

\* The proposer.
RefundHashlocked(s) ==
    /\ PendingSwap(s)
    /\ swaps[s].terms.hashLock
    /\ now > swaps[s].terms.expires
    /\ ReturnRest({s}, "Cancelled")

\* Anyone.
ExpireSwap(s) ==
    /\ PendingSwap(s)
    /\ now > swaps[s].terms.expires
    /\ ReturnRest({s}, "Expired")

\* A proposer; an id that comes twice is no longer pending the second time.
CancelSwapsBatch(a, list) ==
    /\ list # <<>>
    /\ \A i, j \in DOMAIN list : i # j => list[i] # list[j]
    /\ \A i \in DOMAIN list : list[i] \in DOMAIN swaps /\ swaps[list[i]].party = a
    /\ ReturnRest({list[i] : i \in DOMAIN list}, "Cancelled")

\* A party.
ProposeBasket(a, b) ==
    /\ swapReady
    /\ b.expires > now
    /\ b.offers # NoTokens /\ b.demands # NoTokens
    /\ baskets' = Append(baskets, [terms |-> b, party |-> a, state |-> "Pending"])
    /\ UNCHANGED <<now, keeps, swapReady, feeBps, swaps, swapHeld, partyBal, feesPaid, misdrawn, overstated, paidFor, fills>>

\* A taker: all demands, then all offers, or nothing.
AcceptBasket(i, b) ==
    LET w == baskets[i]
        paid == [a \in Parties |-> [t \in SwapTokens |->
                   partyBal[a][t] - (IF a = b THEN w.terms.demands[t] ELSE 0)
                                  + (IF a = w.party THEN Reaches(t, w.terms.demands[t]) ELSE 0)]]
    IN
    /\ i \in DOMAIN baskets
    /\ w.state = "Pending"
    /\ now <= w.terms.expires
    /\ \A t \in SwapTokens : /\ partyBal[b][t] >= w.terms.demands[t]
                             /\ paid[w.party][t] >= w.terms.offers[t]
    /\ partyBal' = [a \in Parties |-> [t \in SwapTokens |->
                      paid[a][t] + (IF a = b THEN Reaches(t, w.terms.offers[t]) ELSE 0)
                                 - (IF a = w.party THEN w.terms.offers[t] ELSE 0)]]
    /\ baskets' = [baskets EXCEPT ![i].state = "Executed"]
    /\ UNCHANGED <<now, keeps, swapReady, feeBps, swaps, swapHeld, feesPaid, misdrawn, overstated, paidFor, fills>>

SwapNext ==
    \/ InitializeSwap
    \/ \E bps \in FeeRates : SetFeeBps(bps)
    \/ \E a \in Parties, t \in SwapTerms : Len(swaps) < MaxSwaps /\ ProposeSwap(a, t)
    \/ \E s \in SwapIds, b \in Parties, x \in FillAmounts, secret \in BOOLEAN : ExecuteSwap(s, b, x, secret)
    \/ \E s \in SwapIds, x \in FillAmounts : FillSwapPartial(s, x)
    \/ \E s \in SwapIds : CancelSwap(s) \/ RefundHashlocked(s) \/ ExpireSwap(s)
    \/ \E a \in Parties, list \in CancelLists : CancelSwapsBatch(a, list)
    \/ \E a \in Parties, b \in BasketTerms : Len(baskets) < MaxBaskets /\ ProposeBasket(a, b)
    \/ \E i \in 1..MaxBaskets, b \in Parties : AcceptBasket(i, b)
    \/ LedgerCloses /\ UNCHANGED swapOnlyVars

SwapSpec == SwapInit /\ [][SwapNext]_swapVars

----
(* Properties.                                                             *)

\* The unfilled escrow of each pending swap in token t.
EscrowOf(t) ==
    [s \in DOMAIN swaps |->
        IF PendingSwap(s) /\ swaps[s].terms.escrowed /\ swaps[s].terms.tokenA = t
        THEN swaps[s].remaining ELSE 0]

Escrowed(t) == SumFunctionOnSet(EscrowOf(t), DOMAIN swaps)

\* The contract holds the unfilled rest of every escrowed pending swap and nothing
\* else, whatever the order of fills, cancellations, refunds, expiries and batches, but
\* for two sums.  misdrawn is what fill_swap_partial took for offers that were never
\* escrowed (see CancelReturnsEscrow).  overstated is what a token that keeps a part of
\* its transfers withheld: the measurement of the deposit is dropped and the offer
\* recorded in full (lib.rs:391-393), against "measuring the actual amount received to
\* remain resilient to fee-on-transfer tokens" (lib.rs:378-379) and the test of #1299
\* (test.rs:1231-1274).  Only for tokens that deliver in full is it nothing.
EscrowAccounted ==
    \A t \in SwapTokens : /\ swapHeld[t] + misdrawn[t] + overstated[t] = Escrowed(t)
                          /\ keeps[t] = 0 => overstated[t] = 0

\* Takers pay the agreed price, rounded down once a fill: never more, and short of
\* it by less than one unit of token_b a fill, into however many parts an offer is
\* split.
PriceKept ==
    \A s \in DOMAIN swaps :
        LET short == swaps[s].filled * swaps[s].terms.amountB - paidFor[s] * swaps[s].terms.amountA IN
        0 <= short /\ short <= fills[s] * (swaps[s].terms.amountA - 1)

\* "cancellation returns the escrow to Party A": the escrow of a pending swap is there.
CancelReturnsEscrow == \A t \in SwapTokens : swapHeld[t] >= Escrowed(t)
====
