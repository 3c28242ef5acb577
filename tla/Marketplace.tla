---- MODULE Marketplace ----
(***************************************************************************)
(* The NFT marketplace (contracts/marketplace) over one collection, which  *)
(* its holders use at the same time.  Sellers keep their tokens and approve*)
(* the marketplace; offers are escrowed in it.                             *)
(*                                                                         *)
(* buy and accept_offer hold pieces of two versions.  Modelled: the bound  *)
(* on the price, payment in the listing's token, royalties by settle_sale. *)
(* Royalty recipients are one account.  The reentrancy lock never outlives *)
(* a call.  overwritten is a history variable.                             *)
(***************************************************************************)
EXTENDS Nft

CONSTANTS
    Market, Royal,  \* the contract's address and the royalty recipients
    PayTokens,      \* payment tokens
    DefaultToken,   \* PaymentToken key
    CollectorFunds, \* what each collector holds of each payment token at first
    ListTerms,      \* candidate [token, price, floor, start, stop, pay, expires]: a fixed
                    \* price has start = stop and floor = price; expires may be Nobody
    BundleTerms,    \* candidate [tokens, price, pay]
    IdLists,        \* candidate lists of listing ids
    OfferAmounts,   \* candidate amounts
    OfferLists,     \* candidate lists of [token, amount]
    OfferExpiries,  \* candidate expiration ledgers
    CounterRates,   \* candidate min_counter_offer_bps
    Whitelists,     \* candidate sets of allowed payment tokens
    Splits,         \* candidate royalty splits, lists of bps
    SingleBps,      \* RoyaltyBps key
    Discounts,      \* discounts a seller's stake may earn, in bps
    MaxListings,    \* bound: listings
    MaxBundles,     \* bound: bundles, and collection offers
    MaxBatch        \* MAX_BATCH_SIZE

OfferEntries == [token : TokenIds, amount : Int]

ASSUME MarketAssumption ==
    /\ IsFiniteSet(Collectors) /\ {Market, Royal} \cap Collectors = {} /\ Market # Royal
    /\ DefaultToken \in PayTokens
    /\ CollectorFunds \in [Collectors -> Nat] /\ {MaxListings, MaxBundles, MaxBatch} \subseteq Nat

ASSUME RateAssumption == SingleBps \in 0..10000 /\ Splits \subseteq Seq(Nat) /\ Discounts \subseteq 0..10000

ASSUME OfferAssumption ==
    /\ IdLists \subseteq Seq(Nat) /\ OfferAmounts \subseteq Int /\ OfferExpiries \subseteq Nat
    /\ OfferLists \subseteq Seq(OfferEntries)

ASSUME TermsAssumption ==
    /\ \A t \in BundleTerms : t.tokens \in Seq(TokenIds) /\ t.price \in Int /\ t.pay \in PayTokens
    /\ \A l \in ListTerms : /\ l.token \in TokenIds /\ {l.price, l.floor} \subseteq Int
                            /\ {l.start, l.stop} \subseteq Nat /\ l.pay \in PayTokens
                            /\ l.expires \in Nat \cup {Nobody}

VARIABLES
    marketReady,  \* Admin key is set
    whitelist,    \* allowed payment tokens, or PayTokens while the whitelist is off
    minCounter,   \* MinCounterOfferBps key
    splits,       \* RoyaltySplits key
    listings,     \* Listing keys, in order of their id
    bundles,      \* Bundle keys, in order of their id
    offers,       \* Offer keys: amount and expiry by listing and buyer
    highest,      \* HighestOffer keys, 0 when absent
    wideOffers,   \* CollectionOffer keys, in order of their id
    marketFunds,  \* payment tokens of collectors, contract and royalty recipients
    overwritten   \* escrow of offers that a batch replaced

marketSetup == <<marketReady, whitelist, minCounter, splits>>
marketOnlyVars == <<marketSetup, listings, bundles, offers, highest, wideOffers, marketFunds, overwritten>>
marketVars == <<nftVars, marketOnlyVars>>

ListingIds == 1..MaxListings
NoOffer == [amount |-> 0, expires |-> 0]

\* The first collector holds every token of an open collection.
MintedInit ==
    LET holder == CHOOSE a \in Collectors : TRUE IN
    /\ now = 0
    /\ nftReady = TRUE /\ nftConf = [maxSupply |-> 0, bps |-> 0, soulbound |-> FALSE]
    /\ nftOwner = [i \in TokenIds |-> holder] /\ nftApproval = [i \in TokenIds |-> Nobody]
    /\ tokenBps = [i \in TokenIds |-> IF i = 1 THEN Nobody ELSE 5000]
    /\ nftBalance = [a \in Collectors |-> IF a = holder THEN MaxTokenId ELSE 0]
    /\ ownerTokens = [a \in Collectors |-> [x \in Slots |->
                        IF a = holder /\ x < MaxTokenId THEN x + 1 ELSE Nobody]]
    /\ ownedIndex = [i \in TokenIds |-> i - 1]
    /\ totalSupply = MaxTokenId /\ nextTokenId = MaxTokenId + 1 /\ repeated = FALSE

MarketInit ==
    /\ marketReady = FALSE /\ whitelist = PayTokens /\ minCounter = 0 /\ splits = <<>>
    /\ listings = <<>> /\ bundles = <<>> /\ wideOffers = <<>>
    /\ offers = [l \in ListingIds |-> [b \in Collectors |-> NoOffer]]
    /\ highest = [l \in ListingIds |-> 0]
    /\ marketFunds = [a \in Collectors \cup {Market, Royal} |->
                        [t \in PayTokens |-> IF a \in Collectors THEN CollectorFunds[a] ELSE 0]]
    /\ overwritten = [t \in PayTokens |-> 0]

\* Admin.
InitializeMarket ==
    /\ ~marketReady
    /\ marketReady' = TRUE
    /\ UNCHANGED <<nftVars, whitelist, minCounter, splits, listings, bundles, offers, highest, wideOffers, marketFunds, overwritten>>

\* Admin: set_whitelist_enabled and set_payment_token_allowed.
SetWhitelist(allowed) ==
    /\ marketReady
    /\ whitelist' = allowed
    /\ UNCHANGED <<nftVars, marketReady, minCounter, splits, listings, bundles, offers, highest, wideOffers, marketFunds, overwritten>>

\* Admin.
SetMinCounterOfferBps(bps) ==
    /\ marketReady
    /\ bps <= 10000
    /\ minCounter' = bps
    /\ UNCHANGED <<nftVars, marketReady, whitelist, splits, listings, bundles, offers, highest, wideOffers, marketFunds, overwritten>>

\* Admin.
SetRoyaltySplits(s) ==
    /\ marketReady
    /\ \A x \in DOMAIN s : s[x] # 0
    /\ SumFunctionOnSet(s, DOMAIN s) <= 10000
    /\ splits' = s
    /\ UNCHANGED <<nftVars, marketReady, whitelist, minCounter, listings, bundles, offers, highest, wideOffers, marketFunds, overwritten>>

\* list_impl and list_dutch_impl.
MayList(l) ==
    /\ marketReady
    /\ l.floor > 0 /\ l.price >= l.floor
    /\ l.start # l.stop => l.stop > l.start /\ l.start >= now
    /\ l.expires # Nobody => l.expires > now
    /\ l.pay \in whitelist

\* A seller: list, list_with_expiry, list_dutch and list_batch.
List(a, batch) ==
    /\ Len(batch) \in 1..MaxBatch
    /\ Len(listings) + Len(batch) <= MaxListings
    /\ \A x \in DOMAIN batch : MayList(batch[x])
    /\ listings' = listings \o [x \in DOMAIN batch |-> [terms |-> batch[x], seller |-> a, active |-> TRUE]]
    /\ UNCHANGED <<nftVars, marketSetup, bundles, offers, highest, wideOffers, marketFunds, overwritten>>

\* dutch_price: linear from the first to the last ledger, then flat.
AskingPrice(l) ==
    LET t == listings[l].terms
        at == IF now > t.stop THEN t.stop ELSE now
    IN
    IF t.start = t.stop THEN t.price
    ELSE t.price - ((t.price - t.floor) * (at - t.start)) \div (t.stop - t.start)

\* The marketplace's royalty shares.
Shares == IF splits = <<>> THEN <<SingleBps>> ELSE splits

\* What a share of bps comes to after the seller's discount, rounded down.
ShareOf(price, bps, discount) == (price * (bps - (bps * discount) \div 10000)) \div 10000

\* resolve_royalty: the collection's royalty, else the shares.
Royalties(i, price, discount) ==
    IF RoyaltyBps(i) > 0 THEN (price * RoyaltyBps(i)) \div 10000
    ELSE SumFunctionOnSet([x \in DOMAIN Shares |-> ShareOf(price, Shares[x], discount)], DOMAIN Shares)

\* The payment tokens' books; ok while every transfer has succeeded.
Books == [ok |-> TRUE, funds |-> marketFunds]

Pays(b, from, to, t, x) ==
    LET taken == [b.funds EXCEPT ![from][t] = @ - x] IN
    [ok |-> b.ok /\ taken[from][t] >= 0, funds |-> [taken EXCEPT ![to][t] = @ + x]]

\* The payments of settle_sale: the seller first, then the royalty.
PaySale(b, payer, seller, i, t, price, discount) ==
    LET royalty == Royalties(i, price, discount) IN
    Pays(Pays(b, payer, seller, t, price - royalty), payer, Royal, t, royalty)

\* The call succeeds with these books.
Paid(b) == b.ok /\ marketFunds' = b.funds

\* Mutant: the collection asks for an approval and not whose token it is.
GivesApproved(from, i) == nftApproval[i] = Market

\* transfer_from of the collection lets the marketplace take the token.
Gives(from, i) == nftOwner[i] = from /\ nftApproval[i] = Market

\* transfer_from of the collection, for tokens that change hands one after the
\* other; the approval ends with the first transfer, so no token is taken twice.
Deliver(from, to, list) ==
    LET given == {list[x] : x \in DOMAIN list} IN
    /\ ~nftConf.soulbound
    /\ Cardinality(given) = Len(list)
    /\ \A x \in DOMAIN list : Gives(from[x], list[x])
    /\ nftOwner' = [i \in TokenIds |-> IF i \in given THEN to ELSE nftOwner[i]]
    /\ nftApproval' = [i \in TokenIds |-> IF i \in given THEN Nobody ELSE nftApproval[i]]
    /\ SetEnumeration(FoldLeft(LAMBDA e, x : Handed(e, from[x], to, <<list[x]>>), Enumeration,
                               [x \in DOMAIN list |-> x]))
    /\ UNCHANGED <<now, nftReady, nftConf, tokenBps, totalSupply, nextTokenId, repeated>>

Closed(ids) == [l \in DOMAIN listings |-> IF l \in ids THEN [listings[l] EXCEPT !.active = FALSE] ELSE listings[l]]

SellerOwns(l) == nftOwner[listings[l].terms.token] = listings[l].seller

PayListing(acc, b, l, discount) ==
    PaySale(acc, b, listings[l].seller, listings[l].terms.token, listings[l].terms.pay, AskingPrice(l), discount)

\* The payments of a list of purchases, one after the other.
Purchases(b, ids, discount) == FoldLeft(LAMBDA acc, l : PayListing(acc, b, l, discount), Books, ids)

\* A buyer: buy and buy_batch, each at most at the price it saw.
Buy(b, ids, maxPrice, discount) ==
    LET sold == {ids[x] : x \in DOMAIN ids} IN
    /\ marketReady
    /\ Len(ids) \in 1..MaxBatch /\ Cardinality(sold) = Len(ids) /\ sold \subseteq DOMAIN listings
    /\ \A l \in sold :
         /\ listings[l].active
         /\ listings[l].terms.expires # Nobody => now <= listings[l].terms.expires
         /\ SellerOwns(l)
         /\ listings[l].terms.start # listings[l].terms.stop => now >= listings[l].terms.start
         /\ AskingPrice(l) <= maxPrice
    /\ listings' = Closed(sold)
    /\ Paid(Purchases(b, ids, discount))
    /\ Deliver([x \in DOMAIN ids |-> listings[ids[x]].seller], b, [x \in DOMAIN ids |-> listings[ids[x]].terms.token])
    /\ UNCHANGED <<marketSetup, bundles, offers, highest, wideOffers, overwritten>>

\* The seller, of each: cancel, cancel_batch, and sweep_expired of what has expired.
CancelListings(a, ids) ==
    LET ended == {ids[x] : x \in DOMAIN ids} IN
    /\ marketReady
    /\ Len(ids) \in 1..MaxBatch /\ Cardinality(ended) = Len(ids) /\ ended \subseteq DOMAIN listings
    /\ \A l \in ended : listings[l].active /\ listings[l].seller = a
    /\ listings' = Closed(ended)
    /\ UNCHANGED <<nftVars, marketSetup, bundles, offers, highest, wideOffers, marketFunds, overwritten>>

\* Anyone, once the seller no longer owns the token.
InvalidateListing(l) ==
    /\ marketReady
    /\ l \in DOMAIN listings /\ listings[l].active
    /\ ~SellerOwns(l)
    /\ listings' = Closed({l})
    /\ UNCHANGED <<nftVars, marketSetup, bundles, offers, highest, wideOffers, marketFunds, overwritten>>

\* A seller.
CreateBundle(a, t) ==
    LET ids == {t.tokens[x] : x \in DOMAIN t.tokens} IN
    /\ marketReady
    /\ t.tokens # <<>> /\ t.price > 0 /\ t.pay \in whitelist
    /\ Cardinality(ids) = Len(t.tokens)
    /\ \A i \in ids : nftOwner[i] = a
    /\ bundles' = Append(bundles, [terms |-> t, seller |-> a, active |-> TRUE])
    /\ UNCHANGED <<nftVars, marketSetup, listings, offers, highest, wideOffers, marketFunds, overwritten>>

\* A buyer: one payment at the royalty of the first token, then every token.
BuyBundle(b, n) ==
    LET t == bundles[n].terms
        a == bundles[n].seller
    IN
    /\ marketReady
    /\ n \in DOMAIN bundles /\ bundles[n].active
    /\ \A x \in DOMAIN t.tokens : nftOwner[t.tokens[x]] = a
    /\ bundles' = [bundles EXCEPT ![n].active = FALSE]
    /\ Paid(PaySale(Books, b, a, t.tokens[1], t.pay, t.price, 0))
    /\ Deliver([x \in DOMAIN t.tokens |-> a], b, t.tokens)
    /\ UNCHANGED <<marketSetup, listings, offers, highest, wideOffers, overwritten>>

\* The seller.
DelistBundle(n) ==
    /\ marketReady
    /\ n \in DOMAIN bundles /\ bundles[n].active
    /\ bundles' = [bundles EXCEPT ![n].active = FALSE]
    /\ UNCHANGED <<nftVars, marketSetup, listings, offers, highest, wideOffers, marketFunds, overwritten>>

\* Mutant: the whole of a changed offer is pulled again.
FullAmount(l, b, x) == x

\* What a buyer owes when its offer becomes x; negative when it is owed.
Delta(l, b, x) == x - offers[l][b].amount

\* A buyer.
MakeOffer(b, l, x, until) ==
    LET t == listings[l].terms IN
    /\ marketReady
    /\ l \in DOMAIN listings /\ listings[l].active
    /\ x > 0 /\ x < t.price
    /\ until > now
    /\ minCounter > 0 /\ highest[l] > 0 => x >= (highest[l] * (10000 + minCounter)) \div 10000
    /\ Paid(Pays(Books, b, Market, t.pay, Delta(l, b, x)))
    /\ offers' = [offers EXCEPT ![l][b] = [amount |-> x, expires |-> until]]
    /\ highest' = IF x > highest[l] THEN [highest EXCEPT ![l] = x] ELSE highest
    /\ UNCHANGED <<nftVars, marketSetup, listings, bundles, wideOffers, overwritten>>

\* find_listing_by_token: the last active listing of the token.
ListingOf(i) == Max({l \in DOMAIN listings : listings[l].active /\ listings[l].terms.token = i} \cup {0})

\* A buyer; the offers of the batch replace the buyer's, the last one of a listing
\* staying, and their sum is pulled.
MakeOffersBatch(b, batch, until) ==
    LET total == SumFunctionOnSet([x \in DOMAIN batch |-> batch[x].amount], DOMAIN batch)
        entries(l) == {x \in DOMAIN batch : ListingOf(batch[x].token) = l}
        stored == [l \in ListingIds |->
                     IF entries(l) = {} THEN offers[l]
                     ELSE [offers[l] EXCEPT ![b] = [amount |-> batch[Max(entries(l))].amount, expires |-> until]]]
        added == SumFunctionOnSet([l \in ListingIds |-> offers'[l][b].amount - offers[l][b].amount], ListingIds)
    IN
    /\ marketReady
    /\ Len(batch) \in 1..MaxBatch
    /\ until > now
    /\ \A x \in DOMAIN batch :
         LET l == ListingOf(batch[x].token) IN
         /\ l # 0
         /\ batch[x].amount > 0 /\ batch[x].amount < listings[l].terms.price
         /\ listings[l].terms.pay = DefaultToken
    /\ Paid(Pays(Books, b, Market, DefaultToken, total))
    /\ offers' = stored
    /\ overwritten' = [overwritten EXCEPT ![DefaultToken] = @ + total - added]
    /\ UNCHANGED <<nftVars, marketSetup, listings, bundles, highest, wideOffers>>

\* The seller.
AcceptOffer(l, b, discount) ==
    LET t == listings[l].terms IN
    /\ marketReady
    /\ l \in DOMAIN listings /\ listings[l].active
    /\ offers[l][b] # NoOffer /\ now <= offers[l][b].expires
    /\ SellerOwns(l)
    /\ listings' = Closed({l})
    /\ offers' = [offers EXCEPT ![l][b] = NoOffer]
    /\ Paid(PaySale(Books, Market, listings[l].seller, t.token, t.pay, offers[l][b].amount, discount))
    /\ Deliver(<<listings[l].seller>>, b, <<t.token>>)
    /\ UNCHANGED <<marketSetup, bundles, highest, wideOffers, overwritten>>

\* The offers that buyers have on a listing are refunded.
RefundOffers(l, buyers) ==
    LET t == listings[l].terms.pay
        due == SumFunctionOnSet([b \in Collectors |-> offers[l][b].amount], buyers)
        owed(a) == IF a = Market THEN -due ELSE IF a \in buyers THEN offers[l][a].amount ELSE 0
    IN
    /\ marketReady
    /\ l \in DOMAIN listings
    /\ marketFunds[Market][t] >= due
    /\ marketFunds' = [a \in DOMAIN marketFunds |-> [marketFunds[a] EXCEPT ![t] = @ + owed(a)]]
    /\ offers' = [offers EXCEPT ![l] = [b \in Collectors |-> IF b \in buyers THEN NoOffer ELSE @[b]]]
    /\ UNCHANGED <<nftVars, marketSetup, listings, bundles, highest, wideOffers, overwritten>>

\* The buyer at any time; anyone once the offer expired (expire_offer).
CancelOffer(l, b) == offers[l][b] # NoOffer /\ RefundOffers(l, {b})

\* Anyone, once the listing is closed; buyers without an offer are skipped.
SweepOffers(l, buyers) ==
    /\ buyers # {}
    /\ l \in DOMAIN listings /\ ~listings[l].active
    /\ RefundOffers(l, buyers)

\* A buyer.
MakeCollectionOffer(b, x, until) ==
    /\ marketReady
    /\ x > 0
    /\ until > now
    /\ Paid(Pays(Books, b, Market, DefaultToken, x))
    /\ wideOffers' = Append(wideOffers, [buyer |-> b, amount |-> x, expires |-> until, open |-> TRUE])
    /\ UNCHANGED <<nftVars, marketSetup, listings, bundles, offers, highest, overwritten>>

\* A seller, of any token of the collection.
AcceptCollectionOffer(n, a, i, discount) ==
    LET o == wideOffers[n] IN
    /\ marketReady
    /\ n \in DOMAIN wideOffers /\ o.open
    /\ now <= o.expires
    /\ o.buyer # a
    /\ wideOffers' = [wideOffers EXCEPT ![n].open = FALSE]
    /\ Paid(PaySale(Books, Market, a, i, DefaultToken, o.amount, discount))
    /\ Deliver(<<a>>, o.buyer, <<i>>)
    /\ UNCHANGED <<marketSetup, listings, bundles, offers, highest, overwritten>>

\* The buyer.
CancelCollectionOffer(n) ==
    LET o == wideOffers[n] IN
    /\ marketReady
    /\ n \in DOMAIN wideOffers /\ o.open
    /\ Paid(Pays(Books, Market, o.buyer, DefaultToken, o.amount))
    /\ wideOffers' = [wideOffers EXCEPT ![n].open = FALSE]
    /\ UNCHANGED <<nftVars, marketSetup, listings, bundles, offers, highest, overwritten>>

MarketNext ==
    \/ InitializeMarket
    \/ \E s \in Whitelists : SetWhitelist(s)
    \/ \E bps \in CounterRates : SetMinCounterOfferBps(bps)
    \/ \E s \in Splits : SetRoyaltySplits(s)
    \/ \E a \in Collectors, l, m \in ListTerms : List(a, <<l>>) \/ List(a, <<l, m>>)
    \/ \E b \in Collectors, ids \in IdLists, x \in OfferAmounts, d \in Discounts : Buy(b, ids, x, d)
    \/ \E a \in Collectors, ids \in IdLists : CancelListings(a, ids)
    \/ \E l \in ListingIds : InvalidateListing(l)
    \/ \E a \in Collectors, t \in BundleTerms : Len(bundles) < MaxBundles /\ CreateBundle(a, t)
    \/ \E b \in Collectors, n \in 1..MaxBundles : BuyBundle(b, n)
    \/ \E n \in 1..MaxBundles : DelistBundle(n)
    \/ \E b \in Collectors, l \in ListingIds, x \in OfferAmounts, u \in OfferExpiries : MakeOffer(b, l, x, u)
    \/ \E b \in Collectors, batch \in OfferLists, u \in OfferExpiries : MakeOffersBatch(b, batch, u)
    \/ \E l \in ListingIds, b \in Collectors, d \in Discounts : AcceptOffer(l, b, d)
    \/ \E l \in ListingIds, b \in Collectors : CancelOffer(l, b)
    \/ \E l \in ListingIds, s \in SUBSET Collectors : SweepOffers(l, s)
    \/ \E b \in Collectors, x \in OfferAmounts, u \in OfferExpiries :
         Len(wideOffers) < MaxBundles /\ MakeCollectionOffer(b, x, u)
    \/ \E n \in 1..MaxBundles, a \in Collectors, i \in TokenIds, d \in Discounts : AcceptCollectionOffer(n, a, i, d)
    \/ \E n \in 1..MaxBundles : CancelCollectionOffer(n)
    \/ /\ \/ \E i \in TokenIds : ApproveNft(i, Market)
          \/ \E a, b \in Collectors, i \in TokenIds : a # b /\ TransferNft(a, b, i)
          \/ \E a \in Collectors, i \in TokenIds : BurnNft(a, i)
       /\ UNCHANGED marketOnlyVars
    \/ LedgerCloses /\ UNCHANGED <<nftOnlyVars, marketOnlyVars>>

MarketSpec == MintedInit /\ MarketInit /\ [][MarketNext]_marketVars

----
(* Properties.                                                             *)

OffersOn(l) == SumFunctionOnSet([b \in Collectors |-> offers[l][b].amount], Collectors)

OfferedIn(t) == [l \in ListingIds |-> IF l \in DOMAIN listings /\ listings[l].terms.pay = t THEN OffersOn(l) ELSE 0]
WideIn(t) == [n \in DOMAIN wideOffers |-> IF wideOffers[n].open /\ t = DefaultToken THEN wideOffers[n].amount ELSE 0]

\* What the open offers in payment token t come to.
Promised(t) == SumFunctionOnSet(OfferedIn(t), ListingIds) + SumFunctionOnSet(WideIn(t), DOMAIN wideOffers)

\* The marketplace holds every open offer and collection offer in full, and beyond
\* them exactly what make_offers_batch left behind when it replaced an offer without a
\* refund (lib.rs:1400-1420), through raises, cancellations, sweeps, sales by the
\* listing, by offer or elsewhere, and tokens that their owners move or burn meanwhile.
\* The equality without that remainder, which the repository's tests assert, is
\* OffersExactlyBacked.
OffersBacked == \A t \in PayTokens : marketFunds[Market][t] = Promised(t) + overwritten[t]

\* "marketplace token balance == sum of all escrowed listing + collection offers", after
\* every operation, make_offers_batch among them.
OffersExactlyBacked == \A t \in PayTokens : marketFunds[Market][t] = Promised(t)

\* The share of a sale of token i that royalties take, in bps.
RoyaltyRate(i) == IF RoyaltyBps(i) > 0 THEN RoyaltyBps(i) ELSE SumFunctionOnSet(Shares, DOMAIN Shares)

\* A token that changes hands by a step of the marketplace, and not by its holder's own
\* transfer, was paid to the one who owned it until then: that collector is strictly
\* richer in some payment token, whatever was listed, moved, burnt, relisted or offered
\* before, unless a royalty takes the whole price.
SoldForPay ==
    [][\A i \in TokenIds :
          /\ nftOwner'[i] # nftOwner[i] /\ marketOnlyVars' # marketOnlyVars
          /\ \A j \in TokenIds : RoyaltyRate(j) < 10000
          => \E t \in PayTokens : marketFunds'[nftOwner[i]][t] > marketFunds[nftOwner[i]][t]]_marketVars
====
