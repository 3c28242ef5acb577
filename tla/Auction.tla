---- MODULE Auction ----
(***************************************************************************)
(* The auction (contracts/auction): ascending bids with an extending       *)
(* deadline, a reserve, a buy-it-now price and refunds to be withdrawn, or *)
(* a descending price.  The lot may be a token held by the contract.       *)
(*                                                                         *)
(* cancel holds pieces of two versions; modelled is the one with the grace *)
(* period that the module's documentation draws.  The seller may be unable *)
(* to receive tokens.  resold is a history variable.                       *)
(***************************************************************************)
EXTENDS HostClock, SequencesExt, FiniteSetsExt

CONSTANTS
    Bidders,      \* addresses other than the seller's
    BidderFunds,  \* what a bidder holds at first
    SellerFunds,  \* what the seller holds at first
    AuctionTerms, \* candidate [start, step, deadline, reserve, window, last, grace, fee, buyNow,
                  \* lot, floor]: a floor makes it a descending auction from ledger last
    BidAmounts,   \* candidate bids
    RoyaltyShares,\* royalties that the lot's contract may ask for
    None          \* an absent reserve, buy-it-now price, floor or address

ASSUME AuctionAssumption ==
    /\ BidderFunds \in Nat /\ SellerFunds \in Nat /\ BidAmounts \subseteq Int /\ RoyaltyShares \subseteq Nat
    /\ None \notin Bidders \cup Int /\ IsFiniteSet(Bidders)
    /\ \A t \in AuctionTerms :
         /\ {t.start, t.step, t.fee} \subseteq Int /\ {t.reserve, t.buyNow, t.floor} \subseteq Int \cup {None}
         /\ {t.deadline, t.window, t.last, t.grace} \subseteq Nat /\ t.lot \in BOOLEAN

VARIABLES
    auction,     \* terms, set by start or start_dutch
    started,     \* Seller key is set
    startLedger, \* StartLedger key
    deadline,    \* Deadline key
    topBidder,   \* HighestBidder key
    topBid,      \* HighestBid key
    pendingBack, \* Pending keys
    sellerDue,   \* SellerPending key
    settled,     \* Settled key
    cancelled,   \* Cancelled key
    lotAt,       \* who holds the lot: "seller", "contract" or a bidder
    bidBal,      \* what the bidders hold
    sellerBal,   \* what the seller holds
    bidHeld,     \* what the contract holds
    resold       \* a bid was placed after a buy-it-now sale

auctionOnlyVars == <<auction, started, startLedger, deadline, topBidder, topBid, pendingBack, sellerDue,
                     settled, cancelled, lotAt, bidBal, sellerBal, bidHeld, resold>>
auctionVars == <<now, auctionOnlyVars>>

AuctionInit ==
    /\ now = 0
    /\ auction \in AuctionTerms
    /\ started = FALSE /\ startLedger = 0 /\ deadline = 0 /\ topBidder = None /\ topBid = 0
    /\ pendingBack = [b \in Bidders |-> 0] /\ sellerDue = 0
    /\ settled = FALSE /\ cancelled = FALSE /\ lotAt = "seller"
    /\ bidBal = [b \in Bidders |-> BidderFunds] /\ sellerBal = SellerFunds /\ bidHeld = 0
    /\ resold = FALSE

Dutch == auction.floor # None

\* escrow_nft: a lot, when there is one, is pulled in.
EscrowedLot == IF auction.lot THEN "contract" ELSE lotAt

\* The seller: start, and start_dutch when the price descends.
Start ==
    LET t == auction IN
    /\ ~started
    /\ IF Dutch
       THEN /\ t.floor >= 0 /\ t.start > t.floor
            /\ t.deadline > t.last /\ t.last >= now
            /\ topBid' = 0 /\ startLedger' = 0
       ELSE /\ t.start > 0 /\ t.step > 0 /\ t.fee >= 0
            /\ t.deadline > now /\ t.last >= t.deadline
            /\ topBid' = t.start - 1 /\ startLedger' = now
    /\ started' = TRUE /\ deadline' = t.deadline
    /\ lotAt' = EscrowedLot
    /\ UNCHANGED <<now, auction, topBidder, pendingBack, sellerDue, settled, cancelled, bidBal, sellerBal, bidHeld, resold>>

\* release_nft: nothing happens without a lot, and the lot must still be here.
ReleaseNft(to) ==
    /\ auction.lot => lotAt = "contract"
    /\ lotAt' = IF auction.lot THEN to ELSE lotAt

\* price_at: linear from the first to the last ledger, then the floor.
PriceAt(t) ==
    IF now >= t.deadline THEN t.floor
    ELSE t.start - ((t.start - t.floor) * (now - t.last)) \div (t.deadline - t.last)

\* A buyer, of a descending auction.
BuyNow(b, maxPrice) ==
    LET price == PriceAt(auction) IN
    /\ started /\ Dutch /\ ~settled /\ ~cancelled
    /\ now >= auction.last
    /\ maxPrice >= price /\ bidBal[b] >= price
    /\ settled' = TRUE /\ topBidder' = b /\ topBid' = price
    /\ bidBal' = [bidBal EXCEPT ![b] = @ - price]
    /\ sellerBal' = sellerBal + price
    /\ ReleaseNft(b)
    /\ UNCHANGED <<now, auction, started, startLedger, deadline, pendingBack, sellerDue, cancelled, bidHeld, resold>>

\* Mutant: the refund of the bidder that is outbid is forgotten.
NothingQueued == pendingBack

\* The leader's bid becomes a refund.
Queued == IF topBidder = None THEN pendingBack ELSE [pendingBack EXCEPT ![topBidder] = @ + topBid]

\* Anti-sniping: a late bid moves the deadline, up to the last one.
Extended ==
    LET longer == IF deadline + auction.window > auction.last THEN auction.last ELSE deadline + auction.window IN
    IF auction.window > 0 /\ deadline - now <= auction.window /\ longer > deadline THEN longer ELSE deadline

\* A bidder: bid, and bid_with_credit, which first spends its refund.
PlaceBid(b, x, useCredit) ==
    LET credit == IF ~useCredit THEN 0 ELSE IF Queued[b] < x THEN Queued[b] ELSE x
        owed == x - credit
        sold == auction.buyNow # None /\ x >= auction.buyNow
    IN
    /\ started /\ ~Dutch /\ ~cancelled
    /\ x > 0
    /\ now <= deadline
    /\ x >= IF topBid < auction.start THEN auction.start ELSE topBid + auction.step
    /\ bidBal[b] >= owed
    /\ pendingBack' = [Queued EXCEPT ![b] = @ - credit]
    /\ topBidder' = b /\ topBid' = x
    /\ bidBal' = [bidBal EXCEPT ![b] = @ - owed]
    /\ resold' = (resold \/ settled)
    /\ IF sold
       THEN /\ settled' = TRUE
            /\ bidHeld + owed >= x
            /\ bidHeld' = bidHeld + owed - x /\ sellerBal' = sellerBal + x
            /\ ReleaseNft(b)
            /\ UNCHANGED deadline
       ELSE /\ bidHeld' = bidHeld + owed
            /\ deadline' = Extended
            /\ UNCHANGED <<settled, sellerBal, lotAt>>
    /\ UNCHANGED <<now, auction, started, startLedger, sellerDue, cancelled>>

\* The seller: freely before a bid, and within the grace period for a fee.
CancelAuction ==
    /\ started /\ ~settled /\ ~cancelled
    /\ cancelled' = TRUE
    /\ \/ /\ topBidder = None
          /\ UNCHANGED <<topBidder, pendingBack, sellerBal, bidHeld, lotAt>>
       \/ /\ topBidder # None
          /\ auction.grace # 0 /\ now <= startLedger + auction.grace
          /\ sellerBal >= auction.fee
          /\ sellerBal' = sellerBal - auction.fee /\ bidHeld' = bidHeld + auction.fee
          /\ pendingBack' = [Queued EXCEPT ![topBidder] = @ + auction.fee]
          /\ topBidder' = None
          /\ ReleaseNft("seller")
    /\ UNCHANGED <<now, auction, started, startLedger, deadline, topBid, sellerDue, settled, bidBal, resold>>

\* The seller; the ids are ignored, so a second one finds the lot gone.
CancelAuctionsBatch(n) ==
    /\ started /\ ~settled /\ ~cancelled
    /\ topBidder = None /\ topBid < auction.start
    /\ auction.lot => n = 1
    /\ cancelled' = TRUE
    /\ ReleaseNft("seller")
    /\ UNCHANGED <<now, auction, started, startLedger, deadline, topBidder, topBid, pendingBack, sellerDue,
                   settled, bidBal, sellerBal, bidHeld, resold>>

\* Mutant: the bid wins as soon as it is one below the reserve.
ReserveAlmostMet == auction.reserve # None /\ topBid + 1 < auction.reserve

\* The leader's bid stays below the seller's reserve.
ReserveUnmet == auction.reserve # None /\ topBid < auction.reserve

\* Anyone, after the deadline; receives says whether the seller accepts tokens and
\* royalty what the lot's contract asks for and gets.
End(receives, royalty) ==
    LET won == topBidder # None /\ topBid >= auction.start
        back == won /\ ReserveUnmet
        share == IF auction.lot /\ royalty < topBid THEN royalty ELSE 0
    IN
    /\ started /\ ~Dutch /\ ~cancelled /\ ~settled
    /\ now > deadline
    /\ settled' = TRUE
    /\ ReleaseNft(IF won /\ ~back THEN topBidder ELSE "seller")
    /\ bidHeld >= IF won THEN topBid ELSE 0
    /\ bidBal' = IF back THEN [bidBal EXCEPT ![topBidder] = @ + topBid] ELSE bidBal
    /\ IF won /\ ~back
       THEN IF receives
            THEN bidHeld' = bidHeld - topBid /\ sellerBal' = sellerBal + topBid - share /\ UNCHANGED sellerDue
            ELSE bidHeld' = bidHeld - share /\ sellerDue' = sellerDue + topBid - share /\ UNCHANGED sellerBal
       ELSE bidHeld' = (IF back THEN bidHeld - topBid ELSE bidHeld) /\ UNCHANGED <<sellerBal, sellerDue>>
    /\ UNCHANGED <<now, auction, started, startLedger, deadline, topBidder, topBid, pendingBack, cancelled, resold>>

\* The bidder.
WithdrawBid(b) ==
    /\ pendingBack[b] > 0
    /\ bidHeld >= pendingBack[b]
    /\ pendingBack' = [pendingBack EXCEPT ![b] = 0]
    /\ bidHeld' = bidHeld - pendingBack[b]
    /\ bidBal' = [bidBal EXCEPT ![b] = @ + pendingBack[b]]
    /\ UNCHANGED <<now, auction, started, startLedger, deadline, topBidder, topBid, sellerDue, settled,
                   cancelled, lotAt, sellerBal, resold>>

\* The seller.
WithdrawSellerProceeds ==
    /\ sellerDue > 0
    /\ bidHeld >= sellerDue
    /\ sellerDue' = 0 /\ bidHeld' = bidHeld - sellerDue /\ sellerBal' = sellerBal + sellerDue
    /\ UNCHANGED <<now, auction, started, startLedger, deadline, topBidder, topBid, pendingBack, settled,
                   cancelled, lotAt, bidBal, resold>>

AuctionNext ==
    \/ Start
    \/ \E b \in Bidders, x \in BidAmounts : BuyNow(b, x)
    \/ \E b \in Bidders, x \in BidAmounts, c \in BOOLEAN : PlaceBid(b, x, c)
    \/ CancelAuction
    \/ \E n \in 1..2 : CancelAuctionsBatch(n)
    \/ \E r \in BOOLEAN, x \in RoyaltyShares : End(r, x)
    \/ \E b \in Bidders : WithdrawBid(b)
    \/ WithdrawSellerProceeds
    \/ LedgerCloses /\ UNCHANGED auctionOnlyVars

AuctionSpec == AuctionInit /\ [][AuctionNext]_auctionVars

----
(* Properties.                                                             *)

BoughtNow == auction.buyNow # None /\ topBid >= auction.buyNow

LiveBid == IF topBidder # None /\ ~settled /\ ~cancelled THEN topBid ELSE 0

Owed == SumFunctionOnSet(pendingBack, Bidders) + sellerDue + LiveBid

\* The contract holds the live bid, every refund and the seller's unpaid proceeds,
\* and nothing else, through raises, credits, extensions, cancellation with
\* compensation, an unmet reserve and a seller who cannot be paid, until a bid is
\* placed on an auction that a buy-it-now sale has settled.
BidsBacked == ~resold => bidHeld = Owed

\* The lot and the money change sides together: a settled auction leaves the lot
\* with the winner whose bid met the price and the reserve, or the buy-it-now price,
\* which nothing keeps above the reserve; or with the seller when nobody paid; until
\* a bid follows a buy-it-now sale.
LotFollowsMoney ==
    settled /\ auction.lot /\ ~resold =>
        lotAt = IF topBidder # None
                   /\ (Dutch \/ auction.reserve = None \/ topBid >= auction.reserve \/ BoughtNow)
                THEN topBidder ELSE "seller"

\* "outbid and compensated bidders always recover their funds with withdraw".
RefundsBacked == bidHeld >= SumFunctionOnSet(pendingBack, Bidders)
====
