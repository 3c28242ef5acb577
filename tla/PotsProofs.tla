---- MODULE PotsProofs ----
(***************************************************************************)
(* Proofs about the contracts that keep money for others until a condition *)
(* holds: crowdfunding, auctions, timelocks and staking.                   *)
(***************************************************************************)
EXTENDS Crowdfund, Auction, Timelock, Staking, FoldLemmas

----
(* Crowdfunding.                                                           *)

AltPledges == SumFunctionOnSet(altPledged, PledgeTokens)

CrowdfundTyped ==
    /\ now \in Nat /\ campaign \in CampaignTerms
    /\ totalPledged \in Int /\ pot \in Int
    /\ fundsClaimed \in BOOLEAN /\ called_off \in BOOLEAN
    /\ pledgeOf \in [Backers -> Nat] /\ altPledged \in [PledgeTokens -> Nat]
    /\ milestones \in Seq(Nat) /\ released \in Nat

\* TotalPledged never falls behind the pledges that are still recorded.
TotalCoversPledges == totalPledged >= Pledges + AltPledges

\* A claim comes after the deadline of a campaign that met its goal.
ClaimedWhenDue == fundsClaimed => ~Running /\ GoalMet

CrowdfundInv ==
    /\ CrowdfundTyped
    /\ PledgesCovered
    /\ TotalCoversPledges
    /\ ClaimedWhenDue
    /\ ClaimOrRefund

\* The sum over the token records has two summands.
LEMMA TwoTokens ==
    ASSUME NEW f \in [PledgeTokens -> Nat]
    PROVE  SumFunctionOnSet(f, PledgeTokens) = f["own"] + f["other"]
<1>1. f["own"] \in Int /\ f["other"] \in Int BY DEF PledgeTokens
<1>2. PledgeTokens = {"other"} \cup {"own"} BY DEF PledgeTokens
<1>3. SumFunctionOnSet(f, {"other"}) = f["other"] BY <1>1, SumSingle
<1>4. SumFunctionOnSet(f, {"other"} \cup {"own"}) = f["own"] + SumFunctionOnSet(f, {"other"})
  <2>1. IsFiniteSet({"other"}) /\ "own" \notin {"other"} BY FS_Singleton
  <2>2. \A z \in {"other"} \cup {"own"} : f[z] \in Int BY <1>1
  <2>3. QED BY <2>1, <2>2, SumInsert
<1>5. QED BY <1>2, <1>3, <1>4

\* The sums over the pledge records are numbers.
LEMMA PledgeSums ==
    ASSUME CrowdfundTyped
    PROVE  /\ Pledges \in Int
           /\ AltPledges = altPledged["own"] + altPledged["other"]
           /\ altPledged["own"] \in Nat /\ altPledged["other"] \in Nat
<1>1. Pledges \in Int
  <2>1. \A a \in Backers : pledgeOf[a] \in Int BY DEF CrowdfundTyped
  <2>2. QED BY <2>1, CrowdfundAssumption, SumBasics DEF Pledges
<1>2. altPledged \in [PledgeTokens -> Nat] BY DEF CrowdfundTyped
<1>3. QED BY <1>1, <1>2, TwoTokens DEF AltPledges, PledgeTokens

\* A step that leaves what the invariant reads as it is.
LEMMA CrowdfundQuiet ==
    ASSUME CrowdfundInv,
           UNCHANGED <<totalPledged, fundsClaimed, called_off, pledgeOf, altPledged, pot, released>>,
           milestones' \in Seq(Nat),
           now' \in Nat, campaign' \in CampaignTerms, campaign'.goal = campaign.goal,
           fundsClaimed => now' > campaign'.deadline
    PROVE  CrowdfundInv'
BY SMTT(60) DEF CrowdfundInv, CrowdfundTyped, PledgesCovered, TotalCoversPledges, ClaimedWhenDue,
       ClaimOrRefund, Pledges, AltPledges, GoalMet, Running, CampaignTerms

\* A pledge, in whichever token, while the campaign runs.
LEMMA PledgeInv ==
    ASSUME CrowdfundInv, NEW x \in Int, x > 0, Running,
           UNCHANGED <<now, campaign, fundsClaimed, called_off, milestones, released>>,
           totalPledged' = totalPledged + x,
           \/ \E a \in Backers : pledgeOf' = [pledgeOf EXCEPT ![a] = @ + x] /\ UNCHANGED altPledged /\ pot' = pot + x
           \/ \E t \in PledgeTokens :
                /\ altPledged' = [altPledged EXCEPT ![t] = @ + x] /\ UNCHANGED pledgeOf
                /\ pot' = IF t = "own" THEN pot + x ELSE pot
    PROVE  CrowdfundInv'
<1>0. CrowdfundTyped /\ PledgesCovered /\ TotalCoversPledges /\ ClaimedWhenDue
  BY DEF CrowdfundInv
<1>1. ~fundsClaimed BY <1>0 DEF ClaimedWhenDue
<1>5. /\ totalPledged \in Int /\ pot \in Int /\ released \in Nat
      /\ pledgeOf \in [Backers -> Nat] /\ altPledged \in [PledgeTokens -> Nat]
  BY <1>0 DEF CrowdfundTyped
<1>2. pledgeOf' \in [Backers -> Nat] /\ altPledged' \in [PledgeTokens -> Nat] /\ pot' \in Int
  <2>1. \A n \in Nat : n + x \in Nat OBVIOUS
  <2>2. QED BY <1>5, <2>1
<1>22. CrowdfundTyped' BY <1>0, <1>2, <1>5 DEF CrowdfundTyped
<1>3. /\ Pledges \in Int /\ AltPledges = altPledged["own"] + altPledged["other"]
      /\ altPledged["own"] \in Nat /\ altPledged["other"] \in Nat
  BY <1>0, PledgeSums
<1>4. AltPledges' = altPledged'["own"] + altPledged'["other"] BY <1>2, TwoTokens DEF AltPledges
<1>6. CASE \E a \in Backers : pledgeOf' = [pledgeOf EXCEPT ![a] = @ + x] /\ UNCHANGED altPledged /\ pot' = pot + x
  <2>1. PICK a \in Backers : pledgeOf' = [pledgeOf EXCEPT ![a] = @ + x] BY <1>6
  <2>2. /\ \A z \in Backers : pledgeOf[z] \in Int
        /\ pledgeOf'[a] = pledgeOf[a] + x
        /\ \A z \in Backers : z # a => pledgeOf'[z] = pledgeOf[z]
    BY <1>5, <2>1
  <2>3. Pledges' = Pledges + x BY <2>2, CrowdfundAssumption, SumBump DEF Pledges
  <2>4. QED BY <1>0, <1>1, <1>22, <1>3, <1>4, <1>5, <1>6, <2>3
          DEF CrowdfundInv, PledgesCovered, TotalCoversPledges, ClaimedWhenDue, ClaimOrRefund
<1>7. CASE \E t \in PledgeTokens :
                /\ altPledged' = [altPledged EXCEPT ![t] = @ + x] /\ UNCHANGED pledgeOf
                /\ pot' = IF t = "own" THEN pot + x ELSE pot
  <2>1. PICK t \in PledgeTokens : altPledged' = [altPledged EXCEPT ![t] = @ + x]
                                  /\ pot' = IF t = "own" THEN pot + x ELSE pot
    BY <1>7
  <2>2. Pledges' = Pledges BY <1>7 DEF Pledges
  <2>3. altPledged \in [PledgeTokens -> Nat] BY <1>5
  <2>4. t = "own" => /\ altPledged'["own"] = altPledged["own"] + x
                     /\ altPledged'["other"] = altPledged["other"]
    BY <2>1, <2>3 DEF PledgeTokens
  <2>5. t # "own" => /\ altPledged'["own"] = altPledged["own"]
                     /\ altPledged'["other"] = altPledged["other"] + x
    BY <2>1, <2>3 DEF PledgeTokens
  <2>6. QED BY <1>0, <1>1, <1>22, <1>3, <1>4, <1>5, <2>1, <2>2, <2>4, <2>5
          DEF CrowdfundInv, PledgesCovered, TotalCoversPledges, ClaimedWhenDue, ClaimOrRefund
<1>8. QED BY <1>6, <1>7

\* Backers that are paid back take what was recorded for them out of the pot.
LEMMA PayBackInv ==
    ASSUME CrowdfundInv, NEW S \in SUBSET Backers, PayBack(S),
           \/ totalPledged' = totalPledged /\ (fundsClaimed => called_off)
           \/ totalPledged' = totalPledged - SumFunctionOnSet(pledgeOf, S) /\ ~fundsClaimed
    PROVE  CrowdfundInv'
<1> DEFINE due == SumFunctionOnSet(pledgeOf, S)
<1>0. /\ CrowdfundTyped /\ PledgesCovered /\ TotalCoversPledges /\ ClaimedWhenDue
      /\ ClaimOrRefund
  BY DEF CrowdfundInv
<1>1. pledgeOf \in [Backers -> Nat] /\ pot \in Int /\ totalPledged \in Int /\ released \in Nat
  BY <1>0 DEF CrowdfundTyped
<1>2. due \in Int
  <2>1. IsFiniteSet(S) BY CrowdfundAssumption, FS_Subset
  <2>2. \A a \in S : pledgeOf[a] \in Int BY <1>1
  <2>3. QED BY <2>1, <2>2, SumBasics
<1>3. Pledges' = Pledges - due
  <2>1. \A a \in Backers : pledgeOf'[a] = IF a \in S THEN 0 ELSE pledgeOf[a] BY DEF PayBack
  <2>2. QED BY <1>1, <2>1, CrowdfundAssumption, SumCleared DEF Pledges
<1>4. /\ Pledges \in Int /\ AltPledges = altPledged["own"] + altPledged["other"]
      /\ altPledged["own"] \in Nat /\ altPledged["other"] \in Nat
  BY <1>0, PledgeSums
<1>5. due >= 0
  <2>1. IsFiniteSet(S) BY CrowdfundAssumption, FS_Subset
  <2>2. \A a \in S : pledgeOf[a] \in Nat BY <1>1
  <2>3. QED BY <2>1, <2>2, SumNat
<1>6. CrowdfundTyped'
  <2>1. pledgeOf' \in [Backers -> Nat] BY <1>1 DEF PayBack
  <2>2. pot' \in Int /\ totalPledged' \in Int BY <1>1, <1>2 DEF PayBack
  <2>3. QED BY <1>0, <2>1, <2>2 DEF CrowdfundTyped, PayBack
<1>7. /\ pot' = pot - due /\ altPledged' = altPledged /\ AltPledges' = AltPledges
      /\ UNCHANGED <<fundsClaimed, called_off, released, campaign, now>>
  BY DEF PayBack, AltPledges
<1> HIDE DEF due
<1>8. PledgesCovered'
  BY <1>0, <1>1, <1>2, <1>3, <1>4, <1>5, <1>7 DEF PledgesCovered
<1>9. CASE totalPledged' = totalPledged /\ (fundsClaimed => called_off)
  BY <1>0, <1>1, <1>2, <1>3, <1>4, <1>5, <1>6, <1>7, <1>8, <1>9
     DEF CrowdfundInv, TotalCoversPledges, ClaimedWhenDue, ClaimOrRefund, GoalMet, Running, AltPledges
<1>10. CASE totalPledged' = totalPledged - due /\ ~fundsClaimed
  BY <1>0, <1>1, <1>2, <1>3, <1>4, <1>5, <1>6, <1>7, <1>8, <1>10
     DEF CrowdfundInv, TotalCoversPledges, ClaimedWhenDue, ClaimOrRefund, GoalMet, Running, AltPledges
<1>11. QED BY <1>9, <1>10 DEF due

\* The creator's claim: the pot covers the total only while nothing was paid out.
LEMMA ClaimFundsInv ==
    ASSUME CrowdfundInv, ClaimFunds
    PROVE  CrowdfundInv'
<1>0. CrowdfundTyped /\ PledgesCovered /\ TotalCoversPledges BY DEF CrowdfundInv
<1>1. /\ Pledges \in Int /\ AltPledges = altPledged["own"] + altPledged["other"]
      /\ altPledged["own"] \in Nat /\ altPledged["other"] \in Nat
  BY <1>0, PledgeSums
<1>2. pot \in Int /\ totalPledged \in Int /\ released \in Nat BY <1>0 DEF CrowdfundTyped
<1>3. Pledges + AltPledges = totalPledged /\ released = 0 /\ pot = totalPledged
  <2>1. pot + released = Pledges + altPledged["own"] BY <1>0 DEF ClaimFunds, PledgesCovered
  <2>2. totalPledged >= Pledges + (altPledged["own"] + altPledged["other"]) BY <1>0, <1>1 DEF TotalCoversPledges
  <2>3. pot >= totalPledged BY DEF ClaimFunds
  <2>4. QED BY <1>1, <1>2, <2>1, <2>2, <2>3
<1>4. CrowdfundTyped' BY <1>0, <1>2 DEF CrowdfundTyped, ClaimFunds
<1>5. /\ UNCHANGED <<Pledges, AltPledges, totalPledged, GoalMet, Running, released>> /\ GoalMet /\ ~Running
      /\ fundsClaimed'
  BY DEF ClaimFunds, Pledges, AltPledges, GoalMet, Running
<1>6. pot' = 0 BY <1>2, <1>3 DEF ClaimFunds
<1>7. QED
  BY <1>1, <1>2, <1>3, <1>4, <1>5, <1>6 DEF CrowdfundInv, PledgesCovered, TotalCoversPledges,
                    ClaimedWhenDue, ClaimOrRefund, AltPledges

\* A milestone moves money from the pot to the creator, and nothing after a claim.
LEMMA ReleaseCampaignMilestoneInv ==
    ASSUME CrowdfundInv, NEW i \in DOMAIN milestones, ReleaseCampaignMilestone(i)
    PROVE  CrowdfundInv'
<1>0. CrowdfundTyped /\ PledgesCovered /\ TotalCoversPledges /\ ClaimedWhenDue /\ ClaimOrRefund
  BY DEF CrowdfundInv
<1>1. milestones[i] \in Nat /\ pot \in Int /\ released \in Nat BY <1>0 DEF CrowdfundTyped
<1>2. Pledges \in Int /\ altPledged["own"] \in Nat BY <1>0, PledgeSums
<1>3. CrowdfundTyped' BY <1>0, <1>1 DEF CrowdfundTyped, ReleaseCampaignMilestone
<1>4. /\ UNCHANGED <<Pledges, AltPledges, altPledged, totalPledged, fundsClaimed, called_off, GoalMet, Running>>
      /\ pot >= milestones[i] /\ pot' = pot - milestones[i] /\ released' = released + milestones[i]
  BY DEF ReleaseCampaignMilestone, Pledges, AltPledges, GoalMet, Running
<1>5. PledgesCovered' BY <1>0, <1>1, <1>2, <1>4 DEF PledgesCovered
<1>6. ClaimOrRefund' BY <1>0, <1>1, <1>4 DEF ClaimOrRefund, AltPledges
<1>7. QED
  BY <1>0, <1>3, <1>4, <1>5, <1>6 DEF CrowdfundInv, TotalCoversPledges, ClaimedWhenDue

\* Every step of the campaign keeps the invariant.
LEMMA CrowdfundInduction == CrowdfundInv /\ [CrowdfundNext]_crowdfundVars => CrowdfundInv'
<1> SUFFICES ASSUME CrowdfundInv, [CrowdfundNext]_crowdfundVars PROVE CrowdfundInv' OBVIOUS
<1> USE CrowdfundAssumption
<1>0. CrowdfundTyped /\ ClaimedWhenDue /\ now \in Nat /\ campaign \in CampaignTerms /\ milestones \in Seq(Nat)
  BY DEF CrowdfundInv, CrowdfundTyped
<1>00. fundsClaimed => now > campaign.deadline
  BY <1>0 DEF ClaimedWhenDue, Running, CampaignTerms
<1>1. CASE InitializeCampaign \/ CancelCampaign \/ UNCHANGED crowdfundVars \/ \E T \in SUBSET PledgeTokens : WhitelistTokens(T)
  <2>1. CASE CancelCampaign
    <3>1. ~fundsClaimed BY <2>1, <1>0 DEF CancelCampaign, ClaimedWhenDue
    <3>2. UNCHANGED <<now, campaign, totalPledged, fundsClaimed, pledgeOf, altPledged, pot, milestones, released>>
          /\ called_off' \in BOOLEAN
      BY <2>1 DEF CancelCampaign
    <3>3. QED
      BY <3>1, <3>2 DEF CrowdfundInv, CrowdfundTyped, PledgesCovered, TotalCoversPledges,
             ClaimedWhenDue, ClaimOrRefund, Pledges, AltPledges, GoalMet, Running
  <2>2. CASE InitializeCampaign BY <2>2, <1>0, <1>00, CrowdfundQuiet DEF InitializeCampaign
  <2>3. CASE UNCHANGED crowdfundVars BY <2>3, <1>0, <1>00, CrowdfundQuiet DEF crowdfundVars, crowdfundOnlyVars
  <2>4. CASE \E T \in SUBSET PledgeTokens : WhitelistTokens(T)
    BY <2>4, <1>0, <1>00, CrowdfundQuiet DEF WhitelistTokens
  <2>5. QED BY <1>1, <2>1, <2>2, <2>3, <2>4
<1>2. ASSUME NEW a \in Backers, NEW x \in PledgeAmounts, NEW i \in {NoTier} \cup TierIds, Pledge(a, x, i)
      PROVE  CrowdfundInv'
  BY <1>2, PledgeInv DEF Pledge
<1>3. ASSUME NEW a \in Backers, NEW t \in PledgeTokens, NEW x \in PledgeAmounts, PledgeWithToken(a, t, x)
      PROVE  CrowdfundInv'
  BY <1>3, PledgeInv DEF PledgeWithToken
<1>4. ASSUME NEW a \in Backers, WithdrawPledge(a) PROVE CrowdfundInv'
  <2>1. {a} \in SUBSET Backers OBVIOUS
  <2>2. SumFunctionOnSet(pledgeOf, {a}) = pledgeOf[a] BY <1>0, SumSingle DEF CrowdfundTyped
  <2>3. ~fundsClaimed BY <1>4, <1>0 DEF WithdrawPledge, ClaimedWhenDue
  <2>4. PayBack({a}) /\ totalPledged' = totalPledged - pledgeOf[a] BY <1>4 DEF WithdrawPledge
  <2>5. QED BY <2>1, <2>2, <2>3, <2>4, PayBackInv
<1>5. ASSUME NEW a \in Backers, RefundPledge(a) PROVE CrowdfundInv'
  <2>1. {a} \in SUBSET Backers OBVIOUS
  <2>2. PayBack({a}) /\ totalPledged' = totalPledged BY <1>5 DEF RefundPledge
  <2>3. fundsClaimed => called_off BY <1>5, <1>0 DEF RefundPledge, ClaimedWhenDue
  <2>4. QED BY <2>1, <2>2, <2>3, PayBackInv
<1>6. ASSUME NEW dl \in NewDeadlines, ExtendCampaign(dl) PROVE CrowdfundInv'
  <2>1. ~fundsClaimed BY <1>6, <1>0 DEF ExtendCampaign, ClaimedWhenDue
  <2>2. campaign' \in CampaignTerms /\ campaign'.goal = campaign.goal
    BY <1>6, <1>0 DEF ExtendCampaign, CampaignTerms
  <2>3. QED BY <1>6, <1>0, <2>1, <2>2, CrowdfundQuiet DEF ExtendCampaign
<1>7. CASE ClaimFunds BY <1>7, ClaimFundsInv
<1>8. ASSUME NEW list \in RefundLists, RefundBatch(list) PROVE CrowdfundInv'
  <2>1. {list[i] : i \in DOMAIN list} \in SUBSET Backers
    <3>1. list \in Seq(Backers) OBVIOUS
    <3>2. QED BY <3>1
  <2>2. PayBack({list[i] : i \in DOMAIN list}) /\ totalPledged' = totalPledged BY <1>8 DEF RefundBatch
  <2>3. fundsClaimed => called_off BY <1>8, <1>0 DEF RefundBatch, ClaimedWhenDue
  <2>4. QED BY <2>1, <2>2, <2>3, PayBackInv
<1>9. ASSUME NEW list \in MilestoneLists, SetMilestones(list) PROVE CrowdfundInv'
  BY <1>9, <1>0, <1>00, CrowdfundQuiet DEF SetMilestones
<1>10. ASSUME NEW i \in DOMAIN milestones, ReleaseCampaignMilestone(i) PROVE CrowdfundInv'
  BY <1>10, ReleaseCampaignMilestoneInv
<1>11. CASE LedgerCloses /\ UNCHANGED crowdfundOnlyVars
  <2>1. now' = now + 1 /\ UNCHANGED <<totalPledged, fundsClaimed, called_off, pledgeOf, altPledged, pot,
                                      milestones, released, campaign>>
    BY <1>11 DEF LedgerCloses, crowdfundOnlyVars
  <2>2. fundsClaimed => now' > campaign'.deadline BY <2>1, <1>0, <1>00 DEF CampaignTerms
  <2>3. QED BY <2>1, <2>2, <1>0, CrowdfundQuiet
<1>12. QED
  BY <1>1, <1>2, <1>3, <1>4, <1>5, <1>6, <1>7, <1>8, <1>9, <1>10, <1>11 DEF CrowdfundNext

\* The invariant holds when the contract is installed.
LEMMA CrowdfundStart == CrowdfundInit => CrowdfundInv
<1> SUFFICES ASSUME CrowdfundInit PROVE CrowdfundInv OBVIOUS
<1> USE DEF CrowdfundInit
<1>1. CrowdfundTyped
  <2>1. campaign \in CampaignTerms BY CrowdfundAssumption
  <2>2. pledgeOf \in [Backers -> Nat] /\ altPledged \in [PledgeTokens -> Nat] OBVIOUS
  <2>3. now \in Nat /\ totalPledged \in Int /\ pot \in Int /\ released \in Nat OBVIOUS
  <2>4. fundsClaimed \in BOOLEAN /\ called_off \in BOOLEAN OBVIOUS
  <2>5. milestones \in Seq(Nat) OBVIOUS
  <2> HIDE DEF CrowdfundInit
  <2>6. QED BY <2>1, <2>2, <2>3, <2>4, <2>5 DEF CrowdfundTyped
<1>2. Pledges = 0
  <2>1. \A a \in Backers : pledgeOf[a] = 0 OBVIOUS
  <2>2. QED BY <2>1, CrowdfundAssumption, SumOfZeros DEF Pledges
<1>3. altPledged["own"] = 0 /\ altPledged["other"] = 0 BY DEF PledgeTokens
<1>4. AltPledges = 0 BY <1>1, <1>3, PledgeSums
<1>5. QED
  BY <1>1, <1>2, <1>3, <1>4
     DEF CrowdfundInv, PledgesCovered, TotalCoversPledges, ClaimedWhenDue, ClaimOrRefund

\* Until the creator claims, the pot and the milestones released are exactly the
\* recorded pledges, for any backers, amounts, refund lists and interleaving.
THEOREM PledgesAreCovered == CrowdfundSpec => []PledgesCovered
<1>1. CrowdfundInv => PledgesCovered BY DEF CrowdfundInv
<1>2. QED BY <1>1, CrowdfundStart, CrowdfundInduction, PTL DEF CrowdfundSpec

\* A claim on a campaign that is not cancelled takes all of it: no backer was paid
\* back and no milestone released before, and nothing leaves afterwards.
THEOREM CreatorOrBackersPaid == CrowdfundSpec => []ClaimOrRefund
<1>1. CrowdfundInv => ClaimOrRefund BY DEF CrowdfundInv
<1>2. QED BY <1>1, CrowdfundStart, CrowdfundInduction, PTL DEF CrowdfundSpec

----
(* Auction.                                                                *)

Refunds == SumFunctionOnSet(pendingBack, Bidders)

AuctionTyped ==
    /\ now \in Nat /\ auction \in AuctionTerms
    /\ started \in BOOLEAN /\ settled \in BOOLEAN /\ cancelled \in BOOLEAN /\ resold \in BOOLEAN
    /\ topBidder \in Bidders \cup {None} /\ topBid \in Int
    /\ pendingBack \in [Bidders -> Int] /\ sellerDue \in Int /\ bidHeld \in Int

\* What start and start_dutch checked, and what bids add to it: before an auction
\* starts and until a descending one is sold nobody leads, a leader offers at least
\* the starting price, and a leading bid that waits for the end is below the
\* buy-it-now price.
BidsInOrder ==
    /\ ~started => topBidder = None /\ ~settled /\ ~cancelled
    /\ started /\ Dutch => auction.deadline > auction.last
    /\ Dutch /\ ~settled => topBidder = None
    /\ started /\ ~Dutch => auction.step > 0
    /\ topBidder # None /\ ~Dutch => topBid >= auction.start
    /\ topBidder # None /\ ~Dutch /\ ~settled => ~BoughtNow

AuctionInv == AuctionTyped /\ BidsInOrder /\ BidsBacked /\ LotFollowsMoney

\* The candidate terms, field by field.
LEMMA TermTypes ==
    ASSUME AuctionTyped
    PROVE  /\ auction.start \in Int /\ auction.step \in Int /\ auction.fee \in Int
           /\ auction.reserve \in Int \cup {None} /\ auction.buyNow \in Int \cup {None}
           /\ auction.floor \in Int \cup {None} /\ auction.deadline \in Nat /\ auction.last \in Nat
           /\ auction.lot \in BOOLEAN
<1>1. auction \in AuctionTerms BY DEF AuctionTyped
<1>2. QED BY <1>1, AuctionAssumption

\* The sum of the refunds is a number, and follows a change of one entry.
LEMMA RefundSums ==
    ASSUME NEW f \in [Bidders -> Int]
    PROVE  /\ SumFunctionOnSet(f, Bidders) \in Int
           /\ \A b \in Bidders, d \in Int :
                /\ [f EXCEPT ![b] = f[b] + d] \in [Bidders -> Int]
                /\ SumFunctionOnSet([f EXCEPT ![b] = f[b] + d], Bidders) = SumFunctionOnSet(f, Bidders) + d
<1>1. \A z \in Bidders : f[z] \in Int OBVIOUS
<1>2. SumFunctionOnSet(f, Bidders) \in Int BY <1>1, AuctionAssumption, SumBasics
<1>3. ASSUME NEW b \in Bidders, NEW d \in Int
      PROVE  /\ [f EXCEPT ![b] = f[b] + d] \in [Bidders -> Int]
             /\ SumFunctionOnSet([f EXCEPT ![b] = f[b] + d], Bidders) = SumFunctionOnSet(f, Bidders) + d
  <2> DEFINE g == [f EXCEPT ![b] = f[b] + d]
  <2>1. g[b] = f[b] + d /\ (\A z \in Bidders : z # b => g[z] = f[z]) /\ g \in [Bidders -> Int] OBVIOUS
  <2> HIDE DEF g
  <2>2. SumFunctionOnSet(g, Bidders) = SumFunctionOnSet(f, Bidders) + d
    BY <1>1, <2>1, AuctionAssumption, SumBump
  <2>3. QED BY <2>1, <2>2 DEF g
<1>4. QED BY <1>2, <1>3

\* The leader's bid joins the refunds.
LEMMA QueuedSum ==
    ASSUME AuctionTyped
    PROVE  /\ Queued \in [Bidders -> Int]
           /\ SumFunctionOnSet(Queued, Bidders) = Refunds + (IF topBidder = None THEN 0 ELSE topBid)
           /\ Refunds \in Int
<1>1. pendingBack \in [Bidders -> Int] /\ topBid \in Int /\ topBidder \in Bidders \cup {None} BY DEF AuctionTyped
<1>2. Refunds \in Int BY <1>1, RefundSums DEF Refunds
<1>3. CASE topBidder = None BY <1>1, <1>2, <1>3 DEF Queued, Refunds
<1>4. CASE topBidder # None
  <2>1. topBidder \in Bidders BY <1>1, <1>4
  <2>2. Queued = [pendingBack EXCEPT ![topBidder] = pendingBack[topBidder] + topBid] BY <1>4 DEF Queued
  <2>3. QED BY <1>1, <1>2, <1>4, <2>1, <2>2, RefundSums DEF Refunds
<1>5. QED BY <1>3, <1>4

\* A step that changes neither the books nor the auction's phase.
LEMMA AuctionQuiet ==
    ASSUME AuctionInv, now' \in Nat, UNCHANGED auctionOnlyVars
    PROVE  AuctionInv'
BY DEF AuctionInv, AuctionTyped, BidsInOrder, BidsBacked, LotFollowsMoney, auctionOnlyVars, Owed, LiveBid,
       Dutch, BoughtNow

\* The auction opens.
LEMMA StartInv ==
    ASSUME AuctionInv, Start
    PROVE  AuctionInv'
<1>0. AuctionTyped /\ BidsInOrder /\ BidsBacked BY DEF AuctionInv
<1>1. topBidder = None /\ ~settled /\ ~cancelled BY <1>0 DEF Start, BidsInOrder
<1>2. topBid' \in Int BY <1>0, TermTypes DEF Start
<1>3. started' = TRUE /\ UNCHANGED <<auction, topBidder, pendingBack, sellerDue, settled, cancelled, bidHeld, resold, now>>
  BY DEF Start
<1>4. AuctionTyped' BY <1>0, <1>2, <1>3 DEF AuctionTyped
<1>5. BidsInOrder' BY <1>1, <1>3 DEF BidsInOrder, Start, Dutch
<1>6. BidsBacked' BY <1>0, <1>1, <1>3 DEF BidsBacked, Owed, LiveBid
<1>7. LotFollowsMoney' BY <1>1, <1>3 DEF LotFollowsMoney
<1>8. QED BY <1>4, <1>5, <1>6, <1>7 DEF AuctionInv

\* A sale at the descending price.
LEMMA BuyNowInv ==
    ASSUME AuctionInv, NEW b \in Bidders, NEW x \in Int, BuyNow(b, x)
    PROVE  AuctionInv'
<1>0. AuctionTyped /\ BidsInOrder /\ BidsBacked BY DEF AuctionInv
<1>1. started /\ Dutch /\ ~settled /\ ~cancelled /\ topBidder = None /\ auction.deadline > auction.last
  BY <1>0 DEF BuyNow, BidsInOrder
<1>2. /\ settled' = TRUE /\ topBidder' = b /\ topBid' = PriceAt(auction)
      /\ UNCHANGED <<auction, started, pendingBack, sellerDue, cancelled, bidHeld, resold, now>>
  BY DEF BuyNow
<1>3. PriceAt(auction) \in Int
  <2>1. auction.start \in Int /\ auction.floor \in Int /\ auction.deadline \in Nat /\ auction.last \in Nat
    BY <1>0, <1>1, TermTypes DEF Dutch
  <2>2. CASE now >= auction.deadline BY <2>1, <2>2 DEF PriceAt
  <2>3. CASE ~(now >= auction.deadline)
    <3> DEFINE d == auction.deadline - auction.last
               n == (auction.start - auction.floor) * (now - auction.last)
    <3>1. d \in Nat \ {0} BY <1>1, <2>1
    <3>2. n \in Int
      <4>1. auction.start - auction.floor \in Int /\ now - auction.last \in Int BY <1>0, <2>1 DEF AuctionTyped
      <4>2. QED BY <4>1
    <3>3. n \div d \in Int BY <3>1, <3>2
    <3> HIDE DEF n, d
    <3>4. auction.start - n \div d \in Int BY <2>1, <3>3
    <3>5. QED BY <2>3, <3>4 DEF PriceAt, n, d
  <2>4. QED BY <2>2, <2>3
<1>4. AuctionTyped' BY <1>0, <1>2, <1>3 DEF AuctionTyped
<1>5. BidsInOrder' BY <1>1, <1>2, AuctionAssumption DEF BidsInOrder, Dutch
<1>6. BidsBacked' BY <1>0, <1>1, <1>2 DEF BidsBacked, Owed, LiveBid
<1>7. LotFollowsMoney'
  <2>1. topBidder' # None /\ Dutch' BY <1>1, <1>2, AuctionAssumption DEF Dutch
  <2>2. auction.lot => lotAt' = b BY DEF BuyNow, ReleaseNft
  <2>3. QED BY <1>2, <2>1, <2>2 DEF LotFollowsMoney
<1>8. QED BY <1>4, <1>5, <1>6, <1>7 DEF AuctionInv

\* A bid: what it adds and the credit it uses up balance the refund it queues.
LEMMA PlaceBidInv ==
    ASSUME AuctionInv, NEW b \in Bidders, NEW x \in Int, NEW c \in BOOLEAN, PlaceBid(b, x, c)
    PROVE  AuctionInv'
<1> DEFINE credit == IF ~c THEN 0 ELSE IF Queued[b] < x THEN Queued[b] ELSE x
           sold == auction.buyNow # None /\ x >= auction.buyNow
<1>0. AuctionTyped /\ BidsInOrder /\ BidsBacked BY DEF AuctionInv
<1>1. /\ started /\ ~Dutch /\ ~cancelled
      /\ topBidder' = b /\ topBid' = x
      /\ pendingBack' = [Queued EXCEPT ![b] = Queued[b] - credit]
      /\ resold' = (resold \/ settled)
      /\ x >= IF topBid < auction.start THEN auction.start ELSE topBid + auction.step
      /\ UNCHANGED <<now, auction, started, sellerDue, cancelled>>
  BY DEF PlaceBid
<1>2. IF sold
      THEN settled' = TRUE /\ bidHeld' = bidHeld + (x - credit) - x /\ (auction.lot => lotAt' = b)
      ELSE bidHeld' = bidHeld + (x - credit) /\ UNCHANGED <<settled, lotAt>>
  BY DEF PlaceBid, ReleaseNft
<1>3. /\ Queued \in [Bidders -> Int]
      /\ SumFunctionOnSet(Queued, Bidders) = Refunds + (IF topBidder = None THEN 0 ELSE topBid)
      /\ Refunds \in Int
  BY <1>0, QueuedSum
<1>4. Queued[b] \in Int /\ credit \in Int BY <1>3
<1>5. topBid \in Int /\ sellerDue \in Int /\ bidHeld \in Int /\ auction.start \in Int /\ auction.step \in Int
      /\ b # None
  BY <1>0, TermTypes, AuctionAssumption DEF AuctionTyped
<1> HIDE DEF credit
<1>6. pendingBack' = [Queued EXCEPT ![b] = Queued[b] + (-credit)] /\ -credit \in Int
  <2>1. -credit \in Int /\ Queued[b] - credit = Queued[b] + (-credit) BY <1>4
  <2>2. QED BY <1>1, <2>1
<1>7. pendingBack' \in [Bidders -> Int] /\ Refunds' = Refunds + (IF topBidder = None THEN 0 ELSE topBid) - credit
  <2> DEFINE m == -credit
  <2>1. m \in Int /\ pendingBack' = [Queued EXCEPT ![b] = Queued[b] + m] BY <1>6
  <2> HIDE DEF m
  <2>2. pendingBack' \in [Bidders -> Int] /\ SumFunctionOnSet(pendingBack', Bidders) = SumFunctionOnSet(Queued, Bidders) + m
    <3>1. PICK q : q = Queued OBVIOUS
    <3>2. q \in [Bidders -> Int] BY <1>3, <3>1
    <3>3. /\ [q EXCEPT ![b] = q[b] + m] \in [Bidders -> Int]
          /\ SumFunctionOnSet([q EXCEPT ![b] = q[b] + m], Bidders) = SumFunctionOnSet(q, Bidders) + m
      BY <2>1, <3>2, RefundSums
    <3>4. QED BY <2>1, <3>1, <3>3
  <2>3. QED BY <1>3, <1>4, <1>5, <2>2 DEF Refunds, m
<1>8. AuctionTyped'
  <2>1. bidHeld' \in Int BY <1>2, <1>4, <1>5
  <2>2. settled' \in BOOLEAN /\ resold' \in BOOLEAN BY <1>0, <1>1, <1>2 DEF AuctionTyped
  <2>3. QED BY <1>0, <1>1, <1>7, <2>1, <2>2 DEF AuctionTyped
<1>9. BidsInOrder'
  <2>1. topBid' >= auction'.start
    <3>1. auction.step > 0 BY <1>0, <1>1 DEF BidsInOrder
    <3>2. QED BY <1>1, <1>5, <3>1
  <2>2. ~settled' => ~BoughtNow' BY <1>1, <1>2 DEF BoughtNow
  <2>3. QED BY <1>0, <1>1, <2>1, <2>2 DEF BidsInOrder, Dutch
<1>10. BidsBacked'
  <2>1. SUFFICES ASSUME ~resold, ~settled PROVE bidHeld' = Owed' BY <1>1 DEF BidsBacked
  <2>2. bidHeld = Refunds + sellerDue + (IF topBidder = None THEN 0 ELSE topBid)
    BY <1>0, <1>1, <2>1 DEF BidsBacked, Owed, LiveBid, Refunds
  <2>3. Owed' = Refunds' + sellerDue + (IF settled' THEN 0 ELSE x) BY <1>1, <1>5 DEF Owed, LiveBid, Refunds
  <2>4. CASE sold
    <3>1. settled' /\ bidHeld' = bidHeld + (x - credit) - x BY <1>2, <2>4
    <3>2. QED BY <1>3, <1>4, <1>5, <1>7, <2>2, <2>3, <3>1
  <2>5. CASE ~sold
    <3>1. ~settled' /\ bidHeld' = bidHeld + (x - credit) BY <1>2, <2>1, <2>5
    <3>2. QED BY <1>3, <1>4, <1>5, <1>7, <2>2, <2>3, <3>1
  <2>6. QED BY <2>4, <2>5
<1>11. LotFollowsMoney'
  <2>1. CASE sold BY <1>1, <1>2, <1>5, <2>1 DEF LotFollowsMoney, BoughtNow
  <2>2. CASE ~sold BY <1>1, <1>2, <2>2 DEF LotFollowsMoney
  <2>3. QED BY <2>1, <2>2
<1>12. QED BY <1>8, <1>9, <1>10, <1>11 DEF AuctionInv

\* Cancelling turns the live bid, with the fee, into a refund.
LEMMA CancelAuctionInv ==
    ASSUME AuctionInv, CancelAuction
    PROVE  AuctionInv'
<1>0. AuctionTyped /\ BidsInOrder /\ BidsBacked BY DEF AuctionInv
<1>1. /\ started /\ ~settled /\ ~cancelled /\ cancelled' = TRUE
      /\ UNCHANGED <<now, auction, started, topBid, sellerDue, settled, resold>>
  BY DEF CancelAuction
<1>2. /\ Queued \in [Bidders -> Int]
      /\ SumFunctionOnSet(Queued, Bidders) = Refunds + (IF topBidder = None THEN 0 ELSE topBid)
      /\ Refunds \in Int
  BY <1>0, QueuedSum
<1>3. topBid \in Int /\ sellerDue \in Int /\ bidHeld \in Int /\ auction.fee \in Int
      /\ topBidder \in Bidders \cup {None}
  BY <1>0, TermTypes DEF AuctionTyped
<1>4. /\ topBidder' = None /\ pendingBack' \in [Bidders -> Int] /\ bidHeld' \in Int
      /\ bidHeld' = bidHeld + (Refunds' - Refunds) - (IF topBidder = None THEN 0 ELSE topBid)
  <2>1. CASE topBidder = None
    <3>1. UNCHANGED <<topBidder, pendingBack, bidHeld>> BY <2>1 DEF CancelAuction
    <3>2. QED BY <1>0, <1>2, <1>3, <2>1, <3>1 DEF AuctionTyped, Refunds
  <2>2. CASE topBidder # None
    <3>1. /\ bidHeld' = bidHeld + auction.fee /\ topBidder' = None
          /\ pendingBack' = [Queued EXCEPT ![topBidder] = Queued[topBidder] + auction.fee]
      BY <2>2 DEF CancelAuction
    <3>2. topBidder \in Bidders BY <1>3, <2>2
    <3>3. /\ pendingBack' \in [Bidders -> Int]
          /\ SumFunctionOnSet(pendingBack', Bidders) = SumFunctionOnSet(Queued, Bidders) + auction.fee
      BY <1>2, <1>3, <3>1, <3>2, RefundSums, ZenonT(60)
    <3>4. QED BY <1>2, <1>3, <2>2, <3>1, <3>3 DEF Refunds
  <2>3. QED BY <2>1, <2>2
<1>5. AuctionTyped' BY <1>0, <1>1, <1>4 DEF AuctionTyped
<1>6. BidsInOrder' BY <1>0, <1>1, <1>4 DEF BidsInOrder, Dutch
<1>7. BidsBacked'
  <2>0. SUFFICES ASSUME ~resold PROVE bidHeld' = Owed' BY <1>1 DEF BidsBacked
  <2>1. Refunds' \in Int BY <1>4, RefundSums DEF Refunds
  <2>2. bidHeld = Refunds + sellerDue + (IF topBidder = None THEN 0 ELSE topBid)
    BY <1>0, <1>1, <2>0 DEF BidsBacked, Owed, LiveBid, Refunds
  <2>3. Owed' = Refunds' + sellerDue + 0 BY <1>1, <1>4 DEF Owed, LiveBid, Refunds
  <2>4. QED BY <1>2, <1>3, <1>4, <2>1, <2>2, <2>3
<1>8. LotFollowsMoney' BY <1>1 DEF LotFollowsMoney
<1>9. QED BY <1>5, <1>6, <1>7, <1>8 DEF AuctionInv

\* Cancelling in a batch, before any bid.
LEMMA CancelBatchInv ==
    ASSUME AuctionInv, NEW n, CancelAuctionsBatch(n)
    PROVE  AuctionInv'
<1>0. AuctionTyped /\ BidsInOrder /\ BidsBacked BY DEF AuctionInv
<1>1. /\ started /\ ~settled /\ topBidder = None /\ cancelled' = TRUE
      /\ UNCHANGED <<now, auction, started, topBidder, topBid, pendingBack, sellerDue, settled, bidHeld, resold>>
  BY DEF CancelAuctionsBatch
<1>2. AuctionTyped' BY <1>0, <1>1 DEF AuctionTyped
<1>3. BidsInOrder' BY <1>0, <1>1 DEF BidsInOrder, Dutch
<1>4. BidsBacked' BY <1>0, <1>1 DEF BidsBacked, Owed, LiveBid
<1>5. LotFollowsMoney' BY <1>1 DEF LotFollowsMoney
<1>6. QED BY <1>2, <1>3, <1>4, <1>5 DEF AuctionInv

\* Settlement after the deadline.
LEMMA EndInv ==
    ASSUME AuctionInv, NEW r \in BOOLEAN, NEW royalty \in Nat, End(r, royalty)
    PROVE  AuctionInv'
<1> DEFINE won == topBidder # None /\ topBid >= auction.start
           back == won /\ ReserveUnmet
           share == IF auction.lot /\ royalty < topBid THEN royalty ELSE 0
<1>0. AuctionTyped /\ BidsInOrder /\ BidsBacked BY DEF AuctionInv
<1>1. /\ started /\ ~Dutch /\ ~cancelled /\ ~settled /\ settled' = TRUE
      /\ auction.lot => lotAt' = IF won /\ ~back THEN topBidder ELSE "seller"
      /\ UNCHANGED <<now, auction, started, topBidder, topBid, pendingBack, cancelled, resold>>
  BY DEF End, ReleaseNft
<1>2. IF won /\ ~back
      THEN IF r THEN bidHeld' = bidHeld - topBid /\ UNCHANGED sellerDue
                ELSE bidHeld' = bidHeld - share /\ sellerDue' = sellerDue + topBid - share
      ELSE bidHeld' = (IF back THEN bidHeld - topBid ELSE bidHeld) /\ UNCHANGED sellerDue
  BY DEF End
<1>3. topBid \in Int /\ sellerDue \in Int /\ bidHeld \in Int /\ share \in Int /\ auction.start \in Int
      /\ pendingBack \in [Bidders -> Int]
  BY <1>0, TermTypes DEF AuctionTyped
<1>4. won <=> topBidder # None BY <1>0, <1>1 DEF BidsInOrder
<1> HIDE DEF won, share
<1>5. bidHeld' \in Int /\ sellerDue' \in Int
      /\ bidHeld' = bidHeld + (sellerDue' - sellerDue) - (IF won THEN topBid ELSE 0)
  <2>1. CASE ~won BY <1>2, <1>3, <2>1
  <2>2. CASE won /\ ReserveUnmet BY <1>2, <1>3, <2>2
  <2>3. CASE won /\ ~ReserveUnmet /\ r BY <1>2, <1>3, <2>3
  <2>4. CASE won /\ ~ReserveUnmet /\ ~r BY <1>2, <1>3, <2>4
  <2>5. QED BY <2>1, <2>2, <2>3, <2>4
<1>6. AuctionTyped' BY <1>0, <1>1, <1>5 DEF AuctionTyped
<1>7. BidsInOrder' BY <1>0, <1>1 DEF BidsInOrder, Dutch
<1>8. BidsBacked'
  <2>0. SUFFICES ASSUME ~resold PROVE bidHeld' = Owed' BY <1>1 DEF BidsBacked
  <2>1. Refunds \in Int BY <1>3, RefundSums DEF Refunds
  <2>2. bidHeld = Refunds + sellerDue + (IF won THEN topBid ELSE 0)
    BY <1>0, <1>1, <1>4, <2>0 DEF BidsBacked, Owed, LiveBid, Refunds
  <2>3. Owed' = Refunds + sellerDue' + 0 BY <1>1 DEF Owed, LiveBid, Refunds
  <2>4. QED BY <1>3, <1>5, <2>1, <2>2, <2>3
<1>9. LotFollowsMoney'
  <2>1. topBidder # None => ~BoughtNow BY <1>0, <1>1 DEF BidsInOrder
  <2>2. topBidder' # None => ~BoughtNow' BY <1>1, <2>1 DEF BoughtNow
  <2>3. auction.reserve \in Int \cup {None} BY <1>0, TermTypes
  <2>4. ReserveUnmet <=> ~(auction.reserve = None \/ topBid >= auction.reserve)
    BY <1>3, <2>3 DEF ReserveUnmet
  <2>5. ~Dutch' BY <1>1 DEF Dutch
  <2>6. QED BY <1>1, <1>4, <2>2, <2>4, <2>5 DEF LotFollowsMoney
<1>10. QED BY <1>6, <1>7, <1>8, <1>9 DEF AuctionInv

\* The withdrawals: of a refund, and of the seller's proceeds.
LEMMA WithdrawalsInv ==
    ASSUME AuctionInv, WithdrawSellerProceeds \/ \E b \in Bidders : WithdrawBid(b)
    PROVE  AuctionInv'
<1>0. AuctionTyped /\ BidsInOrder /\ BidsBacked /\ LotFollowsMoney BY DEF AuctionInv
<1>1. UNCHANGED <<now, auction, started, topBidder, topBid, settled, cancelled, lotAt, resold>>
  BY DEF WithdrawBid, WithdrawSellerProceeds
<1>2. topBid \in Int /\ sellerDue \in Int /\ bidHeld \in Int /\ pendingBack \in [Bidders -> Int] /\ Refunds \in Int
  BY <1>0, RefundSums DEF AuctionTyped, Refunds
<1>3. /\ pendingBack' \in [Bidders -> Int] /\ sellerDue' \in Int /\ bidHeld' \in Int /\ Refunds' \in Int
      /\ bidHeld' = bidHeld + (sellerDue' - sellerDue) + (Refunds' - Refunds)
  <2>1. CASE WithdrawSellerProceeds
    BY <1>2, <2>1 DEF WithdrawSellerProceeds, Refunds
  <2>2. ASSUME NEW b \in Bidders, WithdrawBid(b) PROVE <1>3!:
    <3> DEFINE m == -pendingBack[b]
    <3>1. m \in Int /\ pendingBack[b] \in Int BY <1>2
    <3>2. pendingBack' = [pendingBack EXCEPT ![b] = pendingBack[b] + m]
      <4>1. pendingBack[b] + m = 0 BY <3>1
      <4>2. QED BY <2>2, <4>1 DEF WithdrawBid
    <3> HIDE DEF m
    <3>3. pendingBack' \in [Bidders -> Int] /\ Refunds' = Refunds + m
      BY <1>2, <3>1, <3>2, RefundSums DEF Refunds
    <3>4. bidHeld' = bidHeld - pendingBack[b] /\ UNCHANGED sellerDue BY <2>2 DEF WithdrawBid
    <3>5. QED BY <1>2, <3>1, <3>3, <3>4 DEF m
  <2>3. QED BY <2>1, <2>2
<1>4. AuctionTyped' BY <1>0, <1>1, <1>3 DEF AuctionTyped
<1>5. BidsInOrder' BY <1>0, <1>1 DEF BidsInOrder, Dutch, BoughtNow
<1>6. BidsBacked'
  <2>0. SUFFICES ASSUME ~resold PROVE bidHeld' = Owed' BY <1>1 DEF BidsBacked
  <2>00. bidHeld = Owed BY <1>0, <2>0 DEF BidsBacked
  <2>1. LiveBid' = LiveBid /\ LiveBid \in Int BY <1>1, <1>2 DEF LiveBid
  <2>2. Owed = Refunds + sellerDue + LiveBid /\ Owed' = Refunds' + sellerDue' + LiveBid'
    BY DEF Owed, Refunds
  <2>3. QED BY <1>2, <1>3, <2>00, <2>1, <2>2
<1>7. LotFollowsMoney' BY <1>0, <1>1 DEF LotFollowsMoney, Dutch, BoughtNow
<1>8. QED BY <1>4, <1>5, <1>6, <1>7 DEF AuctionInv

\* Every step of the auction keeps the invariant.
LEMMA AuctionInduction == AuctionInv /\ [AuctionNext]_auctionVars => AuctionInv'
<1> SUFFICES ASSUME AuctionInv, [AuctionNext]_auctionVars PROVE AuctionInv' OBVIOUS
<1>0. now \in Nat BY DEF AuctionInv, AuctionTyped
<1>1. CASE Start BY <1>1, StartInv
<1>2. ASSUME NEW b \in Bidders, NEW x \in BidAmounts, BuyNow(b, x) PROVE AuctionInv'
  BY <1>2, BuyNowInv, AuctionAssumption
<1>3. ASSUME NEW b \in Bidders, NEW x \in BidAmounts, NEW c \in BOOLEAN, PlaceBid(b, x, c) PROVE AuctionInv'
  BY <1>3, PlaceBidInv, AuctionAssumption
<1>4. CASE CancelAuction BY <1>4, CancelAuctionInv
<1>5. ASSUME NEW n \in 1..2, CancelAuctionsBatch(n) PROVE AuctionInv' BY <1>5, CancelBatchInv
<1>6. ASSUME NEW r \in BOOLEAN, NEW x \in RoyaltyShares, End(r, x) PROVE AuctionInv'
  BY <1>6, EndInv, AuctionAssumption
<1>7. CASE WithdrawSellerProceeds \/ \E b \in Bidders : WithdrawBid(b) BY <1>7, WithdrawalsInv
<1>8. CASE LedgerCloses /\ UNCHANGED auctionOnlyVars BY <1>0, <1>8, AuctionQuiet DEF LedgerCloses
<1>9. CASE UNCHANGED auctionVars BY <1>0, <1>9, AuctionQuiet DEF auctionVars
<1>10. QED BY <1>1, <1>2, <1>3, <1>4, <1>5, <1>6, <1>7, <1>8, <1>9 DEF AuctionNext

\* The invariant holds when the contract is installed.
LEMMA AuctionStart == AuctionInit => AuctionInv
<1> SUFFICES ASSUME AuctionInit PROVE AuctionInv OBVIOUS
<1>1. AuctionTyped
  <2>1. started \in BOOLEAN /\ settled \in BOOLEAN /\ cancelled \in BOOLEAN /\ resold \in BOOLEAN
    BY DEF AuctionInit
  <2>2. pendingBack \in [Bidders -> Int] BY DEF AuctionInit
  <2>3. now \in Nat /\ topBid \in Int /\ sellerDue \in Int /\ bidHeld \in Int BY DEF AuctionInit
  <2>4. auction \in AuctionTerms /\ topBidder \in Bidders \cup {None} BY DEF AuctionInit
  <2>5. QED BY <2>1, <2>2, <2>3, <2>4 DEF AuctionTyped
<1>2. BidsInOrder /\ LotFollowsMoney BY DEF AuctionInit, BidsInOrder, LotFollowsMoney
<1>3. SumFunctionOnSet(pendingBack, Bidders) = 0
  <2>1. \A b \in Bidders : pendingBack[b] = 0 BY DEF AuctionInit
  <2>2. QED BY <2>1, AuctionAssumption, SumOfZeros
<1>4. BidsBacked BY <1>3 DEF AuctionInit, BidsBacked, Owed, LiveBid
<1>5. QED BY <1>1, <1>2, <1>4 DEF AuctionInv

\* The contract holds exactly the live bid, the refunds and the seller's proceeds,
\* for any number of bidders and any terms.
THEOREM BidsAreBacked == AuctionSpec => []BidsBacked
<1>1. AuctionInv => BidsBacked BY DEF AuctionInv
<1>2. QED BY <1>1, AuctionStart, AuctionInduction, PTL DEF AuctionSpec

\* The lot goes to whoever paid for it, and back to the seller when nobody did.
THEOREM LotGoesToThePayer == AuctionSpec => []LotFollowsMoney
<1>1. AuctionInv => LotFollowsMoney BY DEF AuctionInv
<1>2. QED BY <1>1, AuctionStart, AuctionInduction, PTL DEF AuctionSpec

----
(* Timelock.                                                               *)

TrancheRecords == [at : Nat, amount : Int]
TrancheLists == Seq(TrancheRecords)

\* The entries of a list of tranches.
LEMMA TrancheEntries ==
    ASSUME NEW plan \in TrancheLists
    PROVE  /\ DOMAIN plan = 1..Len(plan) /\ Len(plan) \in Nat
           /\ \A i \in DOMAIN plan : plan[i].at \in Nat /\ plan[i].amount \in Int
<1>1. \A i \in DOMAIN plan : plan[i] \in TrancheRecords BY DEF TrancheLists
<1>2. DOMAIN plan = 1..Len(plan) /\ Len(plan) \in Nat BY DEF TrancheLists
<1>3. QED BY <1>1, <1>2 DEF TrancheRecords

\* What a sum of tranche amounts is: it splits along subsets, and with positive
\* amounts only the empty one is not positive.
LEMMA TrancheTotals ==
    ASSUME NEW plan \in TrancheLists, NEW S \in SUBSET DOMAIN plan
    PROVE  /\ IsFiniteSet(S)
           /\ PlanTotal(plan, S) \in Int
           /\ S = {} => PlanTotal(plan, S) = 0
           /\ \A T \in SUBSET S : PlanTotal(plan, S) = PlanTotal(plan, T) + PlanTotal(plan, S \ T)
           /\ (\A i \in DOMAIN plan : plan[i].amount > 0) =>
                PlanTotal(plan, S) >= 0 /\ (S # {} => PlanTotal(plan, S) > 0)
<1> DEFINE f == [i \in DOMAIN plan |-> plan[i].amount]
<1>1. DOMAIN plan = 1..Len(plan) /\ Len(plan) \in Nat BY TrancheEntries
<1>2. IsFiniteSet(DOMAIN plan) BY <1>1, FS_Interval
<1>3. \A i \in DOMAIN plan : f[i] \in Int BY TrancheEntries
<1>4. ASSUME NEW T \in SUBSET DOMAIN plan
      PROVE  /\ IsFiniteSet(T)
             /\ PlanTotal(plan, T) = SumFunctionOnSet(f, T)
             /\ PlanTotal(plan, T) \in Int
             /\ T = {} => PlanTotal(plan, T) = 0
  <2> DEFINE g == [i \in T |-> plan[i].amount]
  <2>1. IsFiniteSet(T) BY <1>2, FS_Subset
  <2>2. \A i \in T : f[i] \in Int /\ g[i] = f[i] BY <1>3
  <2>3. PlanTotal(plan, T) = SumFunctionOnSet(g, T) BY DEF PlanTotal
  <2> HIDE DEF f, g
  <2>4. QED BY <2>1, <2>2, <2>3, SumBasics
<1> HIDE DEF f
<1>5. ASSUME NEW T \in SUBSET S
      PROVE  PlanTotal(plan, S) = PlanTotal(plan, T) + PlanTotal(plan, S \ T)
  <2>1. T \in SUBSET DOMAIN plan /\ S \ T \in SUBSET DOMAIN plan OBVIOUS
  <2>2. \A i \in S : f[i] \in Int BY <1>3
  <2>3. SumFunctionOnSet(f, S) = SumFunctionOnSet(f, T) + SumFunctionOnSet(f, S \ T)
    BY <1>4, <2>2, SumSplit
  <2>4. QED BY <1>4, <2>1, <2>3
<1>6. ASSUME \A i \in DOMAIN plan : plan[i].amount > 0
      PROVE  PlanTotal(plan, S) >= 0 /\ (S # {} => PlanTotal(plan, S) > 0)
  <2>1. \A i \in S : f[i] \in Nat /\ f[i] > 0 BY <1>3, <1>6 DEF f
  <2>2. SumFunctionOnSet(f, S) \in Nat /\ \A i \in S : f[i] <= SumFunctionOnSet(f, S)
    BY <1>4, <2>1, SumNat
  <2>3. QED BY <1>4, <2>1, <2>2
<1>7. QED BY <1>4, <1>5, <1>6

\* In an ascending list the first tranche matures first.
LEMMA FirstMaturesFirst ==
    ASSUME NEW plan \in TrancheLists, \A i \in DOMAIN plan : i # 1 => plan[i].at > plan[i - 1].at
    PROVE  \A i \in DOMAIN plan : plan[1].at <= plan[i].at
<1> DEFINE D == {n \in Nat : n + 1 \in DOMAIN plan => plan[1].at <= plan[n + 1].at}
<1>1. DOMAIN plan = 1..Len(plan) /\ Len(plan) \in Nat /\ \A i \in DOMAIN plan : plan[i].at \in Nat
  BY TrancheEntries
<1>2. 0 \in D BY <1>1
<1>3. ASSUME NEW n \in Nat, n \in D PROVE n + 1 \in D
  <2>1. SUFFICES ASSUME (n + 1) + 1 \in DOMAIN plan PROVE plan[1].at <= plan[(n + 1) + 1].at OBVIOUS
  <2>2. n + 1 \in DOMAIN plan /\ (n + 1) + 1 # 1 /\ ((n + 1) + 1) - 1 = n + 1 /\ 1 \in DOMAIN plan BY <1>1, <2>1
  <2>3. plan[(n + 1) + 1].at > plan[n + 1].at BY <2>1, <2>2
  <2>4. plan[1].at <= plan[n + 1].at BY <1>3, <2>2
  <2>5. QED BY <1>1, <2>1, <2>2, <2>3, <2>4
<1>4. \A n \in Nat : n \in D
  <2> HIDE DEF D
  <2>1. QED BY <1>2, <1>3, NumberInduction
<1>5. ASSUME NEW i \in DOMAIN plan PROVE plan[1].at <= plan[i].at
  <2>1. i - 1 \in Nat /\ (i - 1) + 1 = i BY <1>1
  <2>2. i - 1 \in D BY <1>4, <2>1
  <2>3. QED BY <2>1, <2>2
<1>6. QED BY <1>5

TimelockTyped ==
    /\ now \in Nat
    /\ lockState \in {"Uninit", "Active", "Released", "Cancelled"}
    /\ lockTerms \in [release : Nat, amount : Int, tranches : TrancheLists, staking : BOOLEAN]
    /\ paidOut \in SUBSET Tranches /\ staked \in Int
    /\ locked \in [LockTokens -> Int] /\ held \in [LockTokens -> Int]
    /\ purse \in [LockTokens -> Int] /\ received \in [LockTokens -> Int]
    /\ unlockAt \in [LockTokens -> Nat \cup {Unscheduled}]

\* Before initialization nothing has happened.
NothingLocked ==
    lockState = "Uninit" =>
        /\ lockTerms = NoLockTerms /\ paidOut = {} /\ staked = 0
        /\ \A t \in LockTokens : locked[t] = 0 /\ held[t] = 0 /\ received[t] = 0 /\ purse[t] = AdminFunds

\* The three kinds of lock are apart: one with tranches is not staked, and has
\* positive amounts that add up to Amount; the deposits that careful parties make
\* leave the other tokens out of a lock that is not plain.
KindsApart ==
    /\ lockState # "Uninit" => lockTerms.amount > 0
    /\ lockTerms.tranches # <<>> =>
         /\ ~lockTerms.staking
         /\ \A i \in Tranches : lockTerms.tranches[i].amount > 0 /\ unlockAt[Main] <= lockTerms.tranches[i].at
         /\ lockTerms.amount = TrancheSum(Tranches)
    /\ ~lockTerms.staking => staked = 0
    /\ ~Plain => \A t \in LockTokens : t # Main => held[t] = 0 /\ received[t] = 0

\* Where the tokens of an active lock are: released tranches with the beneficiary
\* and the rest inside; the principal inside or staked; for a plain lock every
\* token that left the admin inside or with the beneficiary.
PrincipalInPlace ==
    lockState = "Active" =>
        /\ lockTerms.tranches # <<>> => held[Main] = lockTerms.amount - TrancheSum(paidOut)
        /\ ~Plain => purse[Main] = AdminFunds - lockTerms.amount
        /\ lockTerms.staking => received[Main] = 0
        /\ Plain => /\ paidOut = {}
                    /\ \A t \in LockTokens : purse[t] + held[t] + received[t] = AdminFunds

\* Every locked or received token has its ledger, the main one no later than the
\* release ledger.
Scheduled ==
    /\ \A t \in LockTokens : unlockAt[t] = Unscheduled => locked[t] = 0 /\ received[t] = 0
    /\ lockState # "Uninit" => unlockAt[Main] \in Nat
    /\ lockState # "Uninit" /\ lockTerms.tranches = <<>> => unlockAt[Main] <= lockTerms.release

PaidAfterMaturity ==
    /\ lockTerms.tranches # <<>> => received[Main] = TrancheSum(paidOut) /\ paidOut \subseteq Matured
    /\ \A t \in LockTokens : received[t] > 0 => now >= unlockAt[t]

TimelockInv ==
    /\ TimelockTyped /\ NothingLocked /\ KindsApart /\ PrincipalInPlace /\ Scheduled /\ PaidAfterMaturity
    /\ ClosedInFull /\ ClaimsBacked

\* The parts of the invariant, and the types that the steps need.
TimelockFacts ==
    /\ TimelockTyped /\ NothingLocked /\ KindsApart /\ PrincipalInPlace /\ Scheduled /\ PaidAfterMaturity
    /\ ClosedInFull /\ ClaimsBacked
    /\ Main \in LockTokens
    /\ lockTerms.release \in Nat /\ lockTerms.amount \in Int /\ lockTerms.tranches \in TrancheLists
    /\ lockTerms.staking \in BOOLEAN

\* The invariant, taken apart.
LEMMA TimelockParts == TimelockInv => TimelockFacts
BY DEF TimelockFacts, TimelockInv, TimelockTyped, LockTokens

\* A ledger closes.
LEMMA TimelockQuiet ==
    ASSUME TimelockInv, now' \in Nat, now' >= now,
           UNCHANGED <<lockState, lockTerms, paidOut, staked, locked, unlockAt, held, purse, received>>
    PROVE  TimelockInv'
<1> USE DEF TimelockFacts
<1>0. TimelockFacts BY TimelockParts
<1>1. TimelockTyped' BY <1>0 DEF TimelockTyped, Tranches
<1>2. NothingLocked' /\ KindsApart' /\ PrincipalInPlace' /\ Scheduled' /\ ClosedInFull' /\ ClaimsBacked'
  BY <1>0 DEF NothingLocked, KindsApart, PrincipalInPlace, Scheduled, ClosedInFull, ClaimsBacked, Plain,
              Tranches, TrancheSum
<1>3. Matured \subseteq Matured'
  <2>1. \A i \in Tranches : lockTerms.tranches[i].at \in Nat BY <1>0, TrancheEntries DEF Tranches
  <2>2. QED BY <1>0, <2>1 DEF Matured, Tranches, TimelockTyped
<1>4. ASSUME NEW t \in LockTokens, received[t] > 0 PROVE now' >= unlockAt[t]
  <2>1. received[t] # 0 /\ unlockAt[t] \in Nat \cup {Unscheduled} /\ now \in Nat
    BY <1>0, <1>4 DEF TimelockTyped
  <2>2. unlockAt[t] \in Nat BY <1>0, <2>1 DEF Scheduled
  <2>3. now >= unlockAt[t] BY <1>0, <1>4 DEF PaidAfterMaturity
  <2>4. QED BY <2>1, <2>2, <2>3
<1>5. PaidAfterMaturity' BY <1>0, <1>3, <1>4 DEF PaidAfterMaturity, TrancheSum
<1>6. QED BY <1>1, <1>2, <1>5 DEF TimelockInv

\* The lock is set up.
LEMMA LockInv ==
    ASSUME TimelockInv, NEW x \in Int, NEW ledger \in Nat, NEW plan \in TrancheLists, NEW s \in BOOLEAN,
           Lock(x, ledger, plan, s),
           plan # <<>> => /\ ~s /\ x = PlanTotal(plan, DOMAIN plan)
                          /\ \A i \in DOMAIN plan : plan[i].amount > 0 /\ ledger <= plan[i].at
    PROVE  TimelockInv'
<1> USE DEF TimelockFacts
<1>0. TimelockFacts BY TimelockParts
<1>1. /\ lockTerms = NoLockTerms /\ paidOut = {} /\ staked = 0
      /\ \A t \in LockTokens : locked[t] = 0 /\ held[t] = 0 /\ received[t] = 0 /\ purse[t] = AdminFunds
  BY <1>0 DEF NothingLocked, Lock
<1>2. /\ x > 0 /\ lockState' = "Active"
      /\ lockTerms' = [release |-> ledger, amount |-> x, tranches |-> plan, staking |-> s]
      /\ locked' = [locked EXCEPT ![Main] = x] /\ unlockAt' = [unlockAt EXCEPT ![Main] = ledger]
      /\ held' = [held EXCEPT ![Main] = held[Main] + x] /\ purse' = [purse EXCEPT ![Main] = purse[Main] - x]
      /\ UNCHANGED <<now, paidOut, staked, received>>
  BY DEF Lock
<1>3. /\ locked \in [LockTokens -> Int] /\ held \in [LockTokens -> Int] /\ purse \in [LockTokens -> Int]
      /\ received \in [LockTokens -> Int] /\ unlockAt \in [LockTokens -> Nat \cup {Unscheduled}]
      /\ now \in Nat /\ AdminFunds \in Int
  BY <1>0, TimelockAssumption DEF TimelockTyped
<1>4. /\ lockTerms'.release = ledger /\ lockTerms'.amount = x /\ lockTerms'.tranches = plan
      /\ lockTerms'.staking = s
  BY <1>2
<1>5. \A t \in LockTokens : /\ locked'[t] = IF t = Main THEN x ELSE 0
                            /\ held'[t] = IF t = Main THEN x ELSE 0
                            /\ purse'[t] = IF t = Main THEN AdminFunds - x ELSE AdminFunds
                            /\ received'[t] = 0
                            /\ unlockAt'[t] = IF t = Main THEN ledger ELSE unlockAt[t]
  BY <1>0, <1>1, <1>2, <1>3
<1>6. PlanTotal(plan, {}) = 0 BY TrancheTotals
<1>7. TimelockTyped'
  <2>1. /\ locked' \in [LockTokens -> Int] /\ held' \in [LockTokens -> Int] /\ purse' \in [LockTokens -> Int]
        /\ unlockAt' \in [LockTokens -> Nat \cup {Unscheduled}]
    BY <1>0, <1>2, <1>3
  <2>2. lockTerms' \in [release : Nat, amount : Int, tranches : TrancheLists, staking : BOOLEAN] BY <1>2
  <2>3. QED BY <1>1, <1>2, <1>3, <2>1, <2>2 DEF TimelockTyped
<1>8. NothingLocked' BY <1>2 DEF NothingLocked
<1>9. KindsApart'
  <2>1. lockTerms'.amount > 0 /\ staked' = 0 BY <1>1, <1>2, <1>4
  <2>2. plan # <<>> => /\ ~s /\ x = PlanTotal(plan, DOMAIN plan)
                       /\ \A i \in DOMAIN plan : plan[i].amount > 0 /\ unlockAt'[Main] <= plan[i].at
    BY <1>0, <1>5
  <2>3. \A t \in LockTokens : t # Main => held'[t] = 0 /\ received'[t] = 0 BY <1>5
  <2>4. QED BY <1>4, <2>1, <2>2, <2>3 DEF KindsApart, Tranches, TrancheSum
<1>10. PrincipalInPlace'
  <2>1. TrancheSum(paidOut)' = 0 BY <1>1, <1>2, <1>4, <1>6 DEF TrancheSum
  <2>2. held'[Main] = x - 0 /\ purse'[Main] = AdminFunds - x /\ received'[Main] = 0 BY <1>0, <1>5
  <2>3. ASSUME NEW t \in LockTokens PROVE purse'[t] + held'[t] + received'[t] = AdminFunds
    <3>1. (AdminFunds - x) + x + 0 = AdminFunds /\ AdminFunds + 0 + 0 = AdminFunds BY <1>3
    <3>2. QED BY <1>5, <3>1
  <2>4. QED BY <1>1, <1>2, <1>4, <2>1, <2>2, <2>3 DEF PrincipalInPlace
<1>11. Scheduled'
  <2>1. \A t \in LockTokens : unlockAt'[t] = Unscheduled => locked'[t] = 0 /\ received'[t] = 0
    BY <1>5, TimelockAssumption
  <2>2. QED BY <1>0, <1>4, <1>5, <2>1 DEF Scheduled
<1>12. PaidAfterMaturity' BY <1>0, <1>1, <1>2, <1>4, <1>5, <1>6 DEF PaidAfterMaturity, TrancheSum
<1>13. ClosedInFull' BY <1>2 DEF ClosedInFull
<1>14. ClaimsBacked' BY <1>5 DEF ClaimsBacked
<1>15. QED BY <1>7, <1>8, <1>9, <1>10, <1>11, <1>12, <1>13, <1>14 DEF TimelockInv

\* Tokens go to the staking contract and come back.
LEMMA StakingMovesInv ==
    ASSUME TimelockInv, lockState = "Active", lockTerms.staking, NEW v \in Int, staked' \in Int,
           held' = [held EXCEPT ![Main] = v],
           UNCHANGED <<now, lockState, lockTerms, paidOut, locked, unlockAt, purse, received>>
    PROVE  TimelockInv'
<1> USE DEF TimelockFacts
<1>0. TimelockFacts BY TimelockParts
<1>1. ~Plain /\ lockTerms.tranches = <<>> BY <1>0 DEF KindsApart, Plain
<1>2. held' \in [LockTokens -> Int] /\ \A t \in LockTokens : t # Main => held'[t] = held[t]
  BY <1>0 DEF TimelockTyped
<1>3. TimelockTyped' BY <1>0, <1>2 DEF TimelockTyped, Tranches
<1>4. NothingLocked' /\ ClosedInFull' BY DEF NothingLocked, ClosedInFull
<1>5. KindsApart' BY <1>0, <1>1, <1>2 DEF KindsApart, Plain
<1>6. PrincipalInPlace' /\ ClaimsBacked' BY <1>0, <1>1 DEF PrincipalInPlace, ClaimsBacked, Plain
<1>7. Scheduled' BY <1>0 DEF Scheduled
<1>8. PaidAfterMaturity' BY <1>0, <1>1 DEF PaidAfterMaturity
<1>9. QED BY <1>3, <1>4, <1>5, <1>6, <1>7, <1>8 DEF TimelockInv

\* Further tokens are deposited into a plain lock.
LEMMA DepositInv ==
    ASSUME TimelockInv, NEW u \in LockTokens, NEW x \in Int, NEW ledger \in Nat, Deposit(u, x, ledger), Plain
    PROVE  TimelockInv'
<1> USE DEF TimelockFacts
<1>0. TimelockFacts BY TimelockParts
<1>1. /\ lockState = "Active" /\ x > 0 /\ ledger > now
      /\ purse' = [purse EXCEPT ![u] = purse[u] - x] /\ held' = [held EXCEPT ![u] = held[u] + x]
      /\ locked' = [locked EXCEPT ![u] = locked[u] + x]
      /\ unlockAt' = [unlockAt EXCEPT ![u] = IF unlockAt[u] = Unscheduled \/ ledger < unlockAt[u]
                                             THEN ledger ELSE unlockAt[u]]
      /\ UNCHANGED <<now, lockState, lockTerms, paidOut, staked, received>>
  BY DEF Deposit
<1>2. /\ locked \in [LockTokens -> Int] /\ held \in [LockTokens -> Int] /\ purse \in [LockTokens -> Int]
      /\ received \in [LockTokens -> Int] /\ unlockAt \in [LockTokens -> Nat \cup {Unscheduled}] /\ now \in Nat
  BY <1>0 DEF TimelockTyped
<1>3. /\ locked' \in [LockTokens -> Int] /\ held' \in [LockTokens -> Int] /\ purse' \in [LockTokens -> Int]
      /\ unlockAt' \in [LockTokens -> Nat \cup {Unscheduled}]
  BY <1>1, <1>2
<1>4. lockTerms.tranches = <<>> /\ ~lockTerms.staking /\ Plain' BY <1>1 DEF Plain
<1>5. \A t \in LockTokens :
        /\ t = u => /\ purse'[t] = purse[t] - x /\ held'[t] = held[t] + x /\ locked'[t] = locked[t] + x
                    /\ unlockAt'[t] \in Nat /\ unlockAt'[t] <= ledger
                    /\ unlockAt[t] # Unscheduled => unlockAt'[t] <= unlockAt[t]
                                                    /\ (ledger >= unlockAt[t] => unlockAt'[t] = unlockAt[t])
        /\ t # u => UNCHANGED <<purse[t], held[t], locked[t], unlockAt[t]>>
  <2>1. ASSUME NEW t \in LockTokens, t = u
        PROVE  /\ unlockAt'[t] \in Nat /\ unlockAt'[t] <= ledger
               /\ unlockAt[t] # Unscheduled => unlockAt'[t] <= unlockAt[t]
                                               /\ (ledger >= unlockAt[t] => unlockAt'[t] = unlockAt[t])
    <3>1. unlockAt'[t] = IF unlockAt[t] = Unscheduled \/ ledger < unlockAt[t] THEN ledger ELSE unlockAt[t]
      BY <1>1, <1>2, <2>1
    <3>2. CASE unlockAt[t] = Unscheduled BY <3>1, <3>2
    <3>3. CASE unlockAt[t] # Unscheduled
      <4>1. unlockAt[t] \in Nat BY <1>2, <3>3
      <4>2. QED BY <3>1, <3>3, <4>1
    <3>4. QED BY <3>2, <3>3
  <2>2. ASSUME NEW t \in LockTokens, t = u
        PROVE  purse'[t] = purse[t] - x /\ held'[t] = held[t] + x /\ locked'[t] = locked[t] + x
    BY <1>1, <1>2, <2>2
  <2>3. ASSUME NEW t \in LockTokens, t # u PROVE UNCHANGED <<purse[t], held[t], locked[t], unlockAt[t]>>
    BY <1>1, <1>2, <2>3
  <2>4. QED BY <2>1, <2>2, <2>3
<1>6. TimelockTyped' BY <1>0, <1>1, <1>3 DEF TimelockTyped, Tranches
<1>7. NothingLocked' /\ ClosedInFull' BY <1>1 DEF NothingLocked, ClosedInFull
<1>8. KindsApart' BY <1>0, <1>1, <1>4 DEF KindsApart
<1>9. PrincipalInPlace'
  <2>1. \A t \in LockTokens : purse[t] + held[t] + received[t] = AdminFunds /\ paidOut = {}
    BY <1>0, <1>1 DEF PrincipalInPlace
  <2>2. ASSUME NEW t \in LockTokens PROVE purse'[t] + held'[t] + received'[t] = AdminFunds
    <3>1. purse[t] \in Int /\ held[t] \in Int /\ received[t] \in Int BY <1>2
    <3>2. CASE t = u
      <4>1. purse'[t] = purse[t] - x /\ held'[t] = held[t] + x /\ received'[t] = received[t] BY <1>1, <1>5, <3>2
      <4>2. (purse[t] - x) + (held[t] + x) + received[t] = purse[t] + held[t] + received[t] BY <3>1
      <4>3. QED BY <2>1, <4>1, <4>2
    <3>3. CASE t # u BY <1>1, <1>5, <2>1, <3>3
    <3>4. QED BY <3>2, <3>3
  <2>3. QED BY <1>0, <1>1, <1>4, <2>1, <2>2 DEF PrincipalInPlace
<1>10. Scheduled'
  <2>1. ASSUME NEW t \in LockTokens, unlockAt'[t] = Unscheduled PROVE locked'[t] = 0 /\ received'[t] = 0
    <3>1. t # u BY <1>5, <2>1, TimelockAssumption
    <3>2. QED BY <1>0, <1>1, <1>5, <2>1, <3>1 DEF Scheduled
  <2>2. unlockAt[Main] \in Nat /\ unlockAt[Main] <= lockTerms.release BY <1>0, <1>1, <1>4 DEF Scheduled
  <2>3. unlockAt[Main] # Unscheduled BY <2>2, TimelockAssumption
  <2>4. unlockAt'[Main] \in Nat /\ unlockAt'[Main] <= unlockAt[Main]
    <3>1. CASE u = Main BY <1>0, <1>5, <2>3, <3>1
    <3>2. CASE u # Main BY <1>0, <1>5, <2>2, <3>2
    <3>3. QED BY <3>1, <3>2
  <2>5. unlockAt'[Main] <= lockTerms.release BY <1>0, <2>2, <2>4
  <2>6. QED BY <1>1, <2>1, <2>4, <2>5 DEF Scheduled
<1>11. PaidAfterMaturity'
  <2>1. ASSUME NEW t \in LockTokens, received[t] > 0 PROVE now >= unlockAt'[t]
    <3>1. now >= unlockAt[t] BY <1>0, <2>1 DEF PaidAfterMaturity
    <3>2. unlockAt[t] # Unscheduled
      <4>1. received[t] # 0 BY <1>2, <2>1
      <4>2. QED BY <1>0, <4>1 DEF Scheduled
    <3>3. unlockAt[t] \in Nat BY <1>2, <3>2
    <3>4. ledger >= unlockAt[t] BY <1>1, <1>2, <3>1, <3>3
    <3>5. unlockAt'[t] = unlockAt[t] BY <1>5, <3>2, <3>4
    <3>6. QED BY <3>1, <3>5
  <2>2. QED BY <1>1, <1>4, <2>1 DEF PaidAfterMaturity
<1>12. ClaimsBacked'
  <2>1. \A t \in LockTokens : held[t] = locked[t] BY <1>0, <1>1 DEF ClaimsBacked
  <2>2. \A t \in LockTokens : held'[t] = locked'[t] BY <1>5, <2>1
  <2>3. QED BY <2>2 DEF ClaimsBacked
<1>13. QED BY <1>6, <1>7, <1>8, <1>9, <1>10, <1>11, <1>12 DEF TimelockInv

\* The tranches that are due are paid out.
LEMMA ReleaseTranchesInv ==
    ASSUME TimelockInv, NEW u \in LockTokens, ReleaseTranches(u)
    PROVE  TimelockInv'
<1> DEFINE x == TrancheSum(Due)
<1> USE DEF TimelockFacts
<1>0. TimelockFacts BY TimelockParts
<1>1. /\ lockState = "Active" /\ lockTerms.tranches # <<>> /\ Due # {} /\ held[u] >= x
      /\ paidOut' = paidOut \cup Due
      /\ lockState' = IF paidOut' = Tranches THEN "Released" ELSE "Active"
      /\ held' = [held EXCEPT ![u] = held[u] - x] /\ received' = [received EXCEPT ![u] = received[u] + x]
      /\ UNCHANGED <<now, lockTerms, staked, locked, unlockAt, purse>>
  BY DEF ReleaseTranches
<1>2. /\ held \in [LockTokens -> Int] /\ received \in [LockTokens -> Int] /\ purse \in [LockTokens -> Int]
      /\ unlockAt \in [LockTokens -> Nat \cup {Unscheduled}] /\ now \in Nat /\ paidOut \in SUBSET Tranches
      /\ AdminFunds \in Int
  BY <1>0, TimelockAssumption DEF TimelockTyped
<1>3. /\ ~lockTerms.staking /\ ~Plain /\ staked = 0 /\ lockTerms.amount = TrancheSum(Tranches)
      /\ \A i \in Tranches : lockTerms.tranches[i].amount > 0 /\ unlockAt[Main] <= lockTerms.tranches[i].at
      /\ \A t \in LockTokens : t # Main => held[t] = 0 /\ received[t] = 0
  BY <1>0, <1>1 DEF KindsApart, Plain
<1>4. Due \subseteq Tranches /\ Due \cap paidOut = {} BY DEF Due
<1>5. /\ x \in Int /\ x > 0
      /\ TrancheSum(paidOut) \in Int /\ TrancheSum(Tranches) \in Int
      /\ TrancheSum(paidOut \cup Due) = TrancheSum(paidOut) + x
  <2>1. Due \in SUBSET Tranches /\ paidOut \in SUBSET Tranches /\ paidOut \cup Due \in SUBSET Tranches
        /\ Tranches \in SUBSET Tranches
    BY <1>2, <1>4
  <2>2. \A S \in SUBSET Tranches :
          /\ TrancheSum(S) \in Int
          /\ \A T \in SUBSET S : TrancheSum(S) = TrancheSum(T) + TrancheSum(S \ T)
          /\ S # {} => TrancheSum(S) > 0
    BY <1>0, <1>3, TrancheTotals DEF TrancheSum, Tranches
  <2>3. (paidOut \cup Due) \ paidOut = Due /\ paidOut \in SUBSET (paidOut \cup Due) BY <1>4
  <2>4. TrancheSum(paidOut \cup Due) = TrancheSum(paidOut) + TrancheSum((paidOut \cup Due) \ paidOut)
    BY <2>1, <2>2, <2>3
  <2>5. QED BY <1>1, <2>1, <2>2, <2>3, <2>4
<1> HIDE DEF x
<1>6. u = Main BY <1>1, <1>3, <1>5
<1>7. /\ held' \in [LockTokens -> Int] /\ received' \in [LockTokens -> Int]
      /\ held'[Main] = held[Main] - x /\ received'[Main] = received[Main] + x
      /\ \A t \in LockTokens : t # Main => held'[t] = 0 /\ received'[t] = 0
  BY <1>1, <1>2, <1>3, <1>5, <1>6
<1>8. /\ held[Main] = lockTerms.amount - TrancheSum(paidOut) /\ received[Main] = TrancheSum(paidOut)
      /\ paidOut \subseteq Matured /\ purse[Main] = AdminFunds - lockTerms.amount
  BY <1>0, <1>1, <1>3 DEF PrincipalInPlace, PaidAfterMaturity
<1>9. TrancheSum(paidOut)' = TrancheSum(paidOut) + x BY <1>1, <1>5 DEF TrancheSum
<1>10. UNCHANGED <<Tranches, Plain>> /\ lockTerms'.tranches # <<>> BY <1>1 DEF Tranches, Plain
<1>11. TimelockTyped'
  <2>1. paidOut' \in SUBSET Tranches BY <1>1, <1>2, <1>4
  <2>2. lockState' \in {"Released", "Active"} BY <1>1
  <2>3. QED BY <1>0, <1>1, <1>7, <1>10, <2>1, <2>2 DEF TimelockTyped
<1>12. NothingLocked' BY <1>1 DEF NothingLocked
<1>13. KindsApart'
  <2>1. lockTerms'.amount > 0 BY <1>0, <1>1 DEF KindsApart
  <2>2. lockTerms'.amount = TrancheSum(Tranches)' BY <1>1, <1>3, <1>10 DEF TrancheSum
  <2>3. QED BY <1>1, <1>3, <1>7, <1>10, <2>1, <2>2 DEF KindsApart
<1>14. PrincipalInPlace'
  <2>1. held'[Main] = lockTerms.amount - (TrancheSum(paidOut) + x) BY <1>0, <1>5, <1>7, <1>8
  <2>2. QED BY <1>1, <1>3, <1>8, <1>9, <1>10, <2>1 DEF PrincipalInPlace
<1>15. unlockAt[Main] \in Nat /\ now >= unlockAt[Main]
  <2>1. PICK i \in Due : TRUE BY <1>1
  <2>2. i \in Tranches /\ now >= lockTerms.tranches[i].at BY <2>1 DEF Due
  <2>3. unlockAt[Main] <= lockTerms.tranches[i].at BY <1>3, <2>2
  <2>4. lockTerms.tranches[i].at \in Nat BY <1>0, <2>2, TrancheEntries DEF Tranches
  <2>5. unlockAt[Main] \in Nat BY <1>0, <1>1 DEF Scheduled
  <2>6. QED BY <1>2, <2>2, <2>3, <2>4, <2>5
<1>16. Scheduled'
  <2>1. unlockAt[Main] # Unscheduled BY <1>15, TimelockAssumption
  <2>2. \A t \in LockTokens : unlockAt[t] = Unscheduled => locked[t] = 0 /\ received'[t] = 0
    BY <1>0, <1>7, <2>1 DEF Scheduled
  <2>3. QED BY <1>1, <1>15, <2>2 DEF Scheduled
<1>17. PaidAfterMaturity'
  <2>1. Due \subseteq Matured
    <3>1. \A i \in Tranches : lockTerms.tranches[i].at \in Nat BY <1>0, TrancheEntries DEF Tranches
    <3>2. QED BY <1>2, <3>1 DEF Due, Matured
  <2>2. paidOut' \subseteq Matured' BY <1>1, <1>8, <2>1 DEF Matured, Tranches
  <2>3. received'[Main] = TrancheSum(paidOut)' BY <1>7, <1>8, <1>9
  <2>4. \A t \in LockTokens : received'[t] > 0 => now' >= unlockAt'[t]
    BY <1>1, <1>7, <1>15
  <2>5. QED BY <2>2, <2>3, <2>4 DEF PaidAfterMaturity
<1>18. ClosedInFull'
  <2>1. SUFFICES ASSUME lockState' = "Released"
        PROVE  received'[Main] = lockTerms'.amount /\ held'[Main] = 0 /\ staked' = 0
    BY <1>1 DEF ClosedInFull
  <2>2. paidOut \cup Due = Tranches BY <1>1, <2>1
  <2>3. TrancheSum(paidOut) + x = lockTerms.amount BY <1>3, <1>5, <2>2
  <2>4. received'[Main] = lockTerms.amount BY <1>7, <1>8, <2>3
  <2>5. held'[Main] = lockTerms.amount - TrancheSum(paidOut) - x BY <1>7, <1>8
  <2>6. held'[Main] = 0 BY <1>0, <1>5, <2>3, <2>5
  <2>7. QED BY <1>1, <1>3, <2>4, <2>6
<1>19. ClaimsBacked' BY <1>3, <1>10 DEF ClaimsBacked
<1>20. QED
  BY <1>11, <1>12, <1>13, <1>14, <1>16, <1>17, <1>18, <1>19 DEF TimelockInv

\* A lock without tranches is paid out in one go, untouched if it is plain.
LEMMA ReleaseAllInv ==
    ASSUME TimelockInv, NEW u \in LockTokens, NEW y \in Nat, ReleaseAll(u, y), Untouched
    PROVE  TimelockInv'
<1> DEFINE after == IF staked # 0 THEN [held EXCEPT ![Main] = held[Main] + staked + y] ELSE held
           x == lockTerms.amount
<1> USE DEF TimelockFacts
<1>0. TimelockFacts BY TimelockParts
<1>1. /\ lockState = "Active" /\ lockTerms.tranches = <<>> /\ now >= lockTerms.release /\ after[u] >= x
      /\ lockState' = "Released" /\ staked' = 0
      /\ held' = [after EXCEPT ![u] = IF lockTerms.staking THEN 0 ELSE after[u] - x]
      /\ received' = [received EXCEPT ![u] = received[u] + x]
      /\ UNCHANGED <<now, lockTerms, paidOut, locked, unlockAt, purse>>
  BY DEF ReleaseAll
<1>2. /\ held \in [LockTokens -> Int] /\ received \in [LockTokens -> Int] /\ staked \in Int
      /\ now \in Nat /\ unlockAt \in [LockTokens -> Nat \cup {Unscheduled}]
  BY <1>0 DEF TimelockTyped
<1>3. after \in [LockTokens -> Int] /\ \A t \in LockTokens : t # Main => after[t] = held[t]
  BY <1>0, <1>2
<1>4. x \in Int /\ x > 0 BY <1>0, <1>1 DEF KindsApart
<1>5. \A t \in LockTokens : t # Main => held[t] = 0 /\ received[t] = 0
  <2>1. CASE Plain
    <3>1. \A t \in LockTokens : held[t] = locked[t] BY <1>0, <1>1, <2>1 DEF ClaimsBacked
    <3>2. QED BY <2>1, <3>1 DEF Untouched
  <2>2. CASE ~Plain BY <1>0, <2>2 DEF KindsApart
  <2>3. QED BY <2>1, <2>2
<1>6. received[Main] = 0
  <2>1. CASE Plain BY <1>0, <2>1 DEF Untouched
  <2>2. CASE ~Plain BY <1>0, <1>1, <2>2 DEF PrincipalInPlace, Plain
  <2>3. QED BY <2>1, <2>2
<1>7. ~lockTerms.staking => after[Main] = x
  <2>1. SUFFICES ASSUME ~lockTerms.staking PROVE after[Main] = x OBVIOUS
  <2>2. staked = 0 /\ Plain BY <1>0, <1>1, <2>1 DEF KindsApart, Plain
  <2>3. held[Main] = locked[Main] BY <1>0, <1>1, <2>2 DEF ClaimsBacked
  <2>4. locked[Main] = x BY <1>0, <2>2 DEF Untouched
  <2>5. QED BY <2>2, <2>3, <2>4
<1> HIDE DEF after
<1>8. u = Main BY <1>1, <1>3, <1>4, <1>5
<1>9. /\ held' \in [LockTokens -> Int] /\ received' \in [LockTokens -> Int]
      /\ held'[Main] = 0 /\ received'[Main] = x
      /\ \A t \in LockTokens : t # Main => held'[t] = 0 /\ received'[t] = 0
  <2>1. held'[Main] = 0 /\ held' \in [LockTokens -> Int]
    <3>1. CASE lockTerms.staking BY <1>1, <1>3, <1>8, <3>1
    <3>2. CASE ~lockTerms.staking
      <4>1. after[Main] - x = 0 BY <1>4, <1>7, <3>2
      <4>2. QED BY <1>1, <1>3, <1>8, <3>2, <4>1
    <3>3. QED BY <3>1, <3>2
  <2>2. received' \in [LockTokens -> Int] /\ received'[Main] = x BY <1>0, <1>1, <1>2, <1>4, <1>6, <1>8
  <2>3. \A t \in LockTokens : t # Main => held'[t] = 0 /\ received'[t] = 0
    BY <1>1, <1>2, <1>3, <1>5, <1>8
  <2>4. QED BY <2>1, <2>2, <2>3
<1>10. UNCHANGED <<Tranches, Plain>> BY <1>1 DEF Tranches, Plain
<1>11. TimelockTyped' BY <1>0, <1>1, <1>9, <1>10 DEF TimelockTyped
<1>12. NothingLocked' /\ PrincipalInPlace' /\ ClaimsBacked' BY <1>1 DEF NothingLocked, PrincipalInPlace, ClaimsBacked
<1>13. KindsApart' BY <1>0, <1>1, <1>4, <1>9, <1>10 DEF KindsApart
<1>14. unlockAt[Main] \in Nat /\ unlockAt[Main] <= now
  <2>1. unlockAt[Main] \in Nat /\ unlockAt[Main] <= lockTerms.release BY <1>0, <1>1 DEF Scheduled
  <2>2. QED BY <1>0, <1>1, <1>2, <2>1
<1>15. Scheduled'
  <2>1. unlockAt[Main] # Unscheduled BY <1>14, TimelockAssumption
  <2>2. \A t \in LockTokens : unlockAt[t] = Unscheduled => locked[t] = 0 /\ received'[t] = 0
    BY <1>0, <1>9, <2>1 DEF Scheduled
  <2>3. QED BY <1>0, <1>1, <2>2 DEF Scheduled
<1>16. PaidAfterMaturity'
  <2>1. \A t \in LockTokens : received'[t] > 0 => now' >= unlockAt'[t] BY <1>1, <1>2, <1>9, <1>14
  <2>2. QED BY <1>1, <2>1 DEF PaidAfterMaturity
<1>17. ClosedInFull' BY <1>1, <1>9 DEF ClosedInFull
<1>18. QED BY <1>11, <1>12, <1>13, <1>15, <1>16, <1>17 DEF TimelockInv

\* Part of what has matured in a plain lock is paid out.
LEMMA PartialReleaseInv ==
    ASSUME TimelockInv, NEW u \in LockTokens, NEW x \in Int, ReleasePartial(u, x), Plain
    PROVE  TimelockInv'
<1> USE DEF TimelockFacts
<1>0. TimelockFacts BY TimelockParts
<1>1. /\ lockState = "Active" /\ x > 0 /\ x <= Claimable(u)
      /\ locked' = [locked EXCEPT ![u] = locked[u] - x] /\ held' = [held EXCEPT ![u] = held[u] - x]
      /\ received' = [received EXCEPT ![u] = received[u] + x]
      /\ UNCHANGED <<now, lockState, lockTerms, paidOut, staked, unlockAt, purse>>
  BY DEF ReleasePartial
<1>2. /\ locked \in [LockTokens -> Int] /\ held \in [LockTokens -> Int] /\ purse \in [LockTokens -> Int]
      /\ received \in [LockTokens -> Int] /\ unlockAt \in [LockTokens -> Nat \cup {Unscheduled}] /\ now \in Nat
  BY <1>0 DEF TimelockTyped
<1>3. /\ locked' \in [LockTokens -> Int] /\ held' \in [LockTokens -> Int] /\ received' \in [LockTokens -> Int]
      /\ locked'[u] = locked[u] - x /\ held'[u] = held[u] - x /\ received'[u] = received[u] + x
      /\ \A t \in LockTokens : t # u => UNCHANGED <<held[t], locked[t], received[t]>>
  BY <1>1, <1>2
<1>4. lockTerms.tranches = <<>> /\ ~lockTerms.staking /\ Plain' BY <1>1 DEF Plain
<1>5. unlockAt[u] \in Nat /\ now >= unlockAt[u]
  <2>1. CASE unlockAt[u] = Unscheduled
    <3>1. locked[u] = 0 BY <1>0, <2>1 DEF Scheduled
    <3>2. Claimable(u) = 0 BY <1>4, <3>1 DEF Claimable
    <3>3. QED BY <1>1, <3>2
  <2>2. CASE unlockAt[u] # Unscheduled
    <3>1. unlockAt[u] \in Nat BY <1>2, <2>2
    <3>2. now < unlockAt[u] => Claimable(u) = 0 BY <1>4, <2>2 DEF Claimable
    <3>3. QED BY <1>1, <1>2, <3>1, <3>2
  <2>3. QED BY <2>1, <2>2
<1>6. unlockAt[u] # Unscheduled BY <1>5, TimelockAssumption
<1>7. TimelockTyped' BY <1>0, <1>1, <1>3 DEF TimelockTyped, Tranches
<1>8. NothingLocked' /\ ClosedInFull' BY <1>1 DEF NothingLocked, ClosedInFull
<1>9. KindsApart' BY <1>0, <1>1, <1>4 DEF KindsApart
<1>10. PrincipalInPlace'
  <2>1. \A t \in LockTokens : purse[t] + held[t] + received[t] = AdminFunds /\ paidOut = {}
    BY <1>0, <1>1 DEF PrincipalInPlace
  <2>2. ASSUME NEW t \in LockTokens PROVE purse'[t] + held'[t] + received'[t] = AdminFunds
    <3>1. purse[t] \in Int /\ held[t] \in Int /\ received[t] \in Int BY <1>2
    <3>2. CASE t = u
      <4>1. purse'[t] = purse[t] /\ held'[t] = held[t] - x /\ received'[t] = received[t] + x BY <1>1, <1>3, <3>2
      <4>2. purse[t] + (held[t] - x) + (received[t] + x) = purse[t] + held[t] + received[t] BY <3>1
      <4>3. QED BY <2>1, <4>1, <4>2
    <3>3. CASE t # u BY <1>1, <1>3, <2>1, <3>3
    <3>4. QED BY <3>2, <3>3
  <2>3. QED BY <1>0, <1>1, <1>4, <2>1, <2>2 DEF PrincipalInPlace
<1>11. Scheduled'
  <2>1. \A t \in LockTokens : unlockAt[t] = Unscheduled => locked'[t] = 0 /\ received'[t] = 0
    BY <1>0, <1>3, <1>6 DEF Scheduled
  <2>2. QED BY <1>0, <1>1, <2>1 DEF Scheduled
<1>12. PaidAfterMaturity'
  <2>1. ASSUME NEW t \in LockTokens, received'[t] > 0 PROVE now >= unlockAt[t]
    <3>1. CASE t = u BY <1>5, <3>1
    <3>2. CASE t # u BY <1>0, <1>3, <2>1, <3>2 DEF PaidAfterMaturity
    <3>3. QED BY <3>1, <3>2
  <2>2. QED BY <1>1, <1>4, <2>1 DEF PaidAfterMaturity
<1>13. ClaimsBacked'
  <2>1. \A t \in LockTokens : held[t] = locked[t] BY <1>0, <1>1 DEF ClaimsBacked
  <2>2. \A t \in LockTokens : held'[t] = locked'[t] BY <1>3, <2>1
  <2>3. QED BY <2>2 DEF ClaimsBacked
<1>14. QED BY <1>7, <1>8, <1>9, <1>10, <1>11, <1>12, <1>13 DEF TimelockInv

\* The admin takes back what has not been released.
LEMMA CancelLockInv ==
    ASSUME TimelockInv, CancelLock, Untouched, staked = 0
    PROVE  TimelockInv'
<1> DEFINE x == lockTerms.amount - TrancheSum(paidOut)
<1> USE DEF TimelockFacts
<1>0. TimelockFacts BY TimelockParts
<1>1. /\ lockState = "Active" /\ lockState' = "Cancelled"
      /\ held' = [held EXCEPT ![Main] = held[Main] - x] /\ purse' = [purse EXCEPT ![Main] = purse[Main] + x]
      /\ UNCHANGED <<now, lockTerms, paidOut, staked, locked, unlockAt, received>>
  BY DEF CancelLock
<1>2. /\ held \in [LockTokens -> Int] /\ purse \in [LockTokens -> Int] /\ received \in [LockTokens -> Int]
      /\ paidOut \in SUBSET Tranches /\ AdminFunds \in Int /\ lockTerms.amount \in Int
  BY <1>0, TimelockAssumption DEF TimelockTyped
<1>3. TrancheSum(paidOut) \in Int /\ (paidOut = {} => TrancheSum(paidOut) = 0)
  BY <1>0, <1>2, TrancheTotals DEF TrancheSum, Tranches
<1>4. x \in Int BY <1>2, <1>3
<1>5. purse[Main] = AdminFunds - lockTerms.amount /\ received[Main] = TrancheSum(paidOut)
  <2>1. CASE Plain
    <3>1. received[Main] = 0 /\ locked[Main] = lockTerms.amount BY <1>0, <2>1 DEF Untouched
    <3>2. held[Main] = lockTerms.amount BY <1>0, <1>1, <2>1, <3>1 DEF ClaimsBacked
    <3>3. purse[Main] + held[Main] + received[Main] = AdminFunds /\ paidOut = {} BY <1>0, <1>1, <2>1 DEF PrincipalInPlace
    <3>4. purse[Main] + lockTerms.amount + 0 = AdminFunds BY <3>1, <3>2, <3>3
    <3>5. QED BY <1>0, <1>2, <1>3, <3>1, <3>3, <3>4
  <2>2. CASE lockTerms.tranches # <<>>
    BY <1>0, <1>1, <2>2 DEF PrincipalInPlace, PaidAfterMaturity, Plain
  <2>3. CASE lockTerms.tranches = <<>> /\ lockTerms.staking
    <3>1. paidOut = {} BY <1>2, <2>3 DEF Tranches
    <3>2. QED BY <1>0, <1>1, <1>3, <2>3, <3>1 DEF PrincipalInPlace, Plain
  <2>4. QED BY <2>1, <2>2, <2>3 DEF Plain
<1>6. purse'[Main] = purse[Main] + x BY <1>0, <1>1, <1>2
<1>7. ClosedInFull'
  <2>1. purse'[Main] = (AdminFunds - lockTerms.amount) + (lockTerms.amount - TrancheSum(paidOut)) BY <1>5, <1>6
  <2>2. purse'[Main] + received[Main] = AdminFunds BY <1>2, <1>3, <1>5, <2>1
  <2>3. QED BY <1>1, <2>2 DEF ClosedInFull
<1> HIDE DEF x
<1>8. held' \in [LockTokens -> Int] /\ purse' \in [LockTokens -> Int]
      /\ \A t \in LockTokens : t # Main => held'[t] = held[t]
  BY <1>0, <1>1, <1>2, <1>4
<1>9. UNCHANGED <<Tranches, Plain>> BY <1>1 DEF Tranches, Plain
<1>10. TimelockTyped' BY <1>0, <1>1, <1>8, <1>9 DEF TimelockTyped
<1>11. NothingLocked' /\ PrincipalInPlace' /\ ClaimsBacked' BY <1>1 DEF NothingLocked, PrincipalInPlace, ClaimsBacked
<1>12. KindsApart'
  <2>1. TrancheSum(Tranches)' = TrancheSum(Tranches) BY <1>1, <1>9 DEF TrancheSum
  <2>2. QED BY <1>0, <1>1, <1>8, <1>9, <2>1 DEF KindsApart
<1>13. Scheduled' BY <1>0, <1>1 DEF Scheduled
<1>14. PaidAfterMaturity' BY <1>0, <1>1 DEF PaidAfterMaturity, Matured, Tranches, TrancheSum
<1>15. QED BY <1>7, <1>10, <1>11, <1>12, <1>13, <1>14 DEF TimelockInv

\* Every step that careful parties take keeps the invariant.
LEMMA TimelockInduction == TimelockInv /\ [CarefulTimelockNext]_timelockVars => TimelockInv'
<1> SUFFICES ASSUME TimelockInv, [CarefulTimelockNext]_timelockVars PROVE TimelockInv' OBVIOUS
<1> USE DEF TimelockFacts
<1>0. TimelockFacts BY TimelockParts
<1>1. /\ now \in Nat /\ staked \in Int /\ held \in [LockTokens -> Int] /\ locked \in [LockTokens -> Int]
      /\ LockAmounts \subseteq Int /\ ReleaseLedgers \subseteq Nat /\ Yields \subseteq Nat
      /\ TranchePlans \subseteq TrancheLists
  BY <1>0, TimelockAssumption DEF TimelockTyped, TrancheLists, TrancheRecords
<1>2. CASE UNCHANGED timelockVars BY <1>1, <1>2, TimelockQuiet DEF timelockVars
<1>3. SUFFICES ASSUME TimelockNext,
                      lockState = "Active" /\ locked' # locked => Plain,
                      lockState = "Active" /\ lockState' # "Active" => Untouched,
                      lockState' = "Cancelled" => staked = 0
               PROVE  TimelockInv'
  BY <1>2 DEF CarefulTimelockNext
<1>4. ASSUME NEW x \in LockAmounts, NEW l \in ReleaseLedgers, InitializeLock(x, l) \/ InitializeWithStaking(x, l)
      PROVE  TimelockInv'
  <2>1. <<>> \in TrancheLists BY DEF TrancheLists
  <2>2. PICK s \in BOOLEAN : Lock(x, l, <<>>, s) BY <1>4 DEF InitializeLock, InitializeWithStaking
  <2>3. QED BY <1>1, <2>1, <2>2, LockInv
<1>5. ASSUME NEW p \in TranchePlans, InitializeWithTranches(p) PROVE TimelockInv'
  <2>1. /\ p \in TrancheLists /\ p # <<>> /\ Lock(PlanTotal(p, DOMAIN p), p[1].at, p, FALSE)
        /\ \A i \in DOMAIN p : p[i].amount > 0
        /\ \A i \in DOMAIN p : i # 1 => p[i].at > p[i - 1].at
    BY <1>1, <1>5 DEF InitializeWithTranches
  <2>2. \A i \in DOMAIN p : p[1].at <= p[i].at BY <2>1, FirstMaturesFirst
  <2>3. PlanTotal(p, DOMAIN p) \in Int BY <2>1, TrancheTotals
  <2>4. p[1].at \in Nat
    <3>1. DOMAIN p = 1..Len(p) /\ Len(p) \in Nat BY <2>1, TrancheEntries
    <3>2. Len(p) # 0 BY <2>1 DEF TrancheLists
    <3>3. 1 \in DOMAIN p BY <3>1, <3>2
    <3>4. QED BY <2>1, <3>3, TrancheEntries
  <2>5. QED BY <2>1, <2>2, <2>3, <2>4, LockInv
<1>6. ASSUME NEW t \in LockTokens, NEW x \in LockAmounts, NEW l \in ReleaseLedgers, Deposit(t, x, l)
      PROVE  TimelockInv'
  <2>1. x \in Int /\ l \in Nat /\ locked[t] \in Int BY <1>1
  <2>2. lockState = "Active" /\ x > 0 /\ locked' = [locked EXCEPT ![t] = locked[t] + x] BY <1>6 DEF Deposit
  <2>3. locked'[t] # locked[t] BY <1>1, <2>1, <2>2
  <2>4. Plain BY <1>3, <2>2, <2>3
  <2>5. QED BY <1>6, <2>1, <2>4, DepositInv
<1>7. CASE DepositLockedBalance
  <2>1. held[Main] - lockTerms.amount \in Int BY <1>0, <1>1
  <2>2. QED BY <1>0, <1>7, <2>1, StakingMovesInv DEF DepositLockedBalance
<1>8. ASSUME NEW y \in Yields, WithdrawAndUnbond(y) PROVE TimelockInv'
  <2> DEFINE v == held[Main] + staked + y
  <2>1. v \in Int
    <3>1. held[Main] \in Int /\ y \in Int BY <1>0, <1>1
    <3>2. QED BY <1>1, <3>1
  <2>2. /\ lockState = "Active" /\ lockTerms.staking /\ staked' \in Int /\ held' = [held EXCEPT ![Main] = v]
        /\ UNCHANGED <<now, lockState, lockTerms, paidOut, locked, unlockAt, purse, received>>
    BY <1>8 DEF WithdrawAndUnbond
  <2> HIDE DEF v
  <2>3. QED BY <2>1, <2>2, StakingMovesInv
<1>9. ASSUME NEW y \in Yields, NEW t \in LockTokens, ReleaseAll(t, y) PROVE TimelockInv'
  <2>1. Untouched BY <1>3, <1>9 DEF ReleaseAll
  <2>2. QED BY <1>1, <1>9, <2>1, ReleaseAllInv
<1>10. ASSUME NEW t \in LockTokens, ReleaseTranches(t) PROVE TimelockInv' BY <1>10, ReleaseTranchesInv
<1>11. ASSUME NEW t \in LockTokens, NEW x \in LockAmounts, ReleasePartial(t, x) PROVE TimelockInv'
  <2>1. x \in Int /\ locked[t] \in Int BY <1>1
  <2>2. lockState = "Active" /\ x > 0 /\ locked' = [locked EXCEPT ![t] = locked[t] - x] BY <1>11 DEF ReleasePartial
  <2>3. locked'[t] # locked[t] BY <1>1, <2>1, <2>2
  <2>4. Plain BY <1>3, <2>2, <2>3
  <2>5. QED BY <1>11, <2>1, <2>4, PartialReleaseInv
<1>12. CASE CancelLock
  <2>1. Untouched /\ staked = 0 BY <1>3, <1>12 DEF CancelLock
  <2>2. QED BY <1>12, <2>1, CancelLockInv
<1>13. CASE TimelockTick BY <1>1, <1>13, TimelockQuiet DEF TimelockTick, LedgerCloses
<1>14. QED
  BY <1>3, <1>4, <1>5, <1>6, <1>7, <1>8, <1>9, <1>10, <1>11, <1>12, <1>13 DEF TimelockNext

\* The invariant holds before initialization.
LEMMA TimelockStart == TimelockInit => TimelockInv
<1> SUFFICES ASSUME TimelockInit PROVE TimelockInv OBVIOUS
<1>1. /\ now = 0 /\ lockState = "Uninit" /\ lockTerms = NoLockTerms /\ paidOut = {} /\ staked = 0
      /\ locked = [t \in LockTokens |-> 0] /\ unlockAt = [t \in LockTokens |-> Unscheduled]
      /\ held = [t \in LockTokens |-> 0] /\ purse = [t \in LockTokens |-> AdminFunds]
      /\ received = [t \in LockTokens |-> 0] /\ AdminFunds \in Int
  BY TimelockAssumption DEF TimelockInit
<1>2. lockTerms.tranches = <<>> /\ lockTerms.staking = FALSE /\ lockTerms.amount = 0 /\ Plain
  BY <1>1 DEF NoLockTerms, Plain
<1>3. TimelockTyped
  <2>1. lockTerms \in [release : Nat, amount : Int, tranches : TrancheLists, staking : BOOLEAN]
    BY <1>1 DEF NoLockTerms, TrancheLists
  <2>2. /\ locked \in [LockTokens -> Int] /\ held \in [LockTokens -> Int] /\ purse \in [LockTokens -> Int]
        /\ received \in [LockTokens -> Int] /\ unlockAt \in [LockTokens -> Nat \cup {Unscheduled}]
    BY <1>1
  <2>3. QED BY <1>1, <2>1, <2>2 DEF TimelockTyped
<1>4. NothingLocked BY <1>1 DEF NothingLocked
<1>5. KindsApart /\ PrincipalInPlace BY <1>1, <1>2 DEF KindsApart, PrincipalInPlace
<1>6. Scheduled /\ PaidAfterMaturity BY <1>1, <1>2 DEF Scheduled, PaidAfterMaturity
<1>7. ClosedInFull /\ ClaimsBacked BY <1>1 DEF ClosedInFull, ClaimsBacked
<1>8. QED BY <1>3, <1>4, <1>5, <1>6, <1>7 DEF TimelockInv

\* What has been paid from tranches is at most what has matured.
LEMMA PaidWithinMatured == TimelockInv => NothingEarly
<1> SUFFICES ASSUME TimelockInv PROVE NothingEarly OBVIOUS
<1> USE DEF TimelockFacts
<1>0. TimelockFacts BY TimelockParts
<1>1. ASSUME lockTerms.tranches # <<>> PROVE received[Main] <= TrancheSum(Matured)
  <2>1. received[Main] = TrancheSum(paidOut) /\ paidOut \in SUBSET Matured BY <1>0, <1>1 DEF PaidAfterMaturity
  <2>2. Matured \in SUBSET Tranches /\ Matured \ paidOut \in SUBSET Tranches /\ paidOut \in SUBSET Tranches
    BY <2>1 DEF Matured
  <2>3. \A i \in Tranches : lockTerms.tranches[i].amount > 0 BY <1>0, <1>1 DEF KindsApart
  <2>4. TrancheSum(Matured) = TrancheSum(paidOut) + TrancheSum(Matured \ paidOut)
    BY <1>0, <2>1, <2>2, TrancheTotals DEF TrancheSum, Tranches
  <2>5. TrancheSum(paidOut) \in Int /\ TrancheSum(Matured \ paidOut) \in Int /\ TrancheSum(Matured \ paidOut) >= 0
    BY <1>0, <2>2, <2>3, TrancheTotals DEF TrancheSum, Tranches
  <2>6. QED BY <2>1, <2>4, <2>5
<1>2. QED BY <1>0, <1>1 DEF NothingEarly, PaidAfterMaturity

\* Nothing reaches the beneficiary early, whatever the tranches, deposits and partial
\* releases of careful parties.
THEOREM NothingIsPaidEarly == CarefulTimelockSpec => []NothingEarly
BY TimelockStart, TimelockInduction, PaidWithinMatured, PTL DEF CarefulTimelockSpec

\* A lock of careful parties ends with the principal on exactly one side.
THEOREM LocksCloseInFull == CarefulTimelockSpec => []ClosedInFull
<1>1. TimelockInv => ClosedInFull BY DEF TimelockInv
<1>2. QED BY <1>1, TimelockStart, TimelockInduction, PTL DEF CarefulTimelockSpec

\* What claimable_amount reports for a plain lock of careful parties can be paid.
THEOREM ClaimsAreBacked == CarefulTimelockSpec => []ClaimsBacked
<1>1. TimelockInv => ClaimsBacked BY DEF TimelockInv
<1>2. QED BY <1>1, TimelockStart, TimelockInduction, PTL DEF CarefulTimelockSpec

----
(* Staking.                                                                *)

UnbondRequests == [amount : Int, ready : Nat]

StakingTyped ==
    /\ now \in Nat /\ lastUpdate \in Nat /\ lastUpdate <= now
    /\ emission \in [rate : Nat, end : Nat]
    /\ ready \in BOOLEAN
    /\ stakeOf \in [Stakers -> Nat] /\ totalStaked \in Int
    /\ perToken \in Int /\ paidUpTo \in [Stakers -> Int] /\ rewards \in [Stakers -> Int]
    /\ requests \in [Stakers -> UnbondRequests \cup {NoRequest}]
    /\ unbonding \in Nat /\ stakeHeld \in Int /\ emitted \in Int /\ payouts \in Int /\ replaced \in Int

\* What each staker has earned since it was last paid, at accumulator value p, scaled.
Earned(stake, paid, p) == [a \in Stakers |-> stake[a] * (p - paid[a])]

\* Scaled, what was credited and what the accumulator promises stays within the
\* emission up to the last update of the accumulator.
WithinEmission ==
    RewardScale * (payouts + StakeSum(rewards)) + StakeSum(Earned(stakeOf, paidUpTo, perToken))
        <= RewardScale * (emitted - emission.rate * Elapsed)

StakingInv ==
    /\ StakingTyped
    /\ ~ready => emission.rate = 0
    /\ StakeAccountedFor
    /\ WithinEmission

\* Sums over the stakers are numbers, and follow a change of one entry.
LEMMA StakerSums ==
    ASSUME NEW f, \A a \in Stakers : f[a] \in Int
    PROVE  /\ StakeSum(f) \in Int
           /\ \A g : (\A a \in Stakers : g[a] = f[a]) => StakeSum(g) = StakeSum(f)
<1>1. StakeSum(f) \in Int BY StakingAssumption, SumBasics DEF StakeSum
<1>2. ASSUME NEW g, \A a \in Stakers : g[a] = f[a] PROVE StakeSum(g) = StakeSum(f)
  BY <1>2, StakingAssumption, SumBasics DEF StakeSum
<1>3. QED BY <1>1, <1>2

\* StakeSum when one staker's entry grows by d.
LEMMA StakerBump ==
    ASSUME NEW f, \A a \in Stakers : f[a] \in Int, NEW g, NEW b \in Stakers, NEW d \in Int,
           g[b] = f[b] + d, \A a \in Stakers : a # b => g[a] = f[a]
    PROVE  StakeSum(g) = StakeSum(f) + d
BY StakingAssumption, SumBump DEF StakeSum

\* What each staker waits for is a number.
LEMMA WaitingTypes ==
    ASSUME NEW r \in [Stakers -> UnbondRequests \cup {NoRequest}], NEW a \in Stakers
    PROVE  (IF r[a] = NoRequest THEN 0 ELSE r[a].amount) \in Int
<1>1. r[a] \in UnbondRequests \cup {NoRequest} OBVIOUS
<1>2. QED BY <1>1 DEF UnbondRequests

\* The ledgers of the period that passed since the last update.
LEMMA ElapsedFacts ==
    ASSUME StakingTyped
    PROVE  Elapsed \in Nat
<1>1. emission.end \in Nat /\ now \in Nat /\ lastUpdate \in Nat /\ lastUpdate <= now BY DEF StakingTyped
<1>2. QED BY <1>1 DEF Elapsed, Earlier

\* The accumulator grows by at most the emission divided by the stakes.
LEMMA ProjectedFacts ==
    ASSUME StakingTyped
    PROVE  \E d \in Nat : Projected = perToken + d /\ d * totalStaked <= RewardScale * (emission.rate * Elapsed)
<1> DEFINE n == Elapsed * emission.rate * RewardScale
<1>1. /\ Elapsed \in Nat /\ emission.rate \in Nat /\ RewardScale \in Nat /\ totalStaked \in Int /\ perToken \in Int
  BY ElapsedFacts, StakingAssumption DEF StakingTyped
<1>2. emission.rate * Elapsed \in Nat /\ Elapsed * emission.rate \in Nat /\ Elapsed * emission.rate = emission.rate * Elapsed
  BY <1>1
<1>3. n \in Nat /\ n = RewardScale * (emission.rate * Elapsed)
  <2>1. \A i, j \in Nat : i * j \in Nat /\ i * j = j * i OBVIOUS
  <2>2. QED BY <1>1, <1>2, <2>1
<1>4. CASE Elapsed <= 0 \/ emission.rate <= 0 \/ totalStaked <= 0
  <2>1. Projected = perToken + 0 BY <1>1, <1>4 DEF Projected
  <2>2. 0 * totalStaked = 0 BY <1>1
  <2>3. 0 \in Nat /\ 0 * totalStaked <= RewardScale * (emission.rate * Elapsed) BY <1>3, <2>2
  <2>4. QED BY <2>1, <2>3
<1>5. CASE ~(Elapsed <= 0 \/ emission.rate <= 0 \/ totalStaked <= 0)
  <2>1. Projected = perToken + n \div totalStaked BY <1>5 DEF Projected
  <2>2. totalStaked \in Nat \ {0} BY <1>1, <1>5
  <2> HIDE DEF n
  <2>3. n \div totalStaked \in Nat /\ (n \div totalStaked) * totalStaked <= n BY <1>3, <2>2
  <2>4. QED BY <1>3, <2>1, <2>3
<1>6. QED BY <1>4, <1>5

\* At the projected accumulator, what was credited and what is promised stays within
\* the whole emission.
LEMMA PromisedWithinEmission ==
    ASSUME StakingInv
    PROVE  /\ Projected \in Int
           /\ StakeSum(Earned(stakeOf, paidUpTo, Projected)) \in Int
           /\ RewardScale * (payouts + StakeSum(rewards)) + StakeSum(Earned(stakeOf, paidUpTo, Projected))
                <= RewardScale * emitted
<1>0. StakingTyped /\ StakeAccountedFor /\ WithinEmission BY DEF StakingInv
<1>1. PICK d \in Nat : Projected = perToken + d /\ d * totalStaked <= RewardScale * (emission.rate * Elapsed)
  BY <1>0, ProjectedFacts
<1>2. /\ perToken \in Int /\ totalStaked \in Int /\ emitted \in Int /\ payouts \in Int /\ RewardScale \in Int
      /\ \A a \in Stakers : stakeOf[a] \in Int /\ paidUpTo[a] \in Int /\ rewards[a] \in Int
  BY <1>0, StakingAssumption DEF StakingTyped
<1> DEFINE e == Earned(stakeOf, paidUpTo, perToken)
           f == Earned(stakeOf, paidUpTo, Projected)
           g == [a \in Stakers |-> d * stakeOf[a]]
<1>3. \A a \in Stakers : e[a] \in Int /\ g[a] \in Int /\ f[a] = e[a] + g[a]
  <2>1. ASSUME NEW a \in Stakers PROVE e[a] \in Int /\ g[a] \in Int /\ f[a] = e[a] + g[a]
    <3> DEFINE k == perToken - paidUpTo[a]
    <3>1. k \in Int /\ (perToken + d) - paidUpTo[a] = k + d /\ stakeOf[a] \in Int /\ d \in Int BY <1>2
    <3>2. e[a] = stakeOf[a] * k /\ f[a] = stakeOf[a] * (k + d) /\ g[a] = d * stakeOf[a]
      BY <1>1, <3>1 DEF Earned
    <3> HIDE DEF k, e, f, g
    <3>3. stakeOf[a] * (k + d) = stakeOf[a] * k + stakeOf[a] * d BY <3>1, Distributes
    <3>4. stakeOf[a] * d = d * stakeOf[a] /\ stakeOf[a] * k \in Int /\ d * stakeOf[a] \in Int BY <3>1
    <3>5. QED BY <3>2, <3>3, <3>4
  <2>2. QED BY <2>1
<1> HIDE DEF e, f
<1>4. StakeSum(f) = StakeSum(e) + StakeSum(g) BY <1>3, StakingAssumption, SumPlus DEF StakeSum
<1>5. StakeSum(g) = d * StakeSum(stakeOf)
  <2>1. \A a \in Stakers : stakeOf[a] \in Int /\ g[a] = d * stakeOf[a] BY <1>2
  <2> HIDE DEF g
  <2>2. QED BY <2>1, StakingAssumption, SumScale DEF StakeSum
<1>6. StakeSum(g) = d * totalStaked BY <1>0, <1>5 DEF StakeAccountedFor
<1>7. StakeSum(e) \in Int /\ StakeSum(rewards) \in Int BY <1>2, <1>3, StakerSums
<1> HIDE DEF g
<1>8. Elapsed \in Int /\ emission.rate \in Int BY <1>0, ElapsedFacts DEF StakingTyped
<1> DEFINE w == emission.rate * Elapsed
           c == RewardScale * (payouts + StakeSum(rewards))
<1>9. w \in Int /\ RewardScale * w \in Int /\ RewardScale * emitted \in Int /\ d * totalStaked \in Int BY <1>2, <1>8
<1>10. RewardScale * (emitted - w) = RewardScale * emitted - RewardScale * w
  <2>1. -w \in Int /\ emitted - w = emitted + (-w) /\ RewardScale * (-w) = -(RewardScale * w) BY <1>2, <1>9
  <2> HIDE DEF w
  <2>2. RewardScale * (emitted + (-w)) = RewardScale * emitted + RewardScale * (-w) BY <1>2, <2>1, Distributes
  <2>3. QED BY <1>9, <2>1, <2>2
<1>11. c \in Int
  <2>1. payouts + StakeSum(rewards) \in Int BY <1>2, <1>7
  <2>2. QED BY <1>2, <2>1
<1>12. c + StakeSum(e) <= RewardScale * (emitted - w) BY <1>0 DEF WithinEmission, e
<1>13. d * totalStaked <= RewardScale * w BY <1>1
<1> HIDE DEF c, w
<1>14. c + StakeSum(e) <= RewardScale * emitted - RewardScale * w BY <1>10, <1>12
<1>15. c + (StakeSum(e) + d * totalStaked) <= RewardScale * emitted
  BY <1>7, <1>9, <1>11, <1>13, <1>14
<1>16. c + StakeSum(f) <= RewardScale * emitted BY <1>4, <1>6, <1>15
<1>17. StakeSum(f) \in Int BY <1>4, <1>6, <1>7, <1>9
<1>18. Projected \in Int BY <1>1, <1>2
<1>19. QED BY <1>16, <1>17, <1>18 DEF c, f

\* Right after an update of the accumulator nothing of the period is outstanding.
LEMMA NothingElapsed ==
    ASSUME StakingTyped, Accrue, now' = now, emission' \in [rate : Nat, end : Nat], emitted' = emitted
    PROVE  RewardScale * (emitted' - emission'.rate * Elapsed') = RewardScale * emitted
<1>1. now \in Nat /\ emission'.end \in Nat /\ emission'.rate \in Nat /\ emitted \in Int BY DEF StakingTyped
<1>2. lastUpdate' = now BY DEF Accrue
<1>3. Elapsed' = Earlier(now, emission'.end) - Earlier(now, emission'.end) BY <1>2 DEF Elapsed
<1>4. Earlier(now, emission'.end) \in Nat BY <1>1 DEF Earlier
<1>5. Elapsed' = 0 BY <1>3, <1>4
<1>6. emission'.rate * 0 = 0 /\ emitted - 0 = emitted BY <1>1
<1>7. QED BY <1>5, <1>6

\* update_reward moves what a staker was promised to its credit, rounded down,
\* whatever its stake becomes and whether or not the credit is paid at once.
LEMMA UpdateWithinEmission ==
    ASSUME StakingInv, NEW a \in Stakers, Accrue, paidUpTo' = [paidUpTo EXCEPT ![a] = Projected],
           stakeOf' \in [Stakers -> Nat], \A b \in Stakers : b # a => stakeOf'[b] = stakeOf[b],
           \/ rewards' = [rewards EXCEPT ![a] = PendingRewards(a)] /\ payouts' = payouts
           \/ rewards' = [rewards EXCEPT ![a] = 0] /\ payouts' = payouts + PendingRewards(a),
           UNCHANGED <<now, emission, emitted>>
    PROVE  /\ WithinEmission'
           /\ perToken' \in Int /\ lastUpdate' = now /\ paidUpTo' \in [Stakers -> Int]
           /\ rewards' \in [Stakers -> Int] /\ payouts' \in Int
<1> DEFINE f == Earned(stakeOf, paidUpTo, Projected)
           h == Earned(stakeOf', paidUpTo', perToken')
           q == f[a] \div RewardScale
<1>0. StakingTyped BY DEF StakingInv
<1>1. /\ Projected \in Int /\ StakeSum(f) \in Int
      /\ RewardScale * (payouts + StakeSum(rewards)) + StakeSum(f) <= RewardScale * emitted
  BY PromisedWithinEmission
<1>2. /\ emitted \in Int /\ payouts \in Int /\ RewardScale \in Nat \ {0}
      /\ paidUpTo \in [Stakers -> Int] /\ rewards \in [Stakers -> Int]
      /\ \A b \in Stakers : stakeOf[b] \in Int /\ paidUpTo[b] \in Int /\ rewards[b] \in Int
  BY <1>0, StakingAssumption DEF StakingTyped
<1>3. \A b \in Stakers : f[b] \in Int
  <2>1. ASSUME NEW b \in Stakers PROVE stakeOf[b] * (Projected - paidUpTo[b]) \in Int
    <3>1. Projected - paidUpTo[b] \in Int BY <1>1, <1>2
    <3>2. QED BY <1>2, <3>1
  <2>2. QED BY <2>1 DEF Earned
<1>4. perToken' = Projected /\ lastUpdate' = now BY DEF Accrue
<1>5. paidUpTo' \in [Stakers -> Int] /\ paidUpTo'[a] = Projected /\ \A b \in Stakers : b # a => paidUpTo'[b] = paidUpTo[b]
  BY <1>1, <1>2
<1>6. h[a] = f[a] + (-f[a]) /\ (\A b \in Stakers : b # a => h[b] = f[b])
  <2>1. h[a] = stakeOf'[a] * (Projected - Projected) BY <1>4, <1>5 DEF Earned
  <2>2. stakeOf'[a] \in Int /\ Projected - Projected = 0 BY <1>1
  <2>3. h[a] = 0 BY <2>1, <2>2
  <2>4. f[a] + (-f[a]) = 0 BY <1>3
  <2>5. \A b \in Stakers : b # a => h[b] = f[b] BY <1>4, <1>5 DEF Earned
  <2>6. QED BY <2>3, <2>4, <2>5
<1>7. PendingRewards(a) = rewards[a] + q BY DEF PendingRewards, EarnedAt, Earned
<1> HIDE DEF f, h
<1>8. StakeSum(h) = StakeSum(f) - f[a]
  <2> DEFINE m == -f[a]
  <2>1. m \in Int /\ h[a] = f[a] + m BY <1>3, <1>6
  <2> HIDE DEF m
  <2>2. StakeSum(h) = StakeSum(f) + m BY <1>3, <1>6, <2>1, StakerBump
  <2>3. QED BY <1>1, <1>3, <2>2 DEF m
<1>9. q \in Int /\ RewardScale * q <= f[a] /\ f[a] \in Int
  <2>1. f[a] \in Int BY <1>3
  <2>2. QED BY <1>2, <2>1
<1> HIDE DEF q
<1>10. /\ rewards' \in [Stakers -> Int] /\ payouts' \in Int
       /\ payouts' + StakeSum(rewards') = payouts + StakeSum(rewards) + q
  <2>1. StakeSum(rewards) \in Int BY <1>2, StakerSums
  <2>2. rewards[a] \in Int BY <1>2
  <2>3. CASE rewards' = [rewards EXCEPT ![a] = PendingRewards(a)] /\ payouts' = payouts
    <3>1. rewards' \in [Stakers -> Int] /\ rewards'[a] = rewards[a] + q /\ (\A b \in Stakers : b # a => rewards'[b] = rewards[b])
      BY <1>2, <1>7, <1>9, <2>2, <2>3
    <3>2. StakeSum(rewards') = StakeSum(rewards) + q BY <1>2, <1>9, <3>1, StakerBump
    <3>3. QED BY <1>2, <1>9, <2>1, <2>3, <3>1, <3>2
  <2>4. CASE rewards' = [rewards EXCEPT ![a] = 0] /\ payouts' = payouts + PendingRewards(a)
    <3> DEFINE m == -rewards[a]
    <3>1. m \in Int /\ rewards[a] + m = 0 BY <2>2
    <3>2. rewards' \in [Stakers -> Int] /\ rewards'[a] = rewards[a] + m /\ (\A b \in Stakers : b # a => rewards'[b] = rewards[b])
      BY <1>2, <2>4, <3>1
    <3> HIDE DEF m
    <3>3. StakeSum(rewards') = StakeSum(rewards) + m BY <1>2, <3>1, <3>2, StakerBump
    <3>4. payouts' = payouts + (rewards[a] + q) BY <1>7, <2>4
    <3>5. QED BY <1>2, <1>9, <2>1, <2>2, <3>1, <3>2, <3>3, <3>4 DEF m
  <2>5. QED BY <2>3, <2>4
<1>11. WithinEmission'
  <2>1. emission' \in [rate : Nat, end : Nat] BY <1>0 DEF StakingTyped
  <2>2. RewardScale * (emitted' - emission'.rate * Elapsed') = RewardScale * emitted BY <1>0, <2>1, NothingElapsed
  <2> DEFINE k == payouts + StakeSum(rewards)
  <2>3. k \in Int /\ RewardScale \in Int
    <3>1. StakeSum(rewards) \in Int BY <1>2, StakerSums
    <3>2. QED BY <1>2, <3>1
  <2> HIDE DEF k
  <2>4. RewardScale * (k + q) = RewardScale * k + RewardScale * q BY <1>9, <2>3, Distributes
  <2>5. RewardScale * k \in Int /\ RewardScale * q \in Int /\ RewardScale * emitted \in Int BY <1>2, <1>9, <2>3
  <2>6. RewardScale * k + StakeSum(f) <= RewardScale * emitted BY <1>1 DEF k
  <2>7. (RewardScale * k + RewardScale * q) + (StakeSum(f) - f[a]) <= RewardScale * emitted
    BY <1>1, <1>9, <2>5, <2>6
  <2>8. RewardScale * (payouts' + StakeSum(rewards')) + StakeSum(h) <= RewardScale * emitted
    BY <1>8, <1>10, <2>4, <2>7 DEF k
  <2>9. StakeSum(h) = StakeSum(Earned(stakeOf, paidUpTo, perToken))' /\ StakeSum(rewards') = StakeSum(rewards)'
    BY DEF h, StakeSum, Earned
  <2>10. QED BY <2>2, <2>8, <2>9 DEF WithinEmission
<1>12. QED BY <1>1, <1>4, <1>5, <1>10, <1>11

\* One staker's stake, request and the tokens held may change together as long as
\* what was replaced takes up the difference.
LEMMA StakeBooksMove ==
    ASSUME StakingInv, NEW a \in Stakers, NEW x \in Int, NEW w \in Int, NEW h \in Int, NEW r \in Int,
           stakeOf' \in [Stakers -> Int], stakeOf'[a] = stakeOf[a] + x,
           \A b \in Stakers : b # a => stakeOf'[b] = stakeOf[b],
           Waiting'[a] = Waiting[a] + w,
           \A b \in Stakers : b # a => Waiting'[b] = Waiting[b],
           totalStaked' = totalStaked + x, stakeHeld' = stakeHeld + h, replaced' = replaced + r,
           h = x + w + r
    PROVE  StakeAccountedFor'
<1>0. /\ totalStaked = StakeSum(stakeOf) /\ stakeHeld = totalStaked + StakeSum(Waiting) + replaced
      /\ totalStaked \in Int /\ stakeHeld \in Int /\ replaced \in Int
      /\ \A b \in Stakers : stakeOf[b] \in Int
      /\ requests \in [Stakers -> UnbondRequests \cup {NoRequest}]
  BY DEF StakingInv, StakingTyped, StakeAccountedFor
<1>1. \A b \in Stakers : Waiting[b] \in Int BY <1>0, WaitingTypes DEF Waiting
<1>2. StakeSum(Waiting) \in Int BY <1>1, StakerSums
<1>3. StakeSum(stakeOf') = StakeSum(stakeOf) + x BY <1>0, StakerBump
<1>4. StakeSum(Waiting') = StakeSum(Waiting) + w BY <1>1, StakerBump
<1>5. StakeSum(stakeOf') = StakeSum(stakeOf)' /\ StakeSum(Waiting') = StakeSum(Waiting)' BY DEF StakeSum
<1>6. totalStaked' = StakeSum(stakeOf)' BY <1>0, <1>3, <1>5
<1>7. stakeHeld' = totalStaked' + StakeSum(Waiting') + replaced' BY <1>0, <1>2, <1>4
<1>8. QED BY <1>5, <1>6, <1>7 DEF StakeAccountedFor

\* stake settles the staker's reward first, so the new stake earns from now on only.
LEMMA StakeInv ==
    ASSUME StakingInv, NEW a \in Stakers, NEW x \in StakeAmounts, Stake(a, x)
    PROVE  StakingInv'
<1>0. StakingTyped /\ (~ready => emission.rate = 0) /\ x \in Nat /\ ready BY StakingAssumption DEF StakingInv, Stake
<1>1. stakeOf' \in [Stakers -> Nat] /\ stakeOf'[a] = stakeOf[a] + x /\ \A b \in Stakers : b # a => stakeOf'[b] = stakeOf[b]
  BY <1>0 DEF Stake, StakingTyped
<1>2. /\ WithinEmission' /\ perToken' \in Int /\ lastUpdate' = now /\ paidUpTo' \in [Stakers -> Int]
      /\ rewards' \in [Stakers -> Int] /\ payouts' \in Int
  <2>1. /\ Accrue /\ paidUpTo' = [paidUpTo EXCEPT ![a] = Projected]
        /\ rewards' = [rewards EXCEPT ![a] = PendingRewards(a)] /\ payouts' = payouts
        /\ UNCHANGED <<now, emission, emitted>>
    BY DEF Stake, UpdateReward
  <2>2. QED BY <1>1, <2>1, UpdateWithinEmission
<1>3. /\ totalStaked' = totalStaked + x /\ stakeHeld' = stakeHeld + x /\ replaced' = replaced /\ requests' = requests
      /\ UNCHANGED <<now, ready, unbonding, emission, emitted>>
  BY DEF Stake
<1>4. StakeAccountedFor'
  <2>1. \A b \in Stakers : Waiting'[b] = Waiting[b] BY <1>3 DEF Waiting
  <2>2. Waiting[a] \in Int /\ replaced \in Int BY <1>0, WaitingTypes DEF Waiting, StakingTyped
  <2>3. Waiting'[a] = Waiting[a] + 0 /\ replaced' = replaced + 0 /\ x = x + 0 + 0 BY <1>0, <1>3, <2>1, <2>2
  <2>4. stakeOf' \in [Stakers -> Int] /\ x \in Int /\ 0 \in Int BY <1>0, <1>1
  <2>5. QED BY <1>1, <1>3, <2>1, <2>3, <2>4, StakeBooksMove
<1>5. StakingTyped'
  <2>1. totalStaked' \in Int /\ stakeHeld' \in Int /\ replaced' \in Int BY <1>0, <1>3 DEF StakingTyped
  <2>2. QED BY <1>0, <1>1, <1>2, <1>3, <2>1 DEF StakingTyped
<1>6. QED BY <1>0, <1>2, <1>3, <1>4, <1>5 DEF StakingInv

\* claim_rewards pays what was settled and starts over from zero.
LEMMA ClaimRewardsInv ==
    ASSUME StakingInv, NEW a \in Stakers, ClaimRewards(a)
    PROVE  StakingInv'
<1>0. StakingTyped /\ (~ready => emission.rate = 0) /\ StakeAccountedFor BY DEF StakingInv
<1>1. UNCHANGED <<now, ready, unbonding, stakeOf, totalStaked, emission, requests, stakeHeld, emitted, replaced>>
  BY DEF ClaimRewards
<1>2. /\ WithinEmission' /\ perToken' \in Int /\ lastUpdate' = now /\ paidUpTo' \in [Stakers -> Int]
      /\ rewards' \in [Stakers -> Int] /\ payouts' \in Int
  <2>1. /\ Accrue /\ paidUpTo' = [paidUpTo EXCEPT ![a] = Projected]
        /\ rewards' = [rewards EXCEPT ![a] = 0] /\ payouts' = payouts + PendingRewards(a)
    BY DEF ClaimRewards, UpdateReward
  <2>2. stakeOf' \in [Stakers -> Nat] /\ \A b \in Stakers : b # a => stakeOf'[b] = stakeOf[b] BY <1>0, <1>1 DEF StakingTyped
  <2>3. QED BY <1>1, <2>1, <2>2, UpdateWithinEmission
<1>3. StakeAccountedFor' BY <1>0, <1>1 DEF StakeAccountedFor, StakeSum, Waiting
<1>4. StakingTyped' BY <1>0, <1>1, <1>2 DEF StakingTyped
<1>5. QED BY <1>0, <1>1, <1>2, <1>3, <1>4 DEF StakingInv

\* What unstake and slash share leaves the rewards within the emission.
LEMMA TakeStakeFacts ==
    ASSUME StakingInv, NEW a \in Stakers, NEW x \in Int, TakeStake(a, x)
    PROVE  /\ WithinEmission' /\ perToken' \in Int /\ lastUpdate' = now /\ paidUpTo' \in [Stakers -> Int]
           /\ rewards' \in [Stakers -> Int] /\ payouts' \in Int
           /\ stakeOf' \in [Stakers -> Nat] /\ stakeOf'[a] = stakeOf[a] + (-x)
           /\ \A b \in Stakers : b # a => stakeOf'[b] = stakeOf[b]
           /\ totalStaked' = totalStaked + (-x) /\ totalStaked' \in Int
<1>0. StakingTyped BY DEF StakingInv
<1>1. stakeOf[a] \in Nat /\ totalStaked \in Int /\ x <= stakeOf[a] BY <1>0 DEF TakeStake, StakingTyped
<1>2. stakeOf[a] - x \in Nat /\ stakeOf[a] - x = stakeOf[a] + (-x) BY <1>1
<1>3. /\ stakeOf' \in [Stakers -> Nat] /\ stakeOf'[a] = stakeOf[a] - x
      /\ \A b \in Stakers : b # a => stakeOf'[b] = stakeOf[b]
  BY <1>0, <1>2 DEF TakeStake, StakingTyped
<1>4. /\ Accrue /\ paidUpTo' = [paidUpTo EXCEPT ![a] = Projected]
      /\ rewards' = [rewards EXCEPT ![a] = PendingRewards(a)] /\ payouts' = payouts
      /\ UNCHANGED <<now, emission, emitted>>
  BY DEF TakeStake, UpdateReward
<1>5. /\ WithinEmission' /\ perToken' \in Int /\ lastUpdate' = now /\ paidUpTo' \in [Stakers -> Int]
      /\ rewards' \in [Stakers -> Int] /\ payouts' \in Int
  BY <1>3, <1>4, UpdateWithinEmission
<1>6. totalStaked' = totalStaked - x BY DEF TakeStake
<1>7. QED BY <1>1, <1>2, <1>3, <1>5, <1>6

\* slash takes from the stake after settling what it earned.
LEMMA SlashInv ==
    ASSUME StakingInv, NEW a \in Stakers, NEW x \in StakeAmounts, Slash(a, x)
    PROVE  StakingInv'
<1>0. StakingTyped /\ (~ready => emission.rate = 0) /\ x \in Int /\ TakeStake(a, x)
  BY StakingAssumption DEF StakingInv, Slash
<1>1. /\ stakeHeld' = stakeHeld - x /\ replaced' = replaced /\ requests' = requests
      /\ UNCHANGED <<now, ready, unbonding, emission, emitted, payouts>>
  BY DEF Slash, TakeStake
<1> DEFINE m == -x
<1>2. m \in Int /\ stakeHeld' = stakeHeld + m /\ stakeHeld' \in Int /\ replaced' = replaced + 0 /\ m = m + 0 + 0
  BY <1>0, <1>1 DEF StakingTyped
<1>3. /\ WithinEmission' /\ perToken' \in Int /\ lastUpdate' = now /\ paidUpTo' \in [Stakers -> Int]
      /\ rewards' \in [Stakers -> Int] /\ payouts' \in Int
      /\ stakeOf' \in [Stakers -> Nat] /\ stakeOf'[a] = stakeOf[a] + m
      /\ \A b \in Stakers : b # a => stakeOf'[b] = stakeOf[b]
      /\ totalStaked' = totalStaked + m /\ totalStaked' \in Int
  BY <1>0, TakeStakeFacts
<1> HIDE DEF m
<1>4. StakeAccountedFor'
  <2>1. \A b \in Stakers : Waiting'[b] = Waiting[b] BY <1>1 DEF Waiting
  <2>2. Waiting[a] \in Int BY <1>0, WaitingTypes DEF Waiting, StakingTyped
  <2>3. Waiting'[a] = Waiting[a] + 0 BY <2>1, <2>2
  <2>4. stakeOf' \in [Stakers -> Int] /\ 0 \in Int BY <1>3
  <2>5. QED BY <1>2, <1>3, <2>1, <2>3, <2>4, StakeBooksMove
<1>5. StakingTyped' BY <1>0, <1>1, <1>2, <1>3 DEF StakingTyped
<1>6. QED BY <1>0, <1>1, <1>3, <1>4, <1>5 DEF StakingInv

\* unstake moves stake into a request, which may replace one that waits.
LEMMA UnstakeInv ==
    ASSUME StakingInv, NEW a \in Stakers, NEW x \in StakeAmounts, Unstake(a, x)
    PROVE  StakingInv'
<1>0. StakingTyped /\ (~ready => emission.rate = 0) /\ x \in Int /\ TakeStake(a, x)
  BY StakingAssumption DEF StakingInv, Unstake
<1>1. UNCHANGED <<now, ready, unbonding, emission, emitted, payouts>> BY <1>0 DEF TakeStake
<1> DEFINE m == -x
<1>2. m \in Int BY <1>0
<1>3. /\ WithinEmission' /\ perToken' \in Int /\ lastUpdate' = now /\ paidUpTo' \in [Stakers -> Int]
      /\ rewards' \in [Stakers -> Int] /\ payouts' \in Int
      /\ stakeOf' \in [Stakers -> Nat] /\ stakeOf'[a] = stakeOf[a] + m
      /\ \A b \in Stakers : b # a => stakeOf'[b] = stakeOf[b]
      /\ totalStaked' = totalStaked + m /\ totalStaked' \in Int
  BY <1>0, TakeStakeFacts
<1>4. stakeOf' \in [Stakers -> Int] /\ 0 \in Int BY <1>3
<1>5. /\ Waiting[a] \in Int /\ replaced \in Int /\ stakeHeld \in Int
      /\ requests \in [Stakers -> UnbondRequests \cup {NoRequest}] /\ now \in Nat /\ unbonding \in Nat
  BY <1>0, WaitingTypes DEF Waiting, StakingTyped
<1>6. /\ requests' \in [Stakers -> UnbondRequests \cup {NoRequest}] /\ stakeHeld' \in Int /\ replaced' \in Int
      /\ StakeAccountedFor'
  <2>1. CASE unbonding = 0
    <3>1. stakeHeld' = stakeHeld - x /\ replaced' = replaced /\ requests' = requests BY <2>1 DEF Unstake
    <3>2. stakeHeld' = stakeHeld + m /\ stakeHeld' \in Int /\ replaced' = replaced + 0 /\ m = m + 0 + 0
      BY <1>0, <1>5, <3>1
    <3>3. \A b \in Stakers : Waiting'[b] = Waiting[b] BY <3>1 DEF Waiting
    <3>4. Waiting'[a] = Waiting[a] + 0 BY <1>5, <3>3
    <3> HIDE DEF m
    <3>5. StakeAccountedFor' BY <1>2, <1>3, <1>4, <3>2, <3>3, <3>4, StakeBooksMove
    <3>6. QED BY <1>5, <3>1, <3>2, <3>5
  <2>2. CASE unbonding # 0
    <3> DEFINE v == [amount |-> x, ready |-> now + unbonding]
               w == x - Waiting[a]
    <3>1. stakeHeld' = stakeHeld /\ replaced' = replaced + Waiting[a] /\ requests' = [requests EXCEPT ![a] = v]
      BY <2>2 DEF Unstake
    <3>2. v \in UnbondRequests /\ v # NoRequest /\ v.amount = x
      BY <1>0, <1>5, StakingAssumption DEF UnbondRequests
    <3> HIDE DEF v
    <3>3. requests' \in [Stakers -> UnbondRequests \cup {NoRequest}] /\ requests'[a] = v /\ \A b \in Stakers : b # a => requests'[b] = requests[b]
      BY <1>5, <3>1, <3>2
    <3>4. Waiting'[a] = x /\ \A b \in Stakers : b # a => Waiting'[b] = Waiting[b] BY <3>2, <3>3 DEF Waiting
    <3>5. w \in Int /\ Waiting[a] + w = x /\ stakeHeld' = stakeHeld + 0 /\ 0 = m + w + Waiting[a] BY <1>0, <1>5, <3>1
    <3>6. Waiting'[a] = Waiting[a] + w BY <3>4, <3>5
    <3> HIDE DEF m, w
    <3>7. StakeAccountedFor' BY <1>2, <1>3, <1>4, <1>5, <3>1, <3>4, <3>5, <3>6, StakeBooksMove
    <3>8. QED BY <1>5, <3>1, <3>3, <3>7
  <2>3. QED BY <2>1, <2>2
<1>7. StakingTyped' BY <1>0, <1>1, <1>3, <1>6 DEF StakingTyped
<1>8. QED BY <1>0, <1>1, <1>3, <1>6, <1>7 DEF StakingInv

\* withdraw pays a request that is due.
LEMMA WithdrawStakeInv ==
    ASSUME StakingInv, NEW a \in Stakers, WithdrawStake(a)
    PROVE  StakingInv'
<1>0. StakingTyped /\ (~ready => emission.rate = 0) /\ WithinEmission BY DEF StakingInv
<1>1. UNCHANGED <<now, ready, unbonding, stakeOf, totalStaked, perToken, paidUpTo, rewards,
                  emission, lastUpdate, emitted, payouts, replaced>>
  BY DEF WithdrawStake
<1>2. requests[a] # NoRequest /\ requests' = [requests EXCEPT ![a] = NoRequest] /\ stakeHeld' = stakeHeld - requests[a].amount
  BY DEF WithdrawStake
<1>3. /\ requests \in [Stakers -> UnbondRequests \cup {NoRequest}] /\ replaced \in Int /\ stakeHeld \in Int
      /\ totalStaked \in Int /\ stakeOf \in [Stakers -> Nat]
  BY <1>0 DEF StakingTyped
<1>4. requests[a].amount \in Int /\ Waiting[a] = requests[a].amount
  <2>1. requests[a] \in UnbondRequests BY <1>2, <1>3
  <2>2. QED BY <1>2, <2>1 DEF UnbondRequests, Waiting
<1>5. requests' \in [Stakers -> UnbondRequests \cup {NoRequest}] /\ requests'[a] = NoRequest /\ \A b \in Stakers : b # a => requests'[b] = requests[b]
  BY <1>2, <1>3
<1>6. Waiting'[a] = 0 /\ \A b \in Stakers : b # a => Waiting'[b] = Waiting[b] BY <1>5 DEF Waiting
<1> DEFINE m == -requests[a].amount
<1>7. m \in Int /\ Waiting'[a] = Waiting[a] + m /\ stakeHeld' = stakeHeld + m /\ stakeHeld' \in Int /\ m = 0 + m + 0
  BY <1>2, <1>3, <1>4, <1>6
<1>8. /\ stakeOf' \in [Stakers -> Int] /\ stakeOf'[a] = stakeOf[a] + 0 /\ (\A b \in Stakers : b # a => stakeOf'[b] = stakeOf[b])
      /\ totalStaked' = totalStaked + 0 /\ replaced' = replaced + 0 /\ 0 \in Int
  BY <1>1, <1>3
<1> HIDE DEF m
<1>9. StakeAccountedFor' BY <1>6, <1>7, <1>8, StakeBooksMove
<1>10. StakingTyped' BY <1>0, <1>1, <1>5, <1>7 DEF StakingTyped
<1>11. WithinEmission' BY <1>0, <1>1 DEF WithinEmission, StakeSum, Earned, Elapsed
<1>12. QED BY <1>0, <1>1, <1>9, <1>10, <1>11 DEF StakingInv

\* A new rate starts from the accumulator brought up to date.
LEMMA SetRewardRateInv ==
    ASSUME StakingInv, NEW rate \in Rates, NEW end \in PeriodEnds, SetRewardRate(rate, end)
    PROVE  StakingInv'
<1>0. StakingTyped /\ StakeAccountedFor BY DEF StakingInv
<1>1. ready /\ Accrue /\ emission' = [rate |-> rate, end |-> end] /\ rate \in Nat /\ end \in Nat
  BY StakingAssumption DEF SetRewardRate
<1>2. UNCHANGED <<now, ready, unbonding, stakeOf, totalStaked, paidUpTo, rewards, requests,
                  stakeHeld, emitted, payouts, replaced>>
  BY DEF SetRewardRate
<1>3. emission' \in [rate : Nat, end : Nat] BY <1>1
<1>4. perToken' = Projected /\ lastUpdate' = now BY <1>1 DEF Accrue
<1>5. /\ Projected \in Int
      /\ RewardScale * (payouts + StakeSum(rewards)) + StakeSum(Earned(stakeOf, paidUpTo, Projected)) <= RewardScale * emitted
  BY PromisedWithinEmission
<1>6. RewardScale * (emitted' - emission'.rate * Elapsed') = RewardScale * emitted
  BY <1>0, <1>1, <1>2, <1>3, NothingElapsed
<1>7. /\ (payouts + StakeSum(rewards))' = payouts + StakeSum(rewards)
      /\ StakeSum(Earned(stakeOf, paidUpTo, perToken))' = StakeSum(Earned(stakeOf, paidUpTo, Projected))
  BY <1>2, <1>4 DEF StakeSum, Earned
<1>8. WithinEmission' BY <1>5, <1>6, <1>7 DEF WithinEmission
<1>9. StakeAccountedFor' BY <1>0, <1>2 DEF StakeAccountedFor, StakeSum, Waiting
<1>10. StakingTyped' BY <1>0, <1>2, <1>3, <1>4, <1>5 DEF StakingTyped
<1>11. QED BY <1>1, <1>2, <1>8, <1>9, <1>10 DEF StakingInv

\* initialize comes first, while nothing is emitted.
LEMMA InitializeStakingInv ==
    ASSUME StakingInv, InitializeStaking
    PROVE  StakingInv'
<1>0. StakingTyped /\ emission.rate = 0 /\ StakeAccountedFor /\ WithinEmission BY DEF StakingInv, InitializeStaking
<1>1. /\ ready' = TRUE /\ lastUpdate' = now
      /\ UNCHANGED <<now, unbonding, stakeOf, totalStaked, perToken, paidUpTo, rewards, emission,
                     requests, stakeHeld, emitted, payouts, replaced>>
  BY DEF InitializeStaking
<1>2. StakingTyped' BY <1>0, <1>1 DEF StakingTyped
<1>3. Elapsed \in Int /\ Elapsed' \in Int BY <1>0, <1>1 DEF Elapsed, Earlier, StakingTyped
<1>4. emission.rate * Elapsed = 0 /\ emission'.rate * Elapsed' = 0 BY <1>0, <1>1, <1>3
<1>5. WithinEmission' BY <1>0, <1>1, <1>4 DEF WithinEmission, StakeSum, Earned
<1>6. StakeAccountedFor' BY <1>0, <1>1 DEF StakeAccountedFor, StakeSum, Waiting
<1>7. QED BY <1>1, <1>2, <1>5, <1>6 DEF StakingInv

\* A ledger that belongs to the period adds the rate to the emission and one to the
\* ledgers not accounted for; any other adds to neither.
LEMMA StakingTickInv ==
    ASSUME StakingInv, StakingTick
    PROVE  StakingInv'
<1>0. StakingTyped /\ (~ready => emission.rate = 0) /\ StakeAccountedFor /\ WithinEmission BY DEF StakingInv
<1>1. /\ now' = now + 1
      /\ emitted' = emitted + IF ready /\ now' <= emission.end THEN emission.rate ELSE 0
      /\ UNCHANGED <<ready, unbonding, stakeOf, totalStaked, perToken, paidUpTo, rewards, emission,
                     lastUpdate, requests, stakeHeld, payouts, replaced>>
  BY DEF StakingTick, LedgerCloses
<1>2. /\ now \in Nat /\ lastUpdate \in Nat /\ lastUpdate <= now /\ emission.end \in Nat /\ emission.rate \in Nat /\ emitted \in Int
  BY <1>0 DEF StakingTyped
<1> DEFINE r == emission.rate
<1>3. Elapsed \in Int /\ r \in Int BY <1>2 DEF Elapsed, Earlier
<1>4. emitted' \in Int /\ emitted' - r * Elapsed' = emitted - r * Elapsed
  <2>1. CASE now' <= emission.end
    <3>1. Elapsed' = Elapsed + 1 BY <1>1, <1>2, <2>1 DEF Elapsed, Earlier
    <3>2. emitted' = emitted + r
      <4>1. CASE ready BY <1>1, <2>1, <4>1
      <4>2. CASE ~ready BY <1>0, <1>1, <1>2, <4>2
      <4>3. QED BY <4>1, <4>2
    <3> HIDE DEF r
    <3>3. r * (Elapsed + 1) = r * Elapsed + r * 1 BY <1>3, Distributes
    <3>4. r * 1 = r /\ r * Elapsed \in Int BY <1>3
    <3>5. QED BY <1>2, <1>3, <3>1, <3>2, <3>3, <3>4
  <2>2. CASE ~(now' <= emission.end)
    <3>1. Elapsed' = Elapsed BY <1>1, <1>2, <2>2 DEF Elapsed, Earlier
    <3>2. emitted' = emitted BY <1>1, <1>2, <2>2
    <3>3. QED BY <1>2, <3>1, <3>2
  <2>3. QED BY <2>1, <2>2
<1>5. WithinEmission' BY <1>0, <1>1, <1>4 DEF WithinEmission, StakeSum, Earned
<1>6. StakeAccountedFor' BY <1>0, <1>1 DEF StakeAccountedFor, StakeSum, Waiting
<1>7. StakingTyped' BY <1>0, <1>1, <1>2, <1>4 DEF StakingTyped
<1>8. QED BY <1>0, <1>1, <1>5, <1>6, <1>7 DEF StakingInv

\* Every step of the staking contract keeps the invariant.
LEMMA StakingInduction == StakingInv /\ [StakingNext]_stakingVars => StakingInv'
<1> SUFFICES ASSUME StakingInv, [StakingNext]_stakingVars PROVE StakingInv' OBVIOUS
<1>1. CASE InitializeStaking BY <1>1, InitializeStakingInv
<1>2. CASE \E rate \in Rates, end \in PeriodEnds : SetRewardRate(rate, end) BY <1>2, SetRewardRateInv
<1>3. CASE \E a \in Stakers, x \in StakeAmounts : Stake(a, x) \/ Slash(a, x) BY <1>3, StakeInv, SlashInv
<1>4. CASE \E a \in Stakers, x \in StakeAmounts : Unstake(a, x) BY <1>4, UnstakeInv
<1>5. CASE \E a \in Stakers : ClaimRewards(a) \/ WithdrawStake(a) BY <1>5, ClaimRewardsInv, WithdrawStakeInv
<1>6. CASE StakingTick BY <1>6, StakingTickInv
<1>7. CASE UNCHANGED stakingVars
  <2>1. UNCHANGED <<now, ready, unbonding, stakeOf, totalStaked, perToken, paidUpTo, rewards, emission,
                    lastUpdate, requests, stakeHeld, emitted, payouts, replaced>>
    BY <1>7 DEF stakingVars, stakingOnlyVars
  <2>2. StakingTyped' /\ (~ready => emission.rate = 0)' BY <2>1 DEF StakingInv, StakingTyped
  <2>3. WithinEmission' BY <2>1 DEF StakingInv, WithinEmission, StakeSum, Earned, Elapsed
  <2>4. StakeAccountedFor' BY <2>1 DEF StakingInv, StakeAccountedFor, StakeSum, Waiting
  <2>5. QED BY <2>2, <2>3, <2>4 DEF StakingInv
<1>8. QED BY <1>1, <1>2, <1>3, <1>4, <1>5, <1>6, <1>7 DEF StakingNext

\* The staking contract starts with nothing staked, emitted or paid.
LEMMA StakingStart == StakingInit => StakingInv
<1> SUFFICES ASSUME StakingInit PROVE StakingInv OBVIOUS
<1> DEFINE zero == [a \in Stakers |-> 0]
<1>0. /\ now = 0 /\ lastUpdate = 0 /\ emission = [rate |-> 0, end |-> 0] /\ ready = FALSE
      /\ stakeOf = zero /\ totalStaked = 0 /\ perToken = 0 /\ paidUpTo = zero /\ rewards = zero
      /\ requests = [a \in Stakers |-> NoRequest] /\ unbonding \in Nat
      /\ stakeHeld = 0 /\ emitted = 0 /\ payouts = 0 /\ replaced = 0
  BY StakingAssumption DEF StakingInit
<1>1. StakingTyped
  <2>1. zero \in [Stakers -> Nat] /\ zero \in [Stakers -> Int] /\ emission \in [rate : Nat, end : Nat] BY <1>0
  <2>2. ready \in BOOLEAN /\ requests \in [Stakers -> UnbondRequests \cup {NoRequest}] BY <1>0
  <2> HIDE DEF zero
  <2>3. QED BY <1>0, <2>1, <2>2 DEF StakingTyped
<1>2. StakeSum(zero) = 0 BY StakingAssumption, SumOfZeros DEF StakeSum
<1>3. StakeSum(Waiting) = 0
  <2>1. \A a \in Stakers : Waiting[a] = 0 BY <1>0 DEF Waiting
  <2>2. QED BY <2>1, StakingAssumption, SumOfZeros DEF StakeSum
<1>4. StakeSum(Earned(stakeOf, paidUpTo, perToken)) = 0
  <2>1. \A a \in Stakers : Earned(stakeOf, paidUpTo, perToken)[a] = 0 BY <1>0 DEF Earned
  <2>2. QED BY <2>1, StakingAssumption, SumOfZeros DEF StakeSum
<1>5. StakeAccountedFor BY <1>0, <1>2, <1>3 DEF StakeAccountedFor
<1>6. WithinEmission
  <2>1. Elapsed = 0 BY <1>0 DEF Elapsed, Earlier
  <2>2. emission.rate * Elapsed = 0 /\ payouts + StakeSum(rewards) = 0 /\ emitted = 0 BY <1>0, <1>2, <2>1
  <2>3. RewardScale * 0 = 0 BY StakingAssumption
  <2>4. QED BY <1>4, <2>2, <2>3 DEF WithinEmission
<1>7. QED BY <1>0, <1>1, <1>5, <1>6 DEF StakingInv

\* Rewards paid and pending are whole parts of what was credited and promised.
LEMMA RewardsWithinEmission == StakingInv => NeverOverDistributes
<1> SUFFICES ASSUME StakingInv PROVE NeverOverDistributes OBVIOUS
<1> DEFINE f == Earned(stakeOf, paidUpTo, Projected)
           p == [a \in Stakers |-> PendingRewards(a)]
           sp == [a \in Stakers |-> RewardScale * p[a]]
           sr == [a \in Stakers |-> RewardScale * rewards[a]]
           t == [a \in Stakers |-> sr[a] + f[a]]
<1>1. /\ Projected \in Int /\ StakeSum(f) \in Int
      /\ RewardScale * (payouts + StakeSum(rewards)) + StakeSum(f) <= RewardScale * emitted
  BY PromisedWithinEmission
<1>2. /\ emitted \in Int /\ payouts \in Int /\ RewardScale \in Nat \ {0} /\ RewardScale \in Int
      /\ \A a \in Stakers : stakeOf[a] \in Int /\ paidUpTo[a] \in Int /\ rewards[a] \in Int
  BY StakingAssumption DEF StakingInv, StakingTyped
<1>3. \A a \in Stakers : f[a] \in Int /\ p[a] \in Int /\ sp[a] \in Int /\ sr[a] \in Int /\ t[a] \in Int /\ sp[a] <= t[a]
  <2>1. ASSUME NEW a \in Stakers
        PROVE  f[a] \in Int /\ p[a] \in Int /\ sp[a] \in Int /\ sr[a] \in Int /\ t[a] \in Int /\ sp[a] <= t[a]
    <3> DEFINE q == f[a] \div RewardScale
    <3>1. Projected - paidUpTo[a] \in Int BY <1>1, <1>2
    <3>2. f[a] \in Int /\ f[a] = stakeOf[a] * (Projected - paidUpTo[a]) BY <1>2, <3>1 DEF Earned
    <3>3. p[a] = rewards[a] + q BY <3>2 DEF PendingRewards, EarnedAt
    <3>4. sp[a] = RewardScale * p[a] /\ sr[a] = RewardScale * rewards[a] /\ t[a] = sr[a] + f[a] OBVIOUS
    <3>5. q \in Int /\ RewardScale * q <= f[a] BY <1>2, <3>2
    <3> HIDE DEF q, f, p, sp, sr, t
    <3>6. RewardScale * (rewards[a] + q) = RewardScale * rewards[a] + RewardScale * q BY <1>2, <3>5, Distributes
    <3>7. RewardScale * q \in Int /\ RewardScale * rewards[a] \in Int /\ p[a] \in Int BY <1>2, <3>3, <3>5
    <3>8. QED BY <3>2, <3>3, <3>4, <3>5, <3>6, <3>7
  <2>2. QED BY <2>1
<1>4. \A a \in Stakers : sp[a] = RewardScale * p[a] /\ sr[a] = RewardScale * rewards[a] /\ t[a] = sr[a] + f[a] OBVIOUS
<1> HIDE DEF f, p, sp, sr, t
<1>5. StakeSum(sp) <= StakeSum(t) BY <1>3, StakingAssumption, SumGrows DEF StakeSum
<1>6. StakeSum(t) = StakeSum(sr) + StakeSum(f) BY <1>3, <1>4, StakingAssumption, SumPlus DEF StakeSum
<1>7. StakeSum(sp) = RewardScale * StakeSum(p) BY <1>2, <1>3, <1>4, StakingAssumption, SumScale DEF StakeSum
<1>8. StakeSum(sr) = RewardScale * StakeSum(rewards) BY <1>2, <1>4, StakingAssumption, SumScale DEF StakeSum
<1>9. StakeSum(p) \in Int /\ StakeSum(rewards) \in Int /\ StakeSum(sp) \in Int /\ StakeSum(sr) \in Int /\ StakeSum(t) \in Int
  BY <1>2, <1>3, StakerSums
<1>10. RewardScale * (payouts + StakeSum(rewards)) = RewardScale * payouts + RewardScale * StakeSum(rewards)
  BY <1>2, <1>9, Distributes
<1>11. RewardScale * (payouts + StakeSum(p)) = RewardScale * payouts + RewardScale * StakeSum(p)
  BY <1>2, <1>9, Distributes
<1> DEFINE u == payouts + StakeSum(p)
<1>12. u \in Int /\ RewardScale * payouts \in Int /\ RewardScale * emitted \in Int BY <1>2, <1>9
<1>13. RewardScale * u <= RewardScale * emitted
  BY <1>1, <1>5, <1>6, <1>7, <1>8, <1>9, <1>10, <1>11, <1>12
<1> HIDE DEF u
<1>14. u <= emitted BY <1>2, <1>12, <1>13
<1>15. QED BY <1>14 DEF u, p, NeverOverDistributes

\* However stakes, slashes, partial unstakes and withdrawals interleave, the contract's
\* tokens are staked, waiting, or of a request that a later unstake replaced, and
\* TotalStaked is the sum of the stakes: for any stakers, amounts and unbonding period.
THEOREM StakesAreAccountedFor == StakingSpec => []StakeAccountedFor
<1>1. StakingInv => StakeAccountedFor BY DEF StakingInv
<1>2. QED BY <1>1, StakingStart, StakingInduction, PTL DEF StakingSpec

\* The reward-per-token accumulator never promises more than was emitted, for any
\* number of stakers, any rates and periods, and any fixed-point scale, roundings included.
THEOREM RewardsNeverExceedEmission == StakingSpec => []NeverOverDistributes
BY StakingStart, StakingInduction, RewardsWithinEmission, PTL DEF StakingSpec
====
