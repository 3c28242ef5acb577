---- MODULE Crowdfund ----
(***************************************************************************)
(* The crowdfunding campaign (contracts/crowdfund): backers pledge towards *)
(* a goal; after the deadline the creator claims a successful campaign and *)
(* backers take back a failed, a cancelled or an unclaimed one.            *)
(*                                                                         *)
(* Pledges through the token whitelist are booked apart and count one to   *)
(* one towards the same total; the campaign's own token may be on the      *)
(* list.  Milestone votes are stored and never read, so they do not        *)
(* appear, and the stray list refund_batch would store at its end (no      *)
(* variable of that name exists there) is left out.  released is a history *)
(* variable.                                                               *)
(***************************************************************************)
EXTENDS HostClock, Sequences, FiniteSetsExt

CONSTANTS
    Backers,          \* addresses that pledge
    BackerFunds,      \* what each backer holds at first
    Campaigns,        \* candidate [goal, deadline, cap, window, tiers]; a tier is
                      \* its max_backers
    PledgeAmounts,    \* candidate pledges
    NewDeadlines,     \* candidate extended deadlines
    RefundLists,      \* candidate lists of backers for refund_batch
    MilestoneLists,   \* candidate milestone lists: sequences of amounts
    MaxOther,         \* bound: pledges in other tokens
    Unbounded         \* an absent pledge cap or max_backers

MaxTiers == 2  \* bound: tiers a campaign may have
TierIds == 1..MaxTiers
NoTier == 0

PledgeTokens == {"own", "other"}  \* the campaign's token, and any other one

CampaignTerms ==
    [goal : Int, deadline : Nat, cap : Int \cup {Unbounded}, window : Nat,
     tiers : Seq(Nat \cup {Unbounded})]

ASSUME CrowdfundAssumption ==
    /\ BackerFunds \in Nat /\ MaxOther \in Nat /\ Unbounded \notin Int
    /\ PledgeAmounts \subseteq Int /\ NewDeadlines \subseteq Nat
    /\ IsFiniteSet(Backers)
    /\ \A c \in Campaigns : c \in CampaignTerms /\ Len(c.tiers) <= MaxTiers
    /\ RefundLists \subseteq Seq(Backers)
    /\ MilestoneLists \subseteq Seq(Nat)

VARIABLES
    campaign,      \* Goal, Deadline, MaxPledgePerAddress, ClaimWindow, Tiers keys
    launched,      \* is the Creator key present?
    extended,      \* DeadlineExtended key
    totalPledged,  \* TotalPledged key
    fundsClaimed,  \* Claimed key
    called_off,    \* Cancelled key
    pledgeOf,      \* Pledge keys
    tierOf,        \* PledgeTier keys
    backerCount,   \* TierBackerCount keys
    milestones,    \* Milestones key
    milestonesOut, \* MilestoneReleased keys
    whitelisted,   \* WhitelistedTokens key, a set
    altPledged,    \* TokenTotalPledged keys
    pot,           \* what the contract holds of the campaign's token
    purseOf,       \* what each backer holds of it
    released       \* what release_milestone has paid the creator

crowdfundOnlyVars ==
    <<campaign, launched, extended, totalPledged, fundsClaimed, called_off, pledgeOf, tierOf,
      backerCount, milestones, milestonesOut, whitelisted, altPledged, pot, purseOf, released>>
crowdfundVars == <<now, crowdfundOnlyVars>>

Pledges == SumFunctionOnSet(pledgeOf, Backers)
GoalMet == totalPledged >= campaign.goal
Running == now <= campaign.deadline

CrowdfundInit ==
    /\ now = 0
    /\ campaign \in Campaigns /\ launched = FALSE /\ extended = FALSE
    /\ totalPledged = 0 /\ fundsClaimed = FALSE /\ called_off = FALSE
    /\ pledgeOf = [a \in Backers |-> 0] /\ tierOf = [a \in Backers |-> NoTier]
    /\ backerCount = [i \in TierIds |-> 0]
    /\ milestones = <<>> /\ milestonesOut = {}
    /\ whitelisted = {} /\ altPledged = [t \in PledgeTokens |-> 0]
    /\ pot = 0 /\ purseOf = [a \in Backers |-> BackerFunds]
    /\ released = 0

\* Creator.  The candidate terms are part of the initial state; tier thresholds,
\* which must be positive and only get_info reads, are left out.
InitializeCampaign ==
    /\ ~launched
    /\ campaign.goal > 0
    /\ campaign.deadline > now
    /\ campaign.cap # Unbounded => campaign.cap > 0
    /\ launched' = TRUE
    /\ UNCHANGED <<now, campaign, extended, totalPledged, fundsClaimed, called_off, pledgeOf, tierOf,
                   backerCount, milestones, milestonesOut, whitelisted, altPledged, pot, purseOf, released>>

\* A tier with a limit takes new backers up to it.
TierOpen(a, i) ==
    campaign.tiers[i] # Unbounded /\ tierOf[a] # i => backerCount[i] < campaign.tiers[i]

\* A backer; i is the chosen tier, or NoTier.
Pledge(a, x, i) ==
    /\ launched
    /\ x > 0
    /\ Running
    /\ ~called_off
    /\ campaign.cap # Unbounded => pledgeOf[a] + x <= campaign.cap
    /\ i # NoTier => i \in DOMAIN campaign.tiers /\ TierOpen(a, i)
    /\ purseOf[a] >= x
    /\ backerCount' =
         IF i # NoTier /\ campaign.tiers[i] # Unbounded /\ tierOf[a] # i
         THEN [backerCount EXCEPT ![i] = @ + 1] ELSE backerCount
    /\ tierOf' = IF i # NoTier THEN [tierOf EXCEPT ![a] = i] ELSE tierOf
    /\ pledgeOf' = [pledgeOf EXCEPT ![a] = @ + x]
    /\ totalPledged' = totalPledged + x
    /\ pot' = pot + x
    /\ purseOf' = [purseOf EXCEPT ![a] = @ - x]
    /\ UNCHANGED <<now, campaign, launched, extended, fundsClaimed, called_off, milestones,
                   milestonesOut, whitelisted, altPledged, released>>

\* A backer, in a whitelisted token t; other tokens are in ample supply.
PledgeWithToken(a, t, x) ==
    /\ launched
    /\ x > 0
    /\ Running
    /\ t \in whitelisted
    /\ t = "own" => purseOf[a] >= x
    /\ altPledged' = [altPledged EXCEPT ![t] = @ + x]
    /\ totalPledged' = totalPledged + x
    /\ pot' = IF t = "own" THEN pot + x ELSE pot
    /\ purseOf' = IF t = "own" THEN [purseOf EXCEPT ![a] = @ - x] ELSE purseOf
    /\ UNCHANGED <<now, campaign, launched, extended, fundsClaimed, called_off, pledgeOf, tierOf,
                   backerCount, milestones, milestonesOut, whitelisted, released>>

\* What withdraw, refund and refund_batch pay: the pledges of the backers in S.
PayBack(S) ==
    LET due == SumFunctionOnSet(pledgeOf, S) IN
    /\ pot >= due
    /\ pot' = pot - due
    /\ purseOf' = [a \in Backers |-> IF a \in S THEN purseOf[a] + pledgeOf[a] ELSE purseOf[a]]
    /\ pledgeOf' = [a \in Backers |-> IF a \in S THEN 0 ELSE pledgeOf[a]]
    /\ UNCHANGED <<now, campaign, launched, extended, fundsClaimed, called_off, tierOf, backerCount,
                   milestones, milestonesOut, whitelisted, altPledged, released>>

\* A backer.
WithdrawPledge(a) ==
    /\ launched
    /\ Running
    /\ ~GoalMet
    /\ pledgeOf[a] > 0
    /\ PayBack({a})
    /\ totalPledged' = totalPledged - pledgeOf[a]

\* Creator.
ExtendCampaign(dl) ==
    /\ launched
    /\ Running
    /\ ~extended
    /\ dl > campaign.deadline
    /\ campaign' = [campaign EXCEPT !.deadline = dl]
    /\ extended' = TRUE
    /\ UNCHANGED <<now, launched, totalPledged, fundsClaimed, called_off, pledgeOf, tierOf, backerCount,
                   milestones, milestonesOut, whitelisted, altPledged, pot, purseOf, released>>

\* Mutant: the creator takes whatever is in the contract.
ClaimPot ==
    /\ launched /\ ~Running /\ ~fundsClaimed /\ GoalMet
    /\ fundsClaimed' = TRUE /\ pot' = 0
    /\ UNCHANGED <<now, campaign, launched, extended, totalPledged, called_off, pledgeOf, tierOf,
                   backerCount, milestones, milestonesOut, whitelisted, altPledged, purseOf, released>>

\* Creator.
ClaimFunds ==
    /\ launched
    /\ ~Running
    /\ ~fundsClaimed
    /\ GoalMet
    /\ pot >= totalPledged
    /\ fundsClaimed' = TRUE
    /\ pot' = pot - totalPledged
    /\ UNCHANGED <<now, campaign, launched, extended, totalPledged, called_off, pledgeOf, tierOf,
                   backerCount, milestones, milestonesOut, whitelisted, altPledged, purseOf, released>>

\* A backer: a failed or cancelled campaign, or one not claimed in the claim window.
RefundPledge(a) ==
    /\ launched
    /\ called_off \/ ~Running
    /\ called_off \/ ~GoalMet \/ (~fundsClaimed /\ now > campaign.deadline + campaign.window)
    /\ pledgeOf[a] > 0
    /\ PayBack({a})
    /\ UNCHANGED totalPledged

\* Mutant: every occurrence of a name is paid, the pledges removed at the end.
RefundEachMention(list) ==
    LET due == MapThenSumSet(LAMBDA i : pledgeOf[list[i]], DOMAIN list) IN
    /\ launched /\ (called_off \/ (~Running /\ ~GoalMet))
    /\ pot >= due /\ pot' = pot - due
    /\ pledgeOf' = [a \in Backers |-> IF \E i \in DOMAIN list : list[i] = a THEN 0 ELSE pledgeOf[a]]
    /\ UNCHANGED <<now, campaign, launched, extended, totalPledged, fundsClaimed, called_off, tierOf,
                   backerCount, milestones, milestonesOut, whitelisted, altPledged, purseOf, released>>

\* Anyone.  Listed twice, a backer is paid once: the first payment removes the pledge.
RefundBatch(list) ==
    /\ launched
    /\ called_off \/ ~Running
    /\ called_off \/ ~GoalMet
    /\ PayBack({list[i] : i \in DOMAIN list})
    /\ UNCHANGED totalPledged

\* Creator.
CancelCampaign ==
    /\ launched
    /\ Running
    /\ ~called_off
    /\ called_off' = TRUE
    /\ UNCHANGED <<now, campaign, launched, extended, totalPledged, fundsClaimed, pledgeOf, tierOf,
                   backerCount, milestones, milestonesOut, whitelisted, altPledged, pot, purseOf, released>>

\* Creator, as often as it likes.
SetMilestones(list) ==
    /\ launched
    /\ ~called_off
    /\ milestones' = list
    /\ UNCHANGED <<now, campaign, launched, extended, totalPledged, fundsClaimed, called_off, pledgeOf,
                   tierOf, backerCount, milestonesOut, whitelisted, altPledged, pot, purseOf, released>>

\* Creator.  Neither votes nor goal nor deadline are consulted.
ReleaseCampaignMilestone(i) ==
    /\ launched
    /\ i \in DOMAIN milestones
    /\ i \notin milestonesOut
    /\ pot >= milestones[i]
    /\ milestonesOut' = milestonesOut \cup {i}
    /\ pot' = pot - milestones[i]
    /\ released' = released + milestones[i]
    /\ UNCHANGED <<now, campaign, launched, extended, totalPledged, fundsClaimed, called_off, pledgeOf,
                   tierOf, backerCount, milestones, whitelisted, altPledged, purseOf>>

\* Creator.
WhitelistTokens(T) ==
    /\ launched
    /\ whitelisted' = T
    /\ UNCHANGED <<now, campaign, launched, extended, totalPledged, fundsClaimed, called_off, pledgeOf,
                   tierOf, backerCount, milestones, milestonesOut, altPledged, pot, purseOf, released>>

CrowdfundNext ==
    \/ InitializeCampaign
    \/ \E a \in Backers, x \in PledgeAmounts, i \in {NoTier} \cup TierIds : Pledge(a, x, i)
    \/ \E a \in Backers, t \in PledgeTokens, x \in PledgeAmounts :
          altPledged["other"] + x <= MaxOther /\ PledgeWithToken(a, t, x)
    \/ \E a \in Backers : WithdrawPledge(a) \/ RefundPledge(a)
    \/ \E dl \in NewDeadlines : ExtendCampaign(dl)
    \/ ClaimFunds
    \/ \E list \in RefundLists : RefundBatch(list)
    \/ CancelCampaign
    \/ \E list \in MilestoneLists : SetMilestones(list)
    \/ \E i \in DOMAIN milestones : ReleaseCampaignMilestone(i)
    \/ \E T \in SUBSET PledgeTokens : WhitelistTokens(T)
    \/ LedgerCloses /\ UNCHANGED crowdfundOnlyVars

CrowdfundSpec == CrowdfundInit /\ [][CrowdfundNext]_crowdfundVars

----
(* Properties.                                                             *)

\* Until the creator claims, the pot and what milestones took out of it are every
\* recorded pledge and nothing but pledges: however pledge, withdraw, refund,
\* refund_batch naming a backer repeatedly and release_milestone follow each other.
PledgesCovered == ~fundsClaimed => pot + released = Pledges + altPledged["own"]

\* claim takes everything or nothing: when it has succeeded on a campaign that was
\* not cancelled, no pledge was paid back, no milestone was paid out, nothing is left
\* and nothing leaves later.  Refunds and milestones leave TotalPledged as it was, so
\* a claim after either finds less than it asks for and fails.  This is less than
\* the "all-or-nothing crowdfunding contract" of lib.rs:36: release_milestone
\* (678-723) asks for no goal, deadline or vote, so a campaign that fails may have
\* paid its creator by milestones and leave its backers short.
ClaimOrRefund ==
    fundsClaimed /\ ~called_off =>
        /\ released = 0 /\ pot = 0
        /\ Pledges + SumFunctionOnSet(altPledged, PledgeTokens) = totalPledged
====
