---- MODULE MCPots ----
(***************************************************************************)
(* Instances for TLC of the contracts that keep money for others until a   *)
(* condition holds (multisignature wallet, timelock, crowdfunding,         *)
(* staking, auction) or decide by vote (DAO, ballot).  They do not         *)
(* interact: a behaviour exercises one.                                    *)
(***************************************************************************)
EXTENDS Multisig, Timelock, Crowdfund, Staking, Auction, Dao, Ballot, TLC

CONSTANTS ann, ben, dot, eve, fay, hal, ivy

\* Bounds: the last ledger of the DAO and the ballot, and enough turnout for one
\* voter to have two commitments counted both ways.
MaxVoteLedger == 2
MaxTurnout == 7

Contracts == {"multisig", "timelock", "crowdfund", "staking", "auction", "dao", "ballot"}

VARIABLE contract  \* the one the behaviour exercises

multisigOnlyVars == <<signers, weights, threshold, validity, nextId, tx, calls>>
lockOnlyVars == <<lockState, lockTerms, paidOut, staked, locked, unlockAt, held, purse, received>>
potVars ==
    <<now, contract, multisigOnlyVars, lockOnlyVars, crowdfundOnlyVars, stakingOnlyVars, auctionOnlyVars,
      daoOnlyVars, ballotOnlyVars>>

\* A contract that is not exercised has one initial state.
PotsInit ==
    /\ contract \in Contracts
    /\ MultisigInit /\ TimelockInit /\ CrowdfundInit /\ StakingInit /\ AuctionInit /\ DaoInit /\ BallotInit
    /\ contract # "staking" => unbonding = 0
    /\ contract # "crowdfund" => campaign.goal = 0
    /\ contract # "auction" => auction.start = 0
    /\ contract # "dao" => daoConf.quorumBps > Bps
    /\ contract # "ballot" => ballot.choices = 0

\* The contracts other than c stand still.
OthersIdle(c) ==
    /\ UNCHANGED contract
    /\ c # "multisig" => UNCHANGED multisigOnlyVars
    /\ c # "timelock" => UNCHANGED lockOnlyVars
    /\ c # "crowdfund" => UNCHANGED crowdfundOnlyVars
    /\ c # "staking" => UNCHANGED stakingOnlyVars
    /\ c # "auction" => UNCHANGED auctionOnlyVars
    /\ c # "dao" => UNCHANGED daoOnlyVars
    /\ c # "ballot" => UNCHANGED ballotOnlyVars

PotsNext ==
    \/ contract = "multisig" /\ MultisigNext /\ OthersIdle("multisig")
    \/ contract = "timelock" /\ CarefulTimelockNext /\ OthersIdle("timelock")
    \/ contract = "crowdfund" /\ CrowdfundNext /\ OthersIdle("crowdfund")
    \/ contract = "staking" /\ StakingNext /\ OthersIdle("staking")
    \/ contract = "auction" /\ AuctionNext /\ OthersIdle("auction")
    \/ contract = "dao" /\ DaoNext /\ now' <= MaxVoteLedger /\ OthersIdle("dao")
    \/ /\ contract = "ballot" /\ BallotNext /\ OthersIdle("ballot")
       /\ now' <= MaxVoteLedger /\ totalVotes' <= MaxTurnout

PotsSpec == PotsInit /\ [][PotsNext]_potVars

\* The timelock with every entry point used freely.
FreeTimelockSpec ==
    PotsInit /\ contract = "timelock" /\ [][TimelockNext /\ OthersIdle("timelock")]_potVars

\* A duplicated and an empty list are offered too; the weights saturate and a
\* zero weight must be refused.
SignerChoices == {<<dot, eve>>, <<dot, dot>>, <<>>}
WeightChoices == {[a \in {} |-> 0], [a \in {dot, fay} |-> 2], [a \in {eve} |-> 0]}
ApprovalChoices == {<<>>, <<dot>>, <<eve, eve>>, <<dot, eve>>, <<fay, dot>>}
BatchChoices == {<<0, 1, 0>>}

Tranche(l, x) == [at |-> l, amount |-> x]
TrancheChoices == {<<>>, <<Tranche(1, 1), Tranche(2, 0)>>, <<Tranche(2, 1), Tranche(2, 1)>>,
                   <<Tranche(1, 1), Tranche(3, 2)>>, <<Tranche(1, 2), Tranche(2, 1), Tranche(3, 1)>>}
TwoTranches == {<<Tranche(1, 1), Tranche(3, 1)>>}

\* A zero goal must be refused; the second tier of the first campaign has no limit.
CampaignChoices ==
    {[goal |-> 2, deadline |-> 1, cap |-> Unbounded, window |-> 1, tiers |-> <<1, Unbounded>>],
     [goal |-> 2, deadline |-> 1, cap |-> 1, window |-> 0, tiers |-> <<>>],
     [goal |-> 0, deadline |-> 1, cap |-> 1, window |-> 0, tiers |-> <<>>]}
RefundChoices == {<<ann, ann>>, <<ben, ben>>, <<ann, ben>>, <<ben, ann>>}
NameSymmetry == Permutations({ann, ben})
MilestoneChoices == {<<1>>}
StakeChoices == {-1, 1}  \* unstake does not look at the sign

\* The second auction sells below its reserve; the last one must be refused.
Ascending(least, buyNow, lot) ==
    [start |-> 1, step |-> 1, deadline |-> 1, reserve |-> least, window |-> 1, last |-> 2, grace |-> 1,
     fee |-> 1, buyNow |-> buyNow, lot |-> lot, floor |-> None]
AuctionChoices ==
    {Ascending(2, None, TRUE), Ascending(4, 3, TRUE), Ascending(None, 3, FALSE),
     [Ascending(None, None, TRUE) EXCEPT !.start = 3, !.floor = 1, !.last = 1, !.deadline = 3],
     [Ascending(None, None, FALSE) EXCEPT !.start = 0]}

\* The second configuration must be refused.
DaoConfigChoices ==
    {[period |-> 1, quorum |-> 1, quorumBps |-> 5000, delay |-> 1, bond |-> 1,
      minBps |-> 2000, maxBps |-> 6000],
     [period |-> 1, quorum |-> 1, quorumBps |-> 10001, delay |-> 1, bond |-> 0,
      minBps |-> 0, maxBps |-> 0]}
DraftChoices ==
    {[payload |-> "pay", type |-> "linear", tier |-> "Financial", choices |-> {"left"}],
     [payload |-> "upgrade", type |-> "quadratic", tier |-> "Standard", choices |-> {}]}
DelegatorChoices == {<<ivy>>, <<ivy, ivy>>}
HolderFundsChoice == [h \in {hal, ivy} |-> IF h = hal THEN 2 ELSE 1]

\* A ballot without choices must be refused.
BallotChoices ==
    {[start |-> 0, end |-> 1, choices |-> 2, quorum |-> 2],
     [start |-> 0, end |-> 1, choices |-> 0, quorum |-> 0]}
RankingChoices == {<<1, 0>>}
Hash(o, b) == [open |-> o, blind |-> b]
\* One opens both ways, and past the last choice; the other only by its voter.
HiddenChoices == {Hash(2, 1), Hash(0, Unset)}
====
