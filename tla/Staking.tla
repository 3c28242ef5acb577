---- MODULE Staking ----
(***************************************************************************)
(* The staking contract (contracts/staking): rewards are emitted at a rate *)
(* per ledger until a period ends and shared among the stakers through a   *)
(* reward-per-token accumulator in fixed point.  Unstaked tokens wait for  *)
(* the unbonding period, and the admin may slash stakes.                   *)
(*                                                                         *)
(* The source holds two versions of slash; this is the complete one, the   *)
(* other being cut into pieces by the functions around it.  Rewards are    *)
(* paid in a token of their own, of which the contract was sent enough.    *)
(* The token refuses to move a negative amount, and nothing else does.     *)
(* emitted, payouts and replaced are history variables.                    *)
(***************************************************************************)
EXTENDS HostClock, FiniteSetsExt

CONSTANTS
    Stakers,        \* addresses
    StakerFunds,    \* what each staker holds at first
    StakeAmounts,   \* candidate amounts
    MaxStaked,      \* bound: stakes after an unstake
    MaxReplaced,    \* bound: sum of the replaced requests
    Rates,          \* candidate reward rates
    PeriodEnds,     \* candidate ends of the emission period
    UnbondPeriods,  \* candidate unbonding periods
    NoRequest,      \* the UnbondRequest key is absent
    RewardScale     \* REWARD_SCALE

ASSUME StakingAssumption ==
    /\ StakerFunds \in Nat /\ MaxStaked \in Nat /\ MaxReplaced \in Nat /\ StakeAmounts \subseteq Int
    /\ Rates \subseteq Int /\ PeriodEnds \subseteq Nat /\ UnbondPeriods \subseteq Nat
    /\ RewardScale \in Nat \ {0} /\ IsFiniteSet(Stakers)
    /\ NoRequest \notin [amount : Int, ready : Nat]

VARIABLES
    ready,         \* is the contract initialized?
    unbonding,     \* UnbondingPeriod key
    stakeOf,       \* Stake keys
    totalStaked,   \* TotalStaked key
    perToken,      \* RewardPerTokenStored key
    paidUpTo,      \* RewardPerTokenPaid keys
    rewards,       \* Rewards keys
    emission,      \* RewardRate and PeriodEnd keys
    lastUpdate,    \* LastUpdateLedger key
    requests,      \* UnbondRequest keys
    stakeHeld,     \* what the contract holds of the stake token
    stakerBal,     \* what each staker holds of it
    emitted,       \* rate times ledgers of all emission periods so far
    payouts,       \* rewards paid so far
    replaced       \* sum of the requests that a later one replaced

stakingOnlyVars ==
    <<ready, unbonding, stakeOf, totalStaked, perToken, paidUpTo, rewards, emission, lastUpdate,
      requests, stakeHeld, stakerBal, emitted, payouts, replaced>>
stakingVars == <<now, stakingOnlyVars>>

StakingInit ==
    /\ now = 0
    /\ ready = FALSE /\ unbonding \in UnbondPeriods
    /\ stakeOf = [a \in Stakers |-> 0] /\ totalStaked = 0
    /\ perToken = 0 /\ paidUpTo = [a \in Stakers |-> 0] /\ rewards = [a \in Stakers |-> 0]
    /\ emission = [rate |-> 0, end |-> 0] /\ lastUpdate = 0
    /\ requests = [a \in Stakers |-> NoRequest]
    /\ stakeHeld = 0 /\ stakerBal = [a \in Stakers |-> StakerFunds]
    /\ emitted = 0 /\ payouts = 0 /\ replaced = 0

\* Admin.
InitializeStaking ==
    /\ ~ready
    /\ ready' = TRUE
    /\ lastUpdate' = now
    /\ UNCHANGED <<now, unbonding, stakeOf, totalStaked, perToken, paidUpTo, rewards, emission,
                   requests, stakeHeld, stakerBal, emitted, payouts, replaced>>

Earlier(x, y) == IF x < y THEN x ELSE y

\* Mutant: emission goes on after the period's end.
ElapsedPastEnd == now - lastUpdate

\* Ledgers of the emission period since the last update.
Elapsed == Earlier(now, emission.end) - Earlier(lastUpdate, emission.end)

\* projected_reward_per_token
Projected ==
    IF Elapsed <= 0 \/ emission.rate <= 0 \/ totalStaked <= 0 THEN perToken
    ELSE perToken + (Elapsed * emission.rate * RewardScale) \div totalStaked

\* Rewards of a against the accumulator value rpt.
EarnedAt(a, rpt) == rewards[a] + (stakeOf[a] * (rpt - paidUpTo[a])) \div RewardScale

PendingRewards(a) == EarnedAt(a, Projected)

\* accrue: advance the accumulator to this ledger.
Accrue == perToken' = Projected /\ lastUpdate' = now

\* Mutant: the accumulator value up to which a was paid is not stored.
UpdateRewardUnmarked(a, reward) == rewards' = [rewards EXCEPT ![a] = reward] /\ UNCHANGED paidUpTo

\* update_reward, with what is left as the staker's unclaimed reward.
UpdateReward(a, reward) ==
    /\ rewards' = [rewards EXCEPT ![a] = reward]
    /\ paidUpTo' = [paidUpTo EXCEPT ![a] = Projected]

\* Admin.
SetRewardRate(rate, end) ==
    /\ ready
    /\ rate >= 0
    /\ end > now
    /\ Accrue
    /\ emission' = [rate |-> rate, end |-> end]
    /\ UNCHANGED <<now, ready, unbonding, stakeOf, totalStaked, paidUpTo, rewards, requests,
                   stakeHeld, stakerBal, emitted, payouts, replaced>>

\* A staker.
Stake(a, x) ==
    /\ ready
    /\ x >= 0 /\ stakerBal[a] >= x
    /\ Accrue
    /\ UpdateReward(a, PendingRewards(a))
    /\ stakeOf' = [stakeOf EXCEPT ![a] = @ + x]
    /\ totalStaked' = totalStaked + x
    /\ stakeHeld' = stakeHeld + x
    /\ stakerBal' = [stakerBal EXCEPT ![a] = @ - x]
    /\ UNCHANGED <<now, ready, unbonding, emission, requests, emitted, payouts, replaced>>

\* A staker.
ClaimRewards(a) ==
    /\ ready
    /\ Accrue
    /\ UpdateReward(a, 0)
    /\ payouts' = payouts + PendingRewards(a)
    /\ UNCHANGED <<now, ready, unbonding, stakeOf, totalStaked, emission, requests, stakeHeld,
                   stakerBal, emitted, replaced>>

\* Taking x out of a's stake: what unstake and slash share.
TakeStake(a, x) ==
    /\ ready
    /\ x <= stakeOf[a]
    /\ Accrue
    /\ UpdateReward(a, PendingRewards(a))
    /\ stakeOf' = [stakeOf EXCEPT ![a] = @ - x]
    /\ totalStaked' = totalStaked - x
    /\ UNCHANGED <<now, ready, unbonding, emission, emitted, payouts>>

\* What each staker waits for.
Waiting == [a \in Stakers |-> IF requests[a] = NoRequest THEN 0 ELSE requests[a].amount]

\* A staker.  A new request replaces one that is still waiting.
Unstake(a, x) ==
    /\ TakeStake(a, x)
    /\ \/ /\ unbonding = 0
          /\ x >= 0 /\ stakeHeld >= x
          /\ stakeHeld' = stakeHeld - x
          /\ stakerBal' = [stakerBal EXCEPT ![a] = @ + x]
          /\ UNCHANGED <<requests, replaced>>
       \/ /\ unbonding # 0
          /\ requests' = [requests EXCEPT ![a] = [amount |-> x, ready |-> now + unbonding]]
          /\ replaced' = replaced + Waiting[a]
          /\ UNCHANGED <<stakeHeld, stakerBal>>

\* Mutant: the request survives its payment.
WithdrawStakeKept(a) ==
    /\ requests[a] # NoRequest /\ now >= requests[a].ready
    /\ requests[a].amount >= 0 /\ stakeHeld >= requests[a].amount
    /\ stakeHeld' = stakeHeld - requests[a].amount
    /\ stakerBal' = [stakerBal EXCEPT ![a] = @ + requests[a].amount]
    /\ UNCHANGED <<now, ready, unbonding, stakeOf, totalStaked, perToken, paidUpTo, rewards, requests,
                   emission, lastUpdate, emitted, payouts, replaced>>

\* A staker.
WithdrawStake(a) ==
    /\ requests[a] # NoRequest
    /\ now >= requests[a].ready
    /\ requests[a].amount >= 0 /\ stakeHeld >= requests[a].amount
    /\ stakeHeld' = stakeHeld - requests[a].amount
    /\ stakerBal' = [stakerBal EXCEPT ![a] = @ + requests[a].amount]
    /\ requests' = [requests EXCEPT ![a] = NoRequest]
    /\ UNCHANGED <<now, ready, unbonding, stakeOf, totalStaked, perToken, paidUpTo, rewards,
                   emission, lastUpdate, emitted, payouts, replaced>>

\* Admin.
Slash(a, x) ==
    /\ TakeStake(a, x)
    /\ x >= 0 /\ stakeHeld >= x
    /\ stakeHeld' = stakeHeld - x
    /\ UNCHANGED <<requests, stakerBal, replaced>>

StakingTick ==
    /\ LedgerCloses
    /\ emitted' = emitted + IF ready /\ now' <= emission.end THEN emission.rate ELSE 0
    /\ UNCHANGED <<ready, unbonding, stakeOf, totalStaked, perToken, paidUpTo, rewards, emission,
                   lastUpdate, requests, stakeHeld, stakerBal, payouts, replaced>>

StakingNext ==
    \/ InitializeStaking
    \/ \E rate \in Rates, end \in PeriodEnds : SetRewardRate(rate, end)
    \/ \E a \in Stakers, x \in StakeAmounts : Stake(a, x) \/ Slash(a, x)
    \/ \E a \in Stakers, x \in StakeAmounts :
          /\ totalStaked - x <= MaxStaked
          /\ Unstake(a, x)
          /\ replaced' \in 0..MaxReplaced
    \/ \E a \in Stakers : ClaimRewards(a) \/ WithdrawStake(a)
    \/ StakingTick

StakingSpec == StakingInit /\ [][StakingNext]_stakingVars

----
(* Properties.                                                             *)

StakeSum(f) == SumFunctionOnSet(f, Stakers)

\* TotalStaked, by which rewards are divided, is the sum of the stakes, and every
\* stake token the contract holds is staked, waits for withdraw, or belonged to a
\* request that a second unstake replaced: whatever is staked, slashed, unstaked in
\* parts and withdrawn, nothing else comes between stakers and their tokens.  The
\* repository says that nothing is replaced at all; that is UnstakedNotLost, which
\* fails.
StakeAccountedFor ==
    /\ totalStaked = StakeSum(stakeOf)
    /\ stakeHeld = totalStaked + StakeSum(Waiting) + replaced

\* Every stake token the contract holds is staked or waits for withdraw, because a
\* second unstake fails with UnbondRequestPending, "preventing loss of the first
\* request's tokens" (test.rs:437-459; docs/contract-api.md:172, 197 and
\* docs/error-reference.md:1769).  Violated: unstake (lib.rs:459-465) looks for no
\* request and overwrites it.
UnstakedNotLost == stakeHeld = totalStaked + StakeSum(Waiting)

\* Rewards paid and pending never exceed what the emission periods gave out:
\* joining late, topping up, leaving, claiming at any ledger, changing the rate in
\* mid-period or letting a period run out gains nobody anything, roundings included.
NeverOverDistributes ==
    payouts + StakeSum([a \in Stakers |-> PendingRewards(a)]) <= emitted
====
