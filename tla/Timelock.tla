---- MODULE Timelock ----
(***************************************************************************)
(* The timelock (contracts/timelock): an admin locks tokens for a          *)
(* beneficiary until a ledger, or in tranches, may stake them meanwhile,   *)
(* and may cancel.  Further tokens can be deposited, and matured tokens    *)
(* released in parts.                                                      *)
(*                                                                         *)
(* Main is the token named at initialization.  The staking contract is     *)
(* external and modelled by what the timelock relies on: it keeps what it  *)
(* is given and returns it, with whatever it earned, on withdraw.  Tranche *)
(* amounts add up without overflow (checked_add).                          *)
(***************************************************************************)
EXTENDS HostClock, Sequences, FiniteSetsExt

CONSTANTS
    Main, OtherTokens,   \* the locked token, and tokens that may be deposited too
    AdminFunds,          \* the admin's initial balance of every token
    LockAmounts,         \* candidate amounts
    ReleaseLedgers,      \* candidate release ledgers
    TranchePlans,        \* candidate lists of [at, amount]
    Yields,              \* what the staking contract may have earned when it pays back
    MaxHeld,             \* bound: yields stop when the contract would hold more
    Unscheduled,         \* the TokenReleaseLedger key is absent
    LedgerBuffer         \* common::MIN_DEADLINE_BUFFER

LockTokens == OtherTokens \cup {Main}

ASSUME TimelockAssumption ==
    /\ Main \notin OtherTokens
    /\ AdminFunds \in Nat /\ LedgerBuffer \in Nat /\ MaxHeld \in Nat
    /\ LockAmounts \subseteq Int /\ ReleaseLedgers \subseteq Nat /\ Yields \subseteq Nat
    /\ TranchePlans \subseteq Seq([at : Nat, amount : Int])
    /\ Unscheduled \notin Nat

VARIABLES
    lockState,  \* State key; "Uninit" while absent
    lockTerms,  \* ReleaseLedger, Amount, tranches and whether staking is configured
    paidOut,    \* TrancheReleased keys: indices of the released tranches
    staked,     \* StakedAmount key while Deposited is true, 0 otherwise
    locked,     \* LockedBalance keys
    unlockAt,   \* TokenReleaseLedger keys
    held,       \* what the contract holds of each token
    purse,      \* what the admin holds of each token
    received    \* what beneficiaries have received of each token

timelockVars == <<now, lockState, lockTerms, paidOut, staked, locked, unlockAt, held, purse, received>>

NoLockTerms == [release |-> 0, amount |-> 0, tranches |-> <<>>, staking |-> FALSE]

PlanTotal(plan, S) == SumFunctionOnSet([i \in S |-> plan[i].amount], S)
TrancheSum(S) == PlanTotal(lockTerms.tranches, S)
Tranches == DOMAIN lockTerms.tranches
Due == {i \in Tranches \ paidOut : now >= lockTerms.tranches[i].at}

TimelockInit ==
    /\ now = 0
    /\ lockState = "Uninit" /\ lockTerms = NoLockTerms /\ paidOut = {} /\ staked = 0
    /\ locked = [t \in LockTokens |-> 0]
    /\ unlockAt = [t \in LockTokens |-> Unscheduled]
    /\ held = [t \in LockTokens |-> 0]
    /\ purse = [t \in LockTokens |-> AdminFunds]
    /\ received = [t \in LockTokens |-> 0]

\* What the three initializers share.  Admin.
Lock(x, ledger, plan, staking) ==
    /\ lockState = "Uninit"
    /\ x > 0
    /\ purse[Main] >= x
    /\ lockState' = "Active"
    /\ lockTerms' = [release |-> ledger, amount |-> x, tranches |-> plan, staking |-> staking]
    /\ locked' = [locked EXCEPT ![Main] = x]
    /\ unlockAt' = [unlockAt EXCEPT ![Main] = ledger]
    /\ held' = [held EXCEPT ![Main] = @ + x]
    /\ purse' = [purse EXCEPT ![Main] = @ - x]
    /\ UNCHANGED <<now, paidOut, staked, received>>

InitializeLock(x, ledger) == ledger >= now + LedgerBuffer /\ Lock(x, ledger, <<>>, FALSE)

InitializeWithStaking(x, ledger) == ledger > now /\ Lock(x, ledger, <<>>, TRUE)

InitializeWithTranches(plan) ==
    /\ plan # <<>>
    /\ \A i \in DOMAIN plan : plan[i].amount > 0
    /\ \A i \in DOMAIN plan : IF i = 1 THEN plan[i].at > now ELSE plan[i].at > plan[i - 1].at
    /\ Lock(PlanTotal(plan, DOMAIN plan), plan[1].at, plan, FALSE)

\* Anyone.
DepositLockedBalance ==
    /\ lockState = "Active"
    /\ lockTerms.staking
    /\ staked = 0
    /\ held[Main] >= lockTerms.amount
    /\ held' = [held EXCEPT ![Main] = @ - lockTerms.amount]
    /\ staked' = lockTerms.amount
    /\ UNCHANGED <<now, lockState, lockTerms, paidOut, locked, unlockAt, purse, received>>

\* Anyone.  y is what the staking contract has earned.
WithdrawAndUnbond(y) ==
    /\ lockState = "Active"
    /\ lockTerms.staking
    /\ staked # 0
    /\ held[Main] + staked + y <= MaxHeld
    /\ held' = [held EXCEPT ![Main] = @ + staked + y]
    /\ staked' = 0
    /\ UNCHANGED <<now, lockState, lockTerms, paidOut, locked, unlockAt, purse, received>>

\* Admin.  The earliest ledger of all deposits of a token counts.
Deposit(t, x, ledger) ==
    /\ lockState = "Active"
    /\ x > 0
    /\ ledger > now
    /\ purse[t] >= x
    /\ purse' = [purse EXCEPT ![t] = @ - x]
    /\ held' = [held EXCEPT ![t] = @ + x]
    /\ locked' = [locked EXCEPT ![t] = @ + x]
    /\ unlockAt' = [unlockAt EXCEPT ![t] = IF @ = Unscheduled \/ ledger < @ THEN ledger ELSE @]
    /\ UNCHANGED <<now, lockState, lockTerms, paidOut, staked, received>>

----
(* Release.                                                                *)

\* Mutant: the release flags not stored.
ReleaseTranchesUnmarked(t) ==
    LET x == TrancheSum(Due) IN
    /\ lockState = "Active" /\ lockTerms.tranches # <<>>
    /\ Due # {}
    /\ held[t] >= x
    /\ held' = [held EXCEPT ![t] = @ - x]
    /\ received' = [received EXCEPT ![t] = @ + x]
    /\ UNCHANGED <<now, lockState, paidOut, lockTerms, staked, locked, unlockAt, purse>>

\* Anyone: release of a lock with tranches, in the token the caller names.
ReleaseTranches(t) ==
    LET x == TrancheSum(Due) IN
    /\ lockState = "Active"
    /\ lockTerms.tranches # <<>>
    /\ Due # {}
    /\ held[t] >= x
    /\ paidOut' = paidOut \cup Due
    /\ lockState' = IF paidOut' = Tranches THEN "Released" ELSE "Active"
    /\ held' = [held EXCEPT ![t] = @ - x]
    /\ received' = [received EXCEPT ![t] = @ + x]
    /\ UNCHANGED <<now, lockTerms, staked, locked, unlockAt, purse>>

\* Anyone: release of a lock without tranches.  Staked tokens are first called
\* back with their yield y; with staking configured, whatever the contract holds
\* of t beyond Amount goes to the yield recipient.
ReleaseAll(t, y) ==
    LET x     == lockTerms.amount
        after == IF staked # 0 THEN [held EXCEPT ![Main] = @ + staked + y] ELSE held
    IN  /\ lockState = "Active"
        /\ lockTerms.tranches = <<>>
        /\ now >= lockTerms.release
        /\ after[t] >= x
        /\ lockState' = "Released"
        /\ staked' = 0
        /\ held' = [after EXCEPT ![t] = IF lockTerms.staking THEN 0 ELSE @ - x]
        /\ received' = [received EXCEPT ![t] = @ + x]
        /\ UNCHANGED <<now, lockTerms, paidOut, locked, unlockAt, purse>>

\* claimable_amount: what has matured.
Claimable(t) ==
    IF lockTerms.tranches # <<>> THEN TrancheSum(Due)
    ELSE IF now < (IF unlockAt[t] = Unscheduled THEN lockTerms.release ELSE unlockAt[t]) THEN 0
    ELSE locked[t]

\* Mutant: the locked balance is not reduced.
ReleasePartialKept(t, x) ==
    /\ lockState = "Active" /\ x > 0 /\ x <= Claimable(t) /\ held[t] >= x
    /\ held' = [held EXCEPT ![t] = @ - x]
    /\ received' = [received EXCEPT ![t] = @ + x]
    /\ UNCHANGED <<now, lockState, lockTerms, paidOut, staked, locked, unlockAt, purse>>

\* Anyone.  With tranches, locked may go below zero (saturating_sub on i128).
ReleasePartial(t, x) ==
    /\ lockState = "Active"
    /\ x > 0
    /\ x <= Claimable(t)
    /\ held[t] >= x
    /\ locked' = [locked EXCEPT ![t] = @ - x]
    /\ held' = [held EXCEPT ![t] = @ - x]
    /\ received' = [received EXCEPT ![t] = @ + x]
    /\ UNCHANGED <<now, lockState, lockTerms, paidOut, staked, unlockAt, purse>>

\* Mutant: what has matured is withheld, released or not.
CancelWithholdingDue ==
    LET x == lockTerms.amount - TrancheSum(paidOut \cup Due) IN
    /\ lockState = "Active" /\ held[Main] >= x
    /\ lockState' = "Cancelled"
    /\ held' = [held EXCEPT ![Main] = @ - x] /\ purse' = [purse EXCEPT ![Main] = @ + x]
    /\ UNCHANGED <<now, lockTerms, paidOut, staked, locked, unlockAt, received>>

\* Admin.
CancelLock ==
    LET x == lockTerms.amount - TrancheSum(paidOut) IN
    /\ lockState = "Active"
    /\ held[Main] >= x
    /\ lockState' = "Cancelled"
    /\ held' = [held EXCEPT ![Main] = @ - x]
    /\ purse' = [purse EXCEPT ![Main] = @ + x]
    /\ UNCHANGED <<now, lockTerms, paidOut, staked, locked, unlockAt, received>>

TimelockTick ==
    LedgerCloses /\ UNCHANGED <<lockState, lockTerms, paidOut, staked, locked, unlockAt, held, purse, received>>

TimelockNext ==
    \/ \E x \in LockAmounts, l \in ReleaseLedgers : InitializeLock(x, l) \/ InitializeWithStaking(x, l)
    \/ \E p \in TranchePlans : InitializeWithTranches(p)
    \/ \E t \in LockTokens, x \in LockAmounts, l \in ReleaseLedgers : Deposit(t, x, l)
    \/ DepositLockedBalance
    \/ \E y \in Yields : WithdrawAndUnbond(y) \/ \E t \in LockTokens : ReleaseAll(t, y)
    \/ \E t \in LockTokens : ReleaseTranches(t)
    \/ \E t \in LockTokens, x \in LockAmounts : ReleasePartial(t, x)
    \/ CancelLock
    \/ TimelockTick

TimelockSpec == TimelockInit /\ [][TimelockNext]_timelockVars

\* deposit and release_partial keep books of their own (LockedBalance), which
\* release and cancel neither read nor write, and which know neither tranches nor
\* staking.  Careful parties use them on plain locks only, close a lock in one go
\* only if they have not used them, and call staked tokens back before cancelling,
\* which cancel itself does not do.
Plain == lockTerms.tranches = <<>> /\ ~lockTerms.staking
Untouched ==
    Plain => \A t \in LockTokens : received[t] = 0 /\ locked[t] = IF t = Main THEN lockTerms.amount ELSE 0

CarefulTimelockNext ==
    /\ TimelockNext
    /\ lockState = "Active" /\ locked' # locked => Plain
    /\ lockState = "Active" /\ lockState' # "Active" => Untouched
    /\ lockState' = "Cancelled" => staked = 0

CarefulTimelockSpec == TimelockInit /\ [][CarefulTimelockNext]_timelockVars

----
(* Properties.                                                             *)

Matured == {i \in Tranches : lockTerms.tranches[i].at <= now}

\* Nothing reaches the beneficiary before its time: of a lock with tranches never
\* more than the tranches that have matured, of any other token nothing before
\* the earliest ledger agreed for it (prop_no_early_withdrawal).
NothingEarly ==
    /\ lockTerms.tranches # <<>> => received[Main] <= TrancheSum(Matured)
    /\ \A t \in LockTokens : received[t] > 0 => now >= unlockAt[t]

\* A lock ends with every principal token on exactly one side: released in full
\* to the beneficiary with nothing left inside, or cancelled with the admin
\* holding again all that the beneficiary did not get.  Tokens out at the staking
\* contract are called back first.
ClosedInFull ==
    /\ lockState = "Released" => received[Main] = lockTerms.amount /\ held[Main] = 0 /\ staked = 0
    /\ lockState = "Cancelled" => purse[Main] + received[Main] = AdminFunds

\* Whatever claimable_amount reports for a plain lock can be paid: LockedBalance
\* and the contract's tokens move together through deposits and partial releases.
ClaimsBacked == lockState = "Active" /\ Plain => \A t \in LockTokens : held[t] = locked[t]
====
