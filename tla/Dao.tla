---- MODULE Dao ----
(***************************************************************************)
(* The DAO (contracts/dao): token holders propose, lock their tokens to    *)
(* vote, and a passed proposal waits in a timelock before it is executed.  *)
(*                                                                         *)
(* A call that returns an error is rolled back by the host, so the slash   *)
(* and the quorum average that queue_proposal writes before it returns     *)
(* QuorumNotMet or ProposalRejected have no effect.  cancel_proposal asks  *)
(* for a ledger before the one the proposal was made in and never          *)
(* succeeds.  apply_voting_type is called but not defined in the           *)
(* repository; the square root is the one its callers' comments name.      *)
(* pooled is a history variable.                                           *)
(***************************************************************************)
EXTENDS HostClock, Sequences, Functions

CONSTANTS
    Holders,         \* addresses that hold governance tokens
    HolderFunds,     \* what each holder has at first: a function
    Proposers,       \* the holders that make proposals
    Delegators,      \* the holders that delegate
    DaoConfigs,      \* candidate [period, quorum, quorumBps, delay, bond, minBps, maxBps]
    Drafts,          \* candidate [payload, type, tier, choices] of a proposal
    FinancialDelay,  \* DEFAULT_FINANCIAL_DELAY
    CriticalDelay,   \* DEFAULT_CRITICAL_DELAY
    DelegatorLists,  \* candidate delegators for vote_with_delegators
    ChoiceAmounts,   \* candidate amounts for vote_choice
    MaxMotions,    \* bound: proposals made
    NoDelegate       \* the Delegate key is absent

MaxHops == 20
ChoiceNames == {"left", "right"}
Tiers == {"Standard", "Financial", "Critical"}
Bps == 10000
EmaWindow == 10

ASSUME DaoAssumption ==
    /\ IsFiniteSet(Holders) /\ HolderFunds \in [Holders -> Nat]
    /\ Proposers \cup Delegators \subseteq Holders
    /\ MaxMotions \in Nat /\ ChoiceAmounts \subseteq Int
    /\ \A c \in DaoConfigs : c \in [period : Nat, quorum : Int, quorumBps : Nat, delay : Nat,
                                    bond : Int, minBps : Nat, maxBps : Nat]
    /\ \A d \in Drafts : /\ d.type \in {"linear", "quadratic"} /\ d.tier \in Tiers
                         /\ d.choices \subseteq ChoiceNames
    /\ FinancialDelay \in Nat /\ CriticalDelay \in Nat
    /\ DelegatorLists \subseteq Seq(Holders)
    /\ NoDelegate \notin Holders

VARIABLES
    daoConf,     \* the candidate configuration
    daoReady,    \* Initialized key
    proposals,   \* Proposal keys, in order of their id
    payloads,    \* ActivePayloadHash keys
    votes,       \* VoteKey keys: <<proposal, voter>>
    locks,       \* LockedTokens keys: what each holder has locked for each proposal
    tallies,     \* ChoiceTally keys
    delegateOf,  \* Delegate keys
    council,     \* is a SecurityCouncil set?
    quorumEma,   \* QuorumEmaBps key
    govBal,      \* what each holder holds of the governance token
    daoHeld,     \* what the DAO holds of it
    pooled       \* proposals voted on through vote_with_delegators

daoOnlyVars == <<daoConf, daoReady, proposals, payloads, votes, locks, tallies, delegateOf, council,
                 quorumEma, govBal, daoHeld, pooled>>
daoVars == <<now, daoOnlyVars>>

ProposalIds == 1..MaxMotions
Supply == SumFunctionOnSet(HolderFunds, Holders)
AtMost(x, y) == IF x < y THEN x ELSE y
AtLeast(x, y) == IF x > y THEN x ELSE y

DaoInit ==
    /\ now = 0
    /\ daoConf \in DaoConfigs /\ daoReady = FALSE
    /\ proposals = <<>> /\ payloads = {} /\ votes = {}
    /\ locks = [p \in ProposalIds |-> [h \in Holders |-> 0]]
    /\ tallies = [p \in ProposalIds |-> [c \in ChoiceNames |-> 0]]
    /\ delegateOf = [h \in Holders |-> NoDelegate]
    /\ council = FALSE /\ quorumEma = 0
    /\ govBal = HolderFunds /\ daoHeld = 0
    /\ pooled = {}

\* The StandardDelay, FinancialDelay and CriticalDelay keys that initialize writes
\* for the tiers, tier_delay of the module documentation.  Nothing reads them.
TierDelay(tier) ==
    CASE tier = "Standard"  -> daoConf.delay
      [] tier = "Financial" -> FinancialDelay
      [] tier = "Critical"  -> CriticalDelay

\* Admin.
InitializeDao ==
    /\ ~daoReady
    /\ daoConf.quorumBps <= Bps
    /\ daoReady' = TRUE
    /\ quorumEma' = (daoConf.minBps + daoConf.maxBps) \div 2
    /\ UNCHANGED <<now, daoConf, proposals, payloads, votes, locks, tallies, delegateOf, council,
                   govBal, daoHeld, pooled>>

\* A holder.  The payload of an earlier proposal, whatever became of it, is refused.
CreateProposal(h, d) ==
    LET bond == AtLeast(daoConf.bond, 0) IN
    /\ daoReady
    /\ govBal[h] > 0
    /\ d.payload \notin payloads
    /\ govBal[h] >= bond
    /\ govBal' = [govBal EXCEPT ![h] = @ - bond]
    /\ daoHeld' = daoHeld + bond
    /\ payloads' = payloads \cup {d.payload}
    /\ proposals' = Append(proposals,
         [proposer |-> h, deadline |-> now + daoConf.period, yes |-> 0, no |-> 0,
          state |-> "Active", bond |-> daoConf.bond, supply |-> Supply, eta |-> 0,
          type |-> d.type, tier |-> d.tier, choices |-> d.choices])
    /\ UNCHANGED <<now, daoConf, daoReady, votes, locks, tallies, delegateOf, council, quorumEma, pooled>>

IsActive(p) == proposals[p].state = "Active"
VotingOpen(p) == daoReady /\ p \in DOMAIN proposals /\ IsActive(p) /\ now <= proposals[p].deadline

\* Mutant: the voter keeps the tokens.
LockNothing(h, p) == locks' = [locks EXCEPT ![p][h] = govBal[h]] /\ UNCHANGED <<govBal, daoHeld>>

\* The whole balance goes to the DAO; the lock of an earlier call is overwritten.
LockBalance(h, p) ==
    /\ govBal[h] > 0
    /\ govBal' = [govBal EXCEPT ![h] = 0]
    /\ daoHeld' = daoHeld + govBal[h]
    /\ locks' = [locks EXCEPT ![p][h] = govBal[h]]

\* apply_voting_type, on an amount capped at the supply when the proposal was made.
Weight(p, x) ==
    LET capped == AtMost(x, proposals[p].supply) IN
    IF proposals[p].type = "linear" THEN capped
    ELSE CHOOSE r \in 0..capped : r * r <= capped /\ capped < (r + 1) * (r + 1)

\* The vote key keeps h from voting on p again.
RecordVote(h, p, support, weight) ==
    /\ <<p, h>> \notin votes
    /\ votes' = votes \cup {<<p, h>>}
    /\ proposals' = IF support THEN [proposals EXCEPT ![p].yes = @ + weight]
                    ELSE [proposals EXCEPT ![p].no = @ + weight]
    /\ UNCHANGED <<now, daoConf, daoReady, payloads, delegateOf, council, quorumEma>>

\* A holder.
DaoVote(h, p, support) ==
    /\ VotingOpen(p)
    /\ LockBalance(h, p)
    /\ RecordVote(h, p, support, Weight(p, govBal[h]))
    /\ UNCHANGED <<tallies, pooled>>

\* A holder.  An amount out of range stands for the whole balance.
VoteChoice(h, p, c, x) ==
    LET weight == Weight(p, IF x > 0 /\ x <= govBal[h] THEN x ELSE govBal[h]) IN
    /\ VotingOpen(p)
    /\ c \in proposals[p].choices
    /\ LockBalance(h, p)
    /\ tallies' = [tallies EXCEPT ![p][c] = @ + weight]
    /\ RecordVote(h, p, TRUE, weight)
    /\ UNCHANGED pooled

\* Who a delegation to h reaches in at most MaxHops steps.
Downstream(h) ==
    LET reach[n \in 1..MaxHops] ==
          IF n = 1 THEN {delegateOf[h]}
          ELSE LET near == reach[n - 1] IN near \cup {delegateOf[a] : a \in near \ {NoDelegate}}
    IN  reach[MaxHops]

\* A holder.  The walk starts behind the delegatee: delegating to oneself passes.
Delegate(h, to) ==
    /\ daoReady
    /\ h \notin Downstream(to)
    /\ delegateOf' = [delegateOf EXCEPT ![h] = to]
    /\ UNCHANGED <<now, daoConf, daoReady, proposals, payloads, votes, locks, tallies, council,
                   quorumEma, govBal, daoHeld, pooled>>

\* A holder.
Undelegate(h) ==
    /\ daoReady
    /\ delegateOf' = [delegateOf EXCEPT ![h] = NoDelegate]
    /\ UNCHANGED <<now, daoConf, daoReady, proposals, payloads, votes, locks, tallies, council,
                   quorumEma, govBal, daoHeld, pooled>>

\* A holder.
LockForVote(h, p) ==
    /\ VotingOpen(p)
    /\ LockBalance(h, p)
    /\ UNCHANGED <<now, daoConf, daoReady, proposals, payloads, votes, tallies, delegateOf, council,
                   quorumEma, pooled>>

\* A holder, with the locks of those who delegate to it; no square root here.
VoteWithDelegators(h, p, support, list) ==
    LET weight == govBal[h] + SumFunctionOnSet([i \in DOMAIN list |-> locks'[p][list[i]]], DOMAIN list) IN
    /\ VotingOpen(p)
    /\ LockBalance(h, p)
    /\ \A i \in DOMAIN list : delegateOf[list[i]] = h /\ locks'[p][list[i]] > 0
    /\ RecordVote(h, p, support, AtMost(weight, proposals[p].supply))
    /\ pooled' = pooled \cup {p}
    /\ UNCHANGED tallies

\* Mutant: tokens may be had back as soon as the proposal is no longer voted on.
UnlockWhenDecided(h, p) ==
    /\ daoReady /\ p \in DOMAIN proposals
    /\ now > proposals[p].deadline \/ ~IsActive(p)
    /\ locks[p][h] > 0 /\ daoHeld >= locks[p][h]
    /\ daoHeld' = daoHeld - locks[p][h]
    /\ govBal' = [govBal EXCEPT ![h] = @ + locks[p][h]]
    /\ UNCHANGED <<now, daoConf, daoReady, proposals, payloads, votes, locks, tallies, delegateOf,
                   council, quorumEma, pooled>>

\* Anyone, for h.
UnlockTokens(h, p) ==
    /\ daoReady
    /\ p \in DOMAIN proposals
    /\ now > proposals[p].deadline
    /\ locks[p][h] > 0
    /\ daoHeld >= locks[p][h]
    /\ daoHeld' = daoHeld - locks[p][h]
    /\ govBal' = [govBal EXCEPT ![h] = @ + locks[p][h]]
    /\ locks' = [locks EXCEPT ![p][h] = 0]
    /\ UNCHANGED <<now, daoConf, daoReady, proposals, payloads, votes, tallies, delegateOf, council,
                   quorumEma, pooled>>

QuorumMet(p) ==
    LET cast == proposals[p].yes + proposals[p].no IN
    /\ cast >= daoConf.quorum
    /\ daoConf.quorumBps > 0 => cast * Bps >= daoConf.quorumBps * proposals[p].supply
Carried(p) == QuorumMet(p) /\ proposals[p].yes > proposals[p].no

\* Mutant: the deadline is not waited for.
QueueCarried(p) ==
    /\ daoReady /\ p \in DOMAIN proposals /\ IsActive(p) /\ Carried(p)
    /\ proposals' = [proposals EXCEPT ![p].state = "Queued", ![p].eta = @ + daoConf.delay]
    /\ UNCHANGED <<now, daoConf, daoReady, payloads, votes, locks, tallies, delegateOf, council,
                   quorumEma, govBal, daoHeld, pooled>>

\* Anyone.  Every tier waits for the one ExecutionDelay.
QueueProposal(p) ==
    /\ daoReady
    /\ p \in DOMAIN proposals
    /\ IsActive(p)
    /\ now > proposals[p].deadline
    /\ Carried(p)
    /\ proposals' = [proposals EXCEPT ![p].state = "Queued",
                                      ![p].eta = proposals[p].deadline + daoConf.delay]
    /\ UNCHANGED <<now, daoConf, daoReady, payloads, votes, locks, tallies, delegateOf, council,
                   quorumEma, govBal, daoHeld, pooled>>

\* The bond of an executed proposal goes back to its proposer.
RefundBond(p) ==
    LET bond == AtLeast(proposals[p].bond, 0) IN
    /\ daoHeld >= bond
    /\ daoHeld' = daoHeld - bond
    /\ govBal' = [govBal EXCEPT ![proposals[p].proposer] = @ + bond]

\* participation_bps
Participation(p) ==
    IF daoConf.quorum <= 0 THEN Bps
    ELSE AtMost(Bps, ((proposals[p].yes + proposals[p].no) * Bps) \div daoConf.quorum)

\* update_quorum_ema; nothing consults the average.
UpdateQuorumEma(sample) ==
    quorumEma' =
        IF daoConf.minBps = 0 /\ daoConf.maxBps = 0 THEN quorumEma
        ELSE AtMost(daoConf.maxBps,
                    AtLeast(daoConf.minBps,
                            (quorumEma * (EmaWindow - 1) + 2 * sample) \div (EmaWindow + 1)))

SetState(p, s) == proposals' = [proposals EXCEPT ![p].state = s]

\* Anyone.  What the dispatched payload does is outside the DAO.
ExecuteProposal(p) ==
    /\ daoReady
    /\ p \in DOMAIN proposals
    /\ proposals[p].state = "Queued"
    /\ now >= proposals[p].eta
    /\ SetState(p, "Executed")
    /\ RefundBond(p)
    /\ UpdateQuorumEma(Participation(p))
    /\ UNCHANGED <<now, daoConf, daoReady, payloads, votes, locks, tallies, delegateOf, council, pooled>>

\* Admin.  The bond stays where it is.
VetoProposal(p) ==
    /\ daoReady
    /\ p \in DOMAIN proposals
    /\ proposals[p].state = "Queued"
    /\ SetState(p, "Cancelled")
    /\ UNCHANGED <<now, daoConf, daoReady, payloads, votes, locks, tallies, delegateOf, council,
                   quorumEma, govBal, daoHeld, pooled>>

\* Admin, who gets the bond (slash_bond).
AdminCancel(p) ==
    /\ daoReady
    /\ p \in DOMAIN proposals
    /\ IsActive(p)
    /\ daoHeld >= proposals[p].bond
    /\ SetState(p, "Cancelled")
    /\ daoHeld' = daoHeld - AtLeast(proposals[p].bond, 0)
    /\ UNCHANGED <<now, daoConf, daoReady, payloads, votes, locks, tallies, delegateOf, council,
                   quorumEma, govBal, pooled>>

\* Admin.
SetSecurityCouncil ==
    /\ daoReady
    /\ council' = TRUE
    /\ UNCHANGED <<now, daoConf, daoReady, proposals, payloads, votes, locks, tallies, delegateOf,
                   quorumEma, govBal, daoHeld, pooled>>

\* Mutant: a proposal of any state is executed.
EmergencyAnyState(p) ==
    /\ daoReady /\ council /\ p \in DOMAIN proposals
    /\ SetState(p, "Executed") /\ RefundBond(p)
    /\ UNCHANGED <<now, daoConf, daoReady, payloads, votes, locks, tallies, delegateOf, council,
                   quorumEma, pooled>>

\* The council.
EmergencyExecute(p) ==
    /\ daoReady
    /\ council
    /\ p \in DOMAIN proposals
    /\ proposals[p].state \in {"Active", "Queued"}
    /\ SetState(p, "Executed")
    /\ RefundBond(p)
    /\ UNCHANGED <<now, daoConf, daoReady, payloads, votes, locks, tallies, delegateOf, council,
                   quorumEma, pooled>>

\* The proposer, before any vote.  The bond stays where it is.
ProposerCancel(p) ==
    /\ daoReady
    /\ p \in DOMAIN proposals
    /\ IsActive(p)
    /\ proposals[p].yes <= 0 /\ proposals[p].no <= 0
    /\ SetState(p, "Cancelled")
    /\ UNCHANGED <<now, daoConf, daoReady, payloads, votes, locks, tallies, delegateOf, council,
                   quorumEma, govBal, daoHeld, pooled>>

\* Between invocations a holder hands its tokens to another.
TransferGovernance(a, b) ==
    /\ a # b /\ govBal[a] > 0
    /\ govBal' = [govBal EXCEPT ![a] = 0, ![b] = @ + govBal[a]]
    /\ UNCHANGED <<now, daoConf, daoReady, proposals, payloads, votes, locks, tallies, delegateOf,
                   council, quorumEma, daoHeld, pooled>>

DaoNext ==
    \/ InitializeDao
    \/ \E h \in Proposers, d \in Drafts : Len(proposals) < MaxMotions /\ CreateProposal(h, d)
    \/ \E h \in Holders, p \in ProposalIds, support \in BOOLEAN :
          \/ DaoVote(h, p, support)
          \/ \E list \in DelegatorLists : VoteWithDelegators(h, p, support, list)
    \/ \E h \in Holders, p \in ProposalIds, c \in ChoiceNames, x \in ChoiceAmounts : VoteChoice(h, p, c, x)
    \/ \E h, to \in Holders : TransferGovernance(h, to) \/ (h \in Delegators /\ Delegate(h, to))
    \/ \E h \in Delegators : Undelegate(h)
    \/ \E h \in Holders, p \in ProposalIds : LockForVote(h, p) \/ UnlockTokens(h, p)
    \/ \E p \in ProposalIds :
          \/ QueueProposal(p) \/ ExecuteProposal(p) \/ VetoProposal(p) \/ AdminCancel(p)
          \/ EmergencyExecute(p) \/ ProposerCancel(p)
    \/ SetSecurityCouncil
    \/ LedgerCloses /\ UNCHANGED daoOnlyVars

DaoSpec == DaoInit /\ [][DaoNext]_daoVars

----
(* Properties.                                                             *)

LockedFor(p) == SumFunctionOnSet(locks[p], Holders)
BondOf(p) == IF proposals[p].state \in {"Active", "Queued"} THEN proposals[p].bond ELSE 0

\* The DAO holds at least what its lock keys promise and the bonds it may have to
\* pay back: overwritten locks, unclaimed bonds, slashing and emergency execution
\* never let one proposal's money pay for another's.
LocksBacked ==
    daoHeld >= SumFunctionOnSet([p \in ProposalIds |-> LockedFor(p)], ProposalIds)
               + SumFunctionOnSet([p \in DOMAIN proposals |-> BondOf(p)], DOMAIN proposals)

\* A token votes once on a proposal: unless somebody votes through
\* vote_with_delegators, the votes cast never exceed the supply, however tokens are
\* handed on, locked and unlocked while voting is open; and the choices' tallies
\* are part of the votes in favour.
TokensVoteOnce ==
    \A p \in DOMAIN proposals \ pooled :
        /\ proposals[p].yes + proposals[p].no <= proposals[p].supply
        /\ SumFunctionOnSet(tallies[p], ChoiceNames) <= proposals[p].yes

\* Votes on a proposal stand still from its deadline on, and one that is executed
\* without the council was carried by them and waited, whatever its tier, the one
\* ExecutionDelay that queue_proposal reads.  The longer delays that the module
\* documentation (lib.rs:31-33, 51-53) promises Financial and Critical proposals
\* are TierWaitedOut, which fails.
ExecutedAsVoted ==
    [][\A p \in DOMAIN proposals :
         /\ now > proposals[p].deadline =>
              proposals'[p].yes = proposals[p].yes /\ proposals'[p].no = proposals[p].no
         /\ proposals[p].state # "Executed" /\ proposals'[p].state = "Executed" =>
              \/ council /\ proposals[p].state # "Cancelled"
              \/ Carried(p) /\ now > proposals[p].deadline
                 /\ now >= proposals[p].deadline + daoConf.delay]_daoVars

\* A proposal executed without a council waited out the delay of its own tier, as
\* lib.rs:50-53 says: execute_proposal succeeds only from execution_eta = deadline +
\* tier_delay(tier) on.  Violated: queue_proposal (1113-1118) reads ExecutionDelay.
TierWaitedOut ==
    \A p \in DOMAIN proposals :
        proposals[p].state = "Executed" /\ ~council =>
            now >= proposals[p].deadline + TierDelay(proposals[p].tier)
====
