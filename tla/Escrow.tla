---- MODULE Escrow ----
(***************************************************************************)
(* The escrow contract (contracts/escrow): one buyer, one seller, one      *)
(* arbiter or an M-of-N arbiter committee, one payment token, optional     *)
(* milestones.  A step is one contract invocation.  The Soroban host runs  *)
(* invocations one at a time, rolls the whole invocation back on Err or    *)
(* panic and forbids re-entering a contract, so an invocation is atomic,   *)
(* failed invocations are stutters, and the Locked flag of storage.rs is   *)
(* FALSE whenever an invocation starts.                                    *)
(*                                                                         *)
(* The payment token is external: any SEP-41 token.  What the escrow       *)
(* relies on is in TransferOk and Move.  The basket (multi-token) variant  *)
(* is in EscrowBasket.                                                     *)
(***************************************************************************)
EXTENDS Integers, Sequences, FiniteSets, Functions

CONSTANTS
    Buyer, Seller, Arbiter,  \* the parties named at initialization
    Panel,                   \* addresses that may sit on an arbiter committee
    Treasuries,              \* addresses the platform admin may name as treasury
    Self,                    \* the escrow contract's own address
    NoTreasury,              \* the Treasury key is absent
    BuyerFunds,              \* the buyer's initial token balance
    Amounts,                 \* candidate escrow and partial amounts
    Deadlines, Timeouts, Buffers, Graces,  \* candidate ledger numbers
    ArbiterFees, PlatformFees,             \* candidate fees, basis points
    Committees,              \* candidate [list, required] committees
    MilestonePlans,          \* candidate [amounts, released] milestone lists
    ZeroTransferOk,          \* does the token accept a transfer of 0?
    Pausable,                \* built with the `pausable` feature?
    MinDeadlineBuffer,       \* common::MIN_DEADLINE_BUFFER
    MaxLedger                \* bound: the clock stops here (see Horizon)

Accounts == {Buyer, Seller, Arbiter, Self} \cup Panel \cup Treasuries
BPS == 10000
MaxArbiterFeeBps == 2000
Ballots == {"none", "release", "refund"}

\* What validate_parties / validate_parties_multi establish, what the treasury
\* may be (the escrow never names itself), and the types of the candidate inputs.
ASSUME PartyAssumption ==
    /\ Buyer # Seller /\ Buyer # Arbiter /\ Seller # Arbiter
    /\ Self \notin {Buyer, Seller, Arbiter} \cup Panel \cup Treasuries
    /\ NoTreasury \notin Accounts

ASSUME InputAssumption ==
    /\ BuyerFunds \in Nat
    /\ Amounts \subseteq Int
    /\ Deadlines \subseteq Nat /\ Timeouts \subseteq Nat
    /\ Buffers \subseteq Nat /\ Graces \subseteq Nat
    /\ ArbiterFees \subseteq Nat /\ PlatformFees \subseteq Nat
    /\ Committees \subseteq [list : Seq(Accounts), required : Nat]
    /\ MilestonePlans \subseteq [amounts : Seq(Int), released : SUBSET Nat]
    /\ ZeroTransferOk \in BOOLEAN /\ Pausable \in BOOLEAN
    /\ MinDeadlineBuffer \in Nat /\ MaxLedger \in Nat

\* initialize_with_milestones and sync_disputable_amount add with checked_add: the
\* plans considered are those whose sums fit.
PlanSum(amounts, S) == SumFunctionOnSet(amounts, S)

VARIABLES
    now,         \* env.ledger().sequence()
    state,       \* State key; "Uninit" while the key is absent
    amount,      \* Amount key
    deadline,    \* Deadline key
    terms,       \* what only an initializer writes, the milestone amounts included
    deliveredAt, \* DeliveryMarkedAt key
    raisedAt,    \* DisputeRaisedAt key
    approvals,   \* DisputeApprovals key: at most one ballot per panel member
    released,    \* Milestones key: indices of the released milestones
    fees,        \* FeeBps and Treasury keys
    paused,      \* Paused key
    bal          \* balances of the payment token (external contract)

vars == <<now, state, amount, deadline, terms, deliveredAt, raisedAt, approvals,
          released, fees, paused, bal>>

Live == {"Funded", "Delivered", "Disputed"}
Terminal == {"Completed", "Refunded", "Cancelled", "ExpiredRefunded"}
EscrowStates == {"Uninit", "Created"} \cup Live \cup Terminal
Terms == [timeout : Nat, buffer : Nat, grace : Nat, arbiterFeeBps : Nat,
          arbiters : SUBSET Accounts, required : Nat,
          plan : Seq(Nat)]
NoTerms == [timeout |-> 0, buffer |-> 0, grace |-> 0, arbiterFeeBps |-> 0,
            arbiters |-> {}, required |-> 1, plan |-> <<>>]
NoApprovals == [a \in Accounts |-> "none"]

----
(* The payment token, as the escrow uses it.                               *)

Move(b, from, to, x) == [b EXCEPT ![from] = @ - x, ![to] = @ + x]
TransferOk(b, from, x) == x >= 0 /\ (x = 0 => ZeroTransferOk) /\ b[from] >= x

(* Fees.                                                                   *)

PlatformFee(gross) == (gross * fees.bps) \div BPS

\* maybe_pay_fee skips the transfer when there is nothing to pay or nobody to pay.
PaysFee(gross) == PlatformFee(gross) > 0 /\ fees.treasury # NoTreasury

\* A release of gross out of balances b: the net to the seller, then the fee.
ReleaseOk(b, gross) ==
    LET fee == PlatformFee(gross) IN
    /\ TransferOk(b, Self, gross - fee)
    /\ PaysFee(gross) => TransferOk(Move(b, Self, Seller, gross - fee), Self, fee)

\* Mutant: the fee is deducted from the seller's share and never paid out.
AfterReleaseFeeKept(b, gross) == Move(b, Self, Seller, gross - PlatformFee(gross))

AfterRelease(b, gross) ==
    LET fee == PlatformFee(gross)
        b1  == Move(b, Self, Seller, gross - fee)
    IN  IF PaysFee(gross) THEN Move(b1, Self, fees.treasury, fee) ELSE b1

ComputeArbiterFee(x) ==
    IF x <= 0 THEN 0
    ELSE LET fee == (x * terms.arbiterFeeBps) \div BPS
         IN  IF fee <= x THEN fee ELSE x

----
(* Helpers of lifecycle.rs.                                                *)

NotPaused == ~paused
ValidDeadline(dl) == dl >= now + MinDeadlineBuffer

\* sync_disputable_amount: what a full settlement pays out.
Disputable == IF terms.plan = <<>> THEN amount
              ELSE PlanSum(terms.plan, DOMAIN terms.plan \ released)

\* The effects before the interactions: final state, zero amount, every
\* milestone released.
Close(final) ==
    /\ state' = final
    /\ amount' = 0
    /\ released' = DOMAIN terms.plan

ReleaseAmount(b, x) ==
    /\ Close("Completed")
    /\ x > 0 => ReleaseOk(b, x)
    /\ bal' = IF x > 0 THEN AfterRelease(b, x) ELSE b

RefundAmount(b, x, final) ==
    /\ Close(final)
    /\ x > 0 => TransferOk(b, Self, x)
    /\ bal' = IF x > 0 THEN Move(b, Self, Buyer, x) ELSE b

\* The state an internal call sees is an argument: the dispute paths store
\* Funded or Delivered just before they call these.
ReleaseToSeller(st) == st = "Delivered" /\ ReleaseAmount(bal, Disputable)

\* Mutant: require_state for the wrong state.
RefundToBuyerDelivered(st, final) == st = "Delivered" /\ RefundAmount(bal, Disputable, final)

RefundToBuyer(st, final) == st = "Funded" /\ RefundAmount(bal, Disputable, final)

----
(* Initializers.                                                           *)

Init ==
    /\ now = 0 /\ state = "Uninit" /\ amount = 0 /\ deadline = 0
    /\ terms = NoTerms /\ deliveredAt = 0 /\ raisedAt = 0
    /\ approvals = NoApprovals /\ released = {}
    /\ fees = [bps |-> 0, treasury |-> NoTreasury]
    /\ paused = FALSE
    /\ bal = [a \in Accounts |-> IF a = Buyer THEN BuyerFunds ELSE 0]

StoreEscrowData(amt, dl, t) ==
    /\ state = "Uninit"
    /\ amt > 0
    /\ ValidDeadline(dl)
    /\ state' = "Created" /\ amount' = amt /\ deadline' = dl /\ terms' = t
    /\ UNCHANGED <<now, deliveredAt, raisedAt, approvals, fees, paused, bal>>

Initialize(amt, dl, timeout, feeBps) ==
    /\ feeBps <= MaxArbiterFeeBps
    /\ StoreEscrowData(amt, dl, [NoTerms EXCEPT !.timeout = timeout, !.arbiterFeeBps = feeBps])
    /\ UNCHANGED released

InitializeWithAbandonmentBuffer(amt, dl, timeout, buffer, grace) ==
    /\ StoreEscrowData(amt, dl, [NoTerms EXCEPT !.timeout = timeout, !.buffer = buffer,
                                                !.grace = grace])
    /\ UNCHANGED released

InitializeWithArbiters(amt, dl, timeout, c) ==
    LET members == {c.list[i] : i \in DOMAIN c.list} IN
    /\ c.required \in 1..Len(c.list)
    /\ Cardinality(members) = Len(c.list)
    /\ members \cap {Buyer, Seller} = {}
    /\ StoreEscrowData(amt, dl, [NoTerms EXCEPT !.timeout = timeout, !.arbiters = members,
                                                !.required = c.required])
    /\ UNCHANGED released

\* The caller's list is stored as it is, released flags included; the amount
\* is the sum over the whole list.
InitializeWithMilestones(p, dl, timeout) ==
    /\ Len(p.amounts) > 0
    /\ \A i \in DOMAIN p.amounts : p.amounts[i] > 0
    /\ StoreEscrowData(PlanSum(p.amounts, DOMAIN p.amounts), dl,
                       [NoTerms EXCEPT !.timeout = timeout, !.plan = p.amounts])
    /\ released' = p.released \cap DOMAIN p.amounts

----
(* Lifecycle entry points.                                                 *)

\* Mutant: the state check forgotten.
UpdateAmountAnyState(x) ==
    /\ x > 0
    /\ state # "Uninit"
    /\ amount' = x
    /\ UNCHANGED <<now, state, deadline, terms, deliveredAt, raisedAt, approvals,
                   released, fees, paused, bal>>

\* Buyer.  Only the Amount key: a milestone plan is left as it was.
UpdateAmount(x) ==
    /\ x > 0
    /\ state = "Created"
    /\ amount' = x
    /\ UNCHANGED <<now, state, deadline, terms, deliveredAt, raisedAt, approvals,
                   released, fees, paused, bal>>

\* Buyer.
Fund ==
    /\ NotPaused
    /\ state = "Created"
    /\ bal[Buyer] >= amount
    /\ state' = "Funded"
    /\ TransferOk(bal, Buyer, amount)
    /\ bal' = Move(bal, Buyer, Self, amount)
    /\ UNCHANGED <<now, amount, deadline, terms, deliveredAt, raisedAt, approvals,
                   released, fees, paused>>

\* Seller.
MarkDelivered ==
    /\ NotPaused
    /\ state = "Funded"
    /\ state' = "Delivered"
    /\ deliveredAt' = now
    /\ UNCHANGED <<now, amount, deadline, terms, raisedAt, approvals, released,
                   fees, paused, bal>>

\* Buyer.
ApproveDelivery ==
    /\ NotPaused
    /\ ReleaseToSeller(state)
    /\ UNCHANGED <<now, deadline, terms, deliveredAt, raisedAt, approvals, fees, paused>>

\* Buyer.
ReleasePartial(x) ==
    /\ NotPaused
    /\ state = "Funded"
    /\ x > 0 /\ x <= amount
    /\ amount' = amount - x
    /\ ReleaseOk(bal, x)
    /\ bal' = AfterRelease(bal, x)
    /\ UNCHANGED <<now, state, deadline, terms, deliveredAt, raisedAt, approvals,
                   released, fees, paused>>

GraceElapsed == terms.grace > 0 => now >= deliveredAt + terms.grace

\* Buyer.  refund_to_buyer re-checks that the state is Funded.
RequestRefund ==
    /\ NotPaused
    /\ now > deadline
    /\ state = "Delivered" => GraceElapsed
    /\ state \in {"Funded", "Delivered"}
    /\ RefundToBuyer(state, "Refunded")
    /\ UNCHANGED <<now, deadline, terms, deliveredAt, raisedAt, approvals, fees, paused>>

\* Buyer.
RequestPartialRefund ==
    /\ NotPaused
    /\ state = "Funded"
    /\ amount > 0
    /\ RefundToBuyer(state, "Refunded")
    /\ UNCHANGED <<now, deadline, terms, deliveredAt, raisedAt, approvals, fees, paused>>

\* Buyer.
ClaimExpiredRefund ==
    /\ NotPaused
    /\ state = "Funded"
    /\ now > deadline + terms.buffer
    /\ RefundToBuyer(state, "ExpiredRefunded")
    /\ UNCHANGED <<now, deadline, terms, deliveredAt, raisedAt, approvals, fees, paused>>

\* Buyer.
Cancel ==
    /\ state = "Created"
    /\ state' = "Cancelled"
    /\ UNCHANGED <<now, amount, deadline, terms, deliveredAt, raisedAt, approvals,
                   released, fees, paused, bal>>

\* Buyer and seller.
MutualCancel ==
    /\ NotPaused
    /\ state \in {"Funded", "Delivered"}
    /\ RefundAmount(bal, Disputable, "Cancelled")
    /\ UNCHANGED <<now, deadline, terms, deliveredAt, raisedAt, approvals, fees, paused>>

\* Buyer and seller.
ExtendDeadline(dl) ==
    /\ dl >= now + MinDeadlineBuffer
    /\ dl > deadline
    /\ state \in {"Funded", "Delivered"}
    /\ deadline' = dl
    /\ UNCHANGED <<now, state, amount, terms, deliveredAt, raisedAt, approvals,
                   released, fees, paused, bal>>

----
(* Milestones.                                                             *)

\* Mutant: the released allocation is not deducted from Amount.
SettleMilestoneKeepsAmount(i) ==
    /\ NotPaused
    /\ state = "Funded"
    /\ i \in DOMAIN terms.plan \ released
    /\ released' = released \cup {i}
    /\ amount' = amount
    /\ state' = IF released' = DOMAIN terms.plan THEN "Completed" ELSE state
    /\ UNCHANGED <<now, deadline, terms, deliveredAt, raisedAt, approvals, fees, paused>>

\* The common part of the two milestone releases: milestone i is released and
\* its allocation leaves Amount; the last release completes the escrow.
SettleMilestone(i) ==
    /\ NotPaused
    /\ state = "Funded"
    /\ i \in DOMAIN terms.plan \ released
    /\ released' = released \cup {i}
    /\ amount' = amount - terms.plan[i]
    /\ state' = IF released' = DOMAIN terms.plan THEN "Completed" ELSE state
    /\ UNCHANGED <<now, deadline, terms, deliveredAt, raisedAt, approvals, fees, paused>>

\* Buyer or arbiter.
ReleaseMilestone(i) ==
    /\ SettleMilestone(i)
    /\ ReleaseOk(bal, terms.plan[i])
    /\ bal' = AfterRelease(bal, terms.plan[i])

\* Buyer: x of milestone i to the seller, the rest of it back to the buyer.
ApproveMilestonePartial(i, x) ==
    /\ SettleMilestone(i)
    /\ x \in 0..terms.plan[i]
    /\ LET refund == terms.plan[i] - x
           b1     == IF x > 0 THEN AfterRelease(bal, x) ELSE bal
       IN  /\ x > 0 => ReleaseOk(bal, x)
           /\ refund > 0 => TransferOk(b1, Self, refund)
           /\ bal' = IF refund > 0 THEN Move(b1, Self, Buyer, refund) ELSE b1

----
(* Disputes.                                                               *)

\* Buyer or seller.
RaiseDispute(caller) ==
    /\ NotPaused
    /\ caller \in {Buyer, Seller}
    /\ state \in {"Funded", "Delivered"}
    /\ state' = "Disputed"
    /\ raisedAt' = now
    /\ UNCHANGED <<now, amount, deadline, terms, deliveredAt, approvals, released,
                   fees, paused, bal>>

\* Buyer.  Stores Funded, then refund_to_buyer.
ClaimDisputeTimeout ==
    /\ NotPaused
    /\ state = "Disputed"
    /\ terms.timeout # 0
    /\ now - raisedAt >= terms.timeout
    /\ raisedAt' = 0
    /\ RefundToBuyer("Funded", "Refunded")
    /\ UNCHANGED <<now, deadline, terms, deliveredAt, approvals, fees, paused>>

\* Pay the arbiter out of the stored Amount (which is not resynchronised with
\* the milestones here), then settle the remainder one way or the other.
Settle(arbiter, release) ==
    LET fee == ComputeArbiterFee(amount)
        b1  == IF fee > 0 THEN Move(bal, Self, arbiter, fee) ELSE bal
    IN  /\ fee > 0 => TransferOk(bal, Self, fee)
        /\ IF release THEN ReleaseAmount(b1, amount - fee)
                      ELSE RefundAmount(b1, amount - fee, "Refunded")

Choice(release) == IF release THEN "release" ELSE "refund"
Voted(ap) == {a \in Accounts : ap[a] # "none"}
QuorumReached(ap) == Cardinality(Voted(ap)) >= terms.required
\* Mutant: the direction check forgotten.
UnanimousSkipped(ap, release) == TRUE
Unanimous(ap, release) == \A a \in Voted(ap) : ap[a] = Choice(release)

\* resolve_multisig: a member, enough ballots, and all of them for this direction.
CommitteeAgrees(caller, release) ==
    caller \in terms.arbiters /\ QuorumReached(approvals) /\ Unanimous(approvals, release)

\* The sole arbiter, or any committee member once the committee has decided.
ResolveDispute(caller, release) ==
    /\ state = "Disputed"
    /\ terms.arbiters = {} => caller = Arbiter
    /\ terms.arbiters # {} => CommitteeAgrees(caller, release)
    /\ Settle(caller, release)
    /\ approvals' = IF terms.arbiters = {} THEN approvals ELSE NoApprovals
    /\ UNCHANGED <<now, deadline, terms, deliveredAt, raisedAt, fees, paused>>

\* A committee member's ballot.  A repeated ballot changes nothing, a changed
\* one is refused; the ballot that reaches the threshold settles the dispute,
\* or is refused when the ballots disagree.
ApproveDispute(a, release) ==
    LET ap == [approvals EXCEPT ![a] = Choice(release)] IN
    /\ NotPaused
    /\ state = "Disputed"
    /\ a \in terms.arbiters
    /\ approvals[a] = "none"
    /\ IF QuorumReached(ap)
       THEN /\ Unanimous(ap, release)
            /\ approvals' = NoApprovals
            /\ Settle(a, release)
       ELSE /\ approvals' = ap
            /\ UNCHANGED <<state, amount, released, bal>>
    /\ UNCHANGED <<now, deadline, terms, deliveredAt, raisedAt, fees, paused>>

----
(* Administration, time, and the multi-token entry points as they behave   *)
(* on an escrow without a basket.                                          *)

\* Platform admin.
SetFeeConfig(bps, treasury) ==
    /\ state # "Uninit"
    /\ bps <= BPS
    /\ fees' = [bps |-> bps, treasury |-> treasury]
    /\ UNCHANGED <<now, state, amount, deadline, terms, deliveredAt, raisedAt, approvals,
                   released, paused, bal>>

\* Platform admin.  The Admin key exists once the escrow is initialized.
SetPaused(p) ==
    /\ Pausable /\ state # "Uninit"
    /\ paused' = p
    /\ UNCHANGED <<now, state, amount, deadline, terms, deliveredAt, raisedAt, approvals,
                   released, fees, bal>>

\* Anyone: no require_auth on these two.
ReleaseMultiToken ==
    /\ NotPaused
    /\ ReleaseToSeller(state)
    /\ UNCHANGED <<now, deadline, terms, deliveredAt, raisedAt, approvals, fees, paused>>

RefundMultiToken ==
    /\ NotPaused
    /\ RefundToBuyer(state, "Refunded")
    /\ UNCHANGED <<now, deadline, terms, deliveredAt, raisedAt, approvals, fees, paused>>

\* The clock is bounded, but never before an open dispute can time out.
Horizon == IF state = "Disputed" THEN MaxLedger + terms.timeout ELSE MaxLedger

Tick ==
    /\ now < Horizon
    /\ now' = now + 1
    /\ UNCHANGED <<state, amount, deadline, terms, deliveredAt, raisedAt, approvals,
                   released, fees, paused, bal>>

----
InitializeStep ==
    \/ \E amt \in Amounts, dl \in Deadlines, t \in Timeouts, f \in ArbiterFees :
          Initialize(amt, dl, t, f)
    \/ \E amt \in Amounts, dl \in Deadlines, t \in Timeouts, b \in Buffers, g \in Graces :
          InitializeWithAbandonmentBuffer(amt, dl, t, b, g)
    \/ \E amt \in Amounts, dl \in Deadlines, t \in Timeouts, c \in Committees :
          InitializeWithArbiters(amt, dl, t, c)
    \/ \E p \in MilestonePlans, dl \in Deadlines, t \in Timeouts :
          InitializeWithMilestones(p, dl, t)

LifecycleStep ==
    \/ \E x \in Amounts : UpdateAmount(x) \/ ReleasePartial(x)
    \/ Fund \/ MarkDelivered \/ ApproveDelivery
    \/ RequestRefund \/ RequestPartialRefund \/ ClaimExpiredRefund
    \/ Cancel \/ MutualCancel
    \/ \E dl \in Deadlines : ExtendDeadline(dl)
    \/ \E i \in DOMAIN terms.plan :
          \/ ReleaseMilestone(i)
          \/ \E x \in 0..terms.plan[i] : ApproveMilestonePartial(i, x)

DisputeStep ==
    \/ \E c \in {Buyer, Seller} : RaiseDispute(c)
    \/ ClaimDisputeTimeout
    \/ \E c \in {Arbiter} \cup Panel, r \in BOOLEAN : ResolveDispute(c, r)
    \/ \E a \in Panel, r \in BOOLEAN : ApproveDispute(a, r)

AdminStep ==
    \/ \E f \in PlatformFees, t \in Treasuries : SetFeeConfig(f, t)
    \/ \E p \in BOOLEAN : SetPaused(p)

Next == InitializeStep \/ LifecycleStep \/ DisputeStep \/ AdminStep
        \/ ReleaseMultiToken \/ RefundMultiToken \/ Tick

Spec == Init /\ [][Next]_vars

(* Fairness: ledgers keep closing, and a buyer who wants its money back    *)
(* keeps calling the entry points it can call alone.  Nothing is assumed   *)
(* of the seller, the arbiters or the admin.                               *)
DiligentBuyer == WF_vars(Tick) /\ WF_vars(RequestRefund) /\ WF_vars(ClaimDisputeTimeout)

----
(* Properties.                                                             *)

\* The storage keys and the token balances keep their types.
TypeOK ==
    /\ now \in Nat /\ deadline \in Nat /\ deliveredAt \in Nat /\ raisedAt \in Nat
    /\ state \in EscrowStates
    /\ amount \in Nat
    /\ terms \in Terms
    /\ approvals \in [Accounts -> Ballots]
    /\ released \subseteq DOMAIN terms.plan
    /\ fees \in [bps : 0..BPS, treasury : Treasuries \cup {NoTreasury}]
    /\ paused \in BOOLEAN
    /\ bal \in [Accounts -> Nat]

\* The contract holds nothing before fund() and exactly Amount from then until
\* the escrow is settled: every partial release, milestone release, fee and
\* dispute step takes the same amount out of the books and out of the vault.
VaultBacked ==
    /\ state \in {"Uninit", "Created"} => bal[Self] = 0
    /\ state \in Live => bal[Self] = amount

\* Whatever path settles an escrow (approval, refund, expiry, mutual cancel,
\* arbiter or committee decision, timeout, last milestone), nothing stays in
\* the contract, from which no entry point could take it out any more.
NothingStranded == state \in Terminal => bal[Self] = 0

\* The stored Amount and the unreleased milestones tell the same story.
MilestonesInStep == state \in Live => Disputable = amount

\* A committee never sits on a decision: the ballot that reaches the threshold
\* settles the dispute in the same invocation, so no dispute rests at quorum.
ThresholdExecutes ==
    state = "Disputed" /\ terms.arbiters # {} =>
        ~(Cardinality(Voted(approvals)) >= terms.required)

BallotsFor(d) == {a \in Accounts : approvals[a] = d}

\* A committee's funds go to the seller only on `required` release ballots (the
\* last one being cast in this step) and over no refund ballot.
CommitteeDecides ==
    [][state = "Disputed" /\ terms.arbiters # {} /\ state' = "Completed" =>
          /\ Cardinality(BallotsFor("release")) + 1 >= terms.required
          /\ BallotsFor("refund") = {}]_vars

\* A settled escrow is frozen: no entry point changes its state, its books or
\* moves its tokens again.
TerminalFrozen ==
    [][(state \in Terminal) => UNCHANGED <<state, amount, released, bal>>]_vars

\* The abstract vault, read off the concrete state: the phase from State, the
\* holding from the token's own books (not from the escrow's Amount).
Phase == CASE state \in {"Uninit", "Created"} -> "open"
           [] state \in Live -> "held"
           [] state \in Terminal -> "closed"

Vault == INSTANCE EscrowVault WITH phase <- Phase, held <- bal[Self]

\* Every entry point is a deposit, a payout, a settlement, an abandonment or
\* invisible to the vault: one deposit, no refill, no leftover, no reopening.
ImplementsVault == Vault!Spec

\* A funded escrow whose seller stays silent does not keep the buyer's money:
\* unless the admin keeps it paused, the deadline passes and request_refund goes
\* through.
FundedNotForever == [](state = "Funded" /\ []~paused => <>(state # "Funded"))

\* A dispute with a timeout ends even if no arbiter ever answers.
DisputeNotForever ==
    [](state = "Disputed" /\ terms.timeout > 0 /\ []~paused => <>(state \in Terminal))

\* No silent party keeps the money locked up: neither a seller who never delivers
\* nor a committee or an arbiter who never answers a dispute with a timeout.
SilenceNotForever == FundedNotForever /\ DisputeNotForever

\* ADR-0008: votes accumulate per direction; while some direction can still
\* reach the threshold with the arbiters who have not voted, a vote is accepted.
CommitteeCanDecide ==
    LET undecided == terms.arbiters \ Voted(approvals) IN
    /\ state = "Disputed" /\ terms.arbiters # {} /\ ~paused
    /\ \E d \in {"release", "refund"} :
          Cardinality(BallotsFor(d) \cup undecided) >= terms.required
    => \E a \in undecided, r \in BOOLEAN : ENABLED ApproveDispute(a, r)
====
