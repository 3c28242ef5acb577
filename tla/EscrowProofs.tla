---- MODULE EscrowProofs ----
(***************************************************************************)
(* Proofs about Escrow and EscrowBasket for every choice of parties,       *)
(* amounts, deadlines, fees, committees, milestone plans and baskets.      *)
(***************************************************************************)
EXTENDS EscrowBasket, FoldLemmas

(***************************************************************************)
(* The inductive invariant.  VaultBacked alone is not inductive: a release *)
(* takes the gross amount out of the vault only if the fee is either zero  *)
(* or has a treasury to go to (FeeRouted), milestones are those of an      *)
(* offered plan (PlanKnown), nothing is released before initialization     *)
(* (Pristine), and an escrow waiting for its deposit has a price (Priced). *)
(***************************************************************************)
FeeRouted == fees.bps > 0 => fees.treasury # NoTreasury

PlanKnown == terms.plan # <<>> => \E p \in MilestonePlans : terms.plan = p.amounts

Pristine == state = "Uninit" => released = {}

Priced == state = "Created" => amount > 0

IInv == TypeOK /\ VaultBacked /\ FeeRouted /\ PlanKnown /\ Pristine /\ Priced

----
(* Lemmas about the operators.                                             *)

\* A transfer of a covered amount between two different accounts takes exactly
\* that amount from the sender and keeps balances non-negative.
LEMMA MoveLemma ==
    ASSUME NEW b \in [Accounts -> Nat], NEW from \in Accounts, NEW to \in Accounts,
           from # to, NEW x \in Nat, b[from] >= x
    PROVE  /\ Move(b, from, to, x) \in [Accounts -> Nat]
           /\ Move(b, from, to, x)[from] = b[from] - x
BY DEF Move

\* The fee configuration, taken out of the type invariant.
LEMMA FeeConfigLemma ==
    ASSUME TypeOK
    PROVE  fees.bps \in Nat /\ fees.treasury \in Treasuries \cup {NoTreasury}
<1>1. fees \in [bps : 0..BPS, treasury : Treasuries \cup {NoTreasury}] BY DEF TypeOK
<1>2. fees.bps \in 0..BPS /\ fees.treasury \in Treasuries \cup {NoTreasury} BY <1>1
<1>3. BPS \in Nat BY DEF BPS
<1>4. QED BY <1>2, <1>3

\* The platform fee on a non-negative amount is a natural number, zero without a rate.
LEMMA PlatformFeeLemma ==
    ASSUME TypeOK, NEW g \in Nat
    PROVE  /\ PlatformFee(g) \in Nat
           /\ fees.bps = 0 => PlatformFee(g) = 0
<1>1. fees.bps \in Nat BY FeeConfigLemma
<1>2. g * fees.bps \in Nat BY <1>1
<1>3. fees.bps = 0 => g * fees.bps = 0 BY <1>1
<1>4. QED BY <1>1, <1>2, <1>3 DEF PlatformFee, BPS

\* A release takes exactly the gross amount out of the contract's balance.
LEMMA ReleaseLemma ==
    ASSUME TypeOK, FeeRouted, NEW b \in [Accounts -> Nat], NEW g \in Nat, ReleaseOk(b, g)
    PROVE  /\ AfterRelease(b, g) \in [Accounts -> Nat]
           /\ AfterRelease(b, g)[Self] = b[Self] - g
<1> DEFINE fee == PlatformFee(g)
           b1  == Move(b, Self, Seller, g - fee)
<1>1. fee \in Nat /\ (fees.bps = 0 => fee = 0) BY PlatformFeeLemma
<1>2. Self \in Accounts /\ Seller \in Accounts /\ Self # Seller
  BY PartyAssumption DEF Accounts
<1>3. g - fee \in Nat /\ b[Self] >= g - fee
  BY <1>1 DEF ReleaseOk, TransferOk
<1>4. b1 \in [Accounts -> Nat] /\ b1[Self] = b[Self] - (g - fee)
  BY <1>2, <1>3, MoveLemma
<1>5. CASE PaysFee(g)
  <2>1. fees.treasury \in Accounts /\ fees.treasury # Self
    BY <1>5, PartyAssumption DEF PaysFee, TypeOK, Accounts
  <2>2. b1[Self] >= fee BY <1>5 DEF ReleaseOk, TransferOk
  <2>3. /\ Move(b1, Self, fees.treasury, fee) \in [Accounts -> Nat]
        /\ Move(b1, Self, fees.treasury, fee)[Self] = b1[Self] - fee
    BY <1>1, <1>2, <1>4, <2>1, <2>2, MoveLemma
  <2>4. QED
    <3>1. AfterRelease(b, g) = Move(b1, Self, fees.treasury, fee) BY <1>5 DEF AfterRelease
    <3>2. b[Self] \in Nat BY <1>2
    <3>3. QED BY <3>1, <3>2, <2>3, <1>4, <1>1
<1>6. CASE ~PaysFee(g)
  <2>1. fees.bps \in Nat BY FeeConfigLemma
  <2>2. fee = 0 BY <1>1, <1>6, <2>1 DEF PaysFee, FeeRouted
  <2>3. AfterRelease(b, g) = b1 BY <1>6 DEF AfterRelease
  <2>4. b[Self] \in Nat BY <1>2
  <2>5. QED BY <2>2, <2>3, <2>4, <1>4
<1>7. QED BY <1>5, <1>6

\* The arbiter's fee is at most what is disputed.
LEMMA ArbiterFeeLemma ==
    ASSUME TypeOK, NEW x \in Nat
    PROVE  ComputeArbiterFee(x) \in 0..x
<1>1. terms.arbiterFeeBps \in Nat BY DEF TypeOK, Terms
<1>2. x * terms.arbiterFeeBps \in Nat BY <1>1
<1>3. QED BY <1>1, <1>2 DEF ComputeArbiterFee, BPS

\* The milestones are finitely many, and any of them add up to an integer.
LEMMA PlanSumLemma ==
    ASSUME NEW plan \in Seq(Int), NEW S \in SUBSET DOMAIN plan
    PROVE  IsFiniteSet(S) /\ PlanSum(plan, S) \in Int
<1>1. PICK n \in Nat : n = Len(plan) /\ DOMAIN plan = 1..n OBVIOUS
<1>2. IsFiniteSet(1..n) BY FS_Interval
<1>3. IsFiniteSet(S) BY <1>1, <1>2, FS_Subset
<1>4. \A i \in S : plan[i] \in Int OBVIOUS
<1>5. QED BY <1>3, <1>4, SumBasics DEF PlanSum

\* What a settlement pays is an integer.
LEMMA DisputableLemma ==
    ASSUME TypeOK
    PROVE  /\ Disputable \in Int
           /\ terms.plan = <<>> => Disputable = amount
<1>1. CASE terms.plan = <<>> BY <1>1 DEF Disputable, TypeOK
<1>2. CASE terms.plan # <<>>
  <2>1. terms.plan \in Seq(Nat) BY DEF TypeOK, Terms
  <2>2. terms.plan \in Seq(Int) BY <2>1
  <2>3. PlanSum(terms.plan, DOMAIN terms.plan \ released) \in Int BY <2>2, PlanSumLemma
  <2>4. QED BY <1>2, <2>3 DEF Disputable
<1>3. QED BY <1>1, <1>2

----
(* What the two ways of settling do to the state.                          *)

\* A refund of x out of balances b: settled, and exactly x leaves the contract.
LEMMA RefundAmountLemma ==
    ASSUME NEW b \in [Accounts -> Nat], NEW x \in Int, NEW final, RefundAmount(b, x, final)
    PROVE  /\ state' = final /\ amount' = 0 /\ released' = DOMAIN terms.plan
           /\ bal' \in [Accounts -> Nat]
           /\ x \in Nat => bal'[Self] = b[Self] - x
<1>1. Self \in Accounts /\ Buyer \in Accounts /\ Self # Buyer
  BY PartyAssumption DEF Accounts
<1>2. state' = final /\ amount' = 0 /\ released' = DOMAIN terms.plan
  BY DEF RefundAmount, Close
<1>3. CASE x > 0
  <2>1. x \in Nat /\ b[Self] >= x BY <1>3 DEF RefundAmount, TransferOk
  <2>2. bal' = Move(b, Self, Buyer, x) BY <1>3 DEF RefundAmount
  <2>3. QED BY <1>1, <1>2, <2>1, <2>2, MoveLemma
<1>4. CASE ~(x > 0)
  <2>1. bal' = b BY <1>4 DEF RefundAmount
  <2>2. x \in Nat => x = 0 BY <1>4
  <2>3. b[Self] \in Nat BY <1>1
  <2>4. QED BY <1>2, <2>1, <2>2, <2>3
<1>5. QED BY <1>3, <1>4

\* A release of x out of balances b: settled, and exactly x leaves the contract,
\* whatever part of it is the platform's fee.
LEMMA ReleaseAmountLemma ==
    ASSUME TypeOK, FeeRouted,
           NEW b \in [Accounts -> Nat], NEW x \in Int, ReleaseAmount(b, x)
    PROVE  /\ state' = "Completed" /\ amount' = 0 /\ released' = DOMAIN terms.plan
           /\ bal' \in [Accounts -> Nat]
           /\ x \in Nat => bal'[Self] = b[Self] - x
<1>1. Self \in Accounts BY DEF Accounts
<1>2. state' = "Completed" /\ amount' = 0 /\ released' = DOMAIN terms.plan
  BY DEF ReleaseAmount, Close
<1>3. CASE x > 0
  <2>1. x \in Nat BY <1>3
  <2>2. ReleaseOk(b, x) /\ bal' = AfterRelease(b, x) BY <1>3 DEF ReleaseAmount
  <2>3. QED BY <1>2, <2>1, <2>2, ReleaseLemma
<1>4. CASE ~(x > 0)
  <2>1. bal' = b BY <1>4 DEF ReleaseAmount
  <2>2. x \in Nat => x = 0 BY <1>4
  <2>3. b[Self] \in Nat BY <1>1
  <2>4. QED BY <1>2, <2>1, <2>2, <2>3
<1>5. QED BY <1>3, <1>4

\* A dispute settlement, either way, pays out exactly the stored Amount: the
\* arbiter's fee and the remainder add up.
LEMMA SettleLemma ==
    ASSUME TypeOK, FeeRouted, NEW a \in Accounts, a # Self, NEW r \in BOOLEAN, Settle(a, r)
    PROVE  /\ state' \in Terminal /\ amount' = 0 /\ released' = DOMAIN terms.plan
           /\ bal' \in [Accounts -> Nat]
           /\ bal'[Self] = bal[Self] - amount
<1> DEFINE fee == ComputeArbiterFee(amount)
           b1  == IF fee > 0 THEN Move(bal, Self, a, fee) ELSE bal
<1>1. amount \in Nat /\ bal \in [Accounts -> Nat] BY DEF TypeOK
<1>2. fee \in Nat /\ fee <= amount BY <1>1, ArbiterFeeLemma
<1>3. Self \in Accounts BY DEF Accounts
<1>4. b1 \in [Accounts -> Nat] /\ b1[Self] = bal[Self] - fee
  <2>1. CASE fee > 0
    <3>1. bal[Self] >= fee BY <2>1 DEF Settle, TransferOk
    <3>2. QED BY <1>1, <1>2, <1>3, <2>1, <3>1, MoveLemma
  <2>2. CASE ~(fee > 0)
    <3>1. bal[Self] \in Nat /\ fee = 0 BY <1>1, <1>2, <1>3, <2>2
    <3>2. QED BY <1>1, <2>2, <3>1
  <2>3. QED BY <2>1, <2>2
<1>5. amount - fee \in Nat BY <1>1, <1>2
<1>6. bal[Self] \in Nat BY <1>1, <1>3
<1> HIDE DEF b1, fee
<1>7. CASE r
  <2>1. ReleaseAmount(b1, amount - fee) BY <1>7 DEF Settle, b1, fee
  <2>2. QED BY <1>1, <1>2, <1>4, <1>5, <1>6, <2>1, ReleaseAmountLemma DEF Terminal
<1>8. CASE ~r
  <2>1. RefundAmount(b1, amount - fee, "Refunded") BY <1>8 DEF Settle, b1, fee
  <2>2. QED BY <1>1, <1>2, <1>4, <1>5, <1>6, <2>1, RefundAmountLemma DEF Terminal
<1>9. QED BY <1>7, <1>8

----
(* Three shapes of step that preserve the invariant.                       *)

\* A step that settles the escrow.
LEMMA ClosedInv ==
    ASSUME IInv, state' \in Terminal, amount' = 0, released' = DOMAIN terms.plan,
           bal' \in [Accounts -> Nat], raisedAt' \in Nat,
           approvals' \in [Accounts -> Ballots],
           UNCHANGED <<now, deadline, terms, deliveredAt, fees, paused>>
    PROVE  IInv'
<1>1. TypeOK' BY DEF IInv, TypeOK, EscrowStates
<1>2. VaultBacked' BY DEF VaultBacked, Terminal, Live
<1>3. QED BY <1>1, <1>2 DEF IInv, FeeRouted, PlanKnown, Pristine, Priced, Terminal, Live

\* A step that moves no money and stays before, or within, the funded life.
LEMMA QuietInv ==
    ASSUME IInv, UNCHANGED <<amount, terms, released, fees, bal>>,
           \/ state' = state
           \/ state \in Live /\ state' \in Live
           \/ state = "Created" /\ state' = "Cancelled",
           now' \in Nat, deadline' \in Nat, deliveredAt' \in Nat, raisedAt' \in Nat,
           approvals' \in [Accounts -> Ballots], paused' \in BOOLEAN
    PROVE  IInv'
<1>1. TypeOK' BY DEF IInv, TypeOK, EscrowStates, Terminal, Live
<1>2. VaultBacked' BY DEF IInv, VaultBacked, Terminal, Live
<1>3. QED BY <1>1, <1>2 DEF IInv, FeeRouted, PlanKnown, Pristine, Priced, Terminal, Live

\* A step of a funded escrow that pays x out of the vault and out of Amount.
LEMMA PaidInv ==
    ASSUME IInv, state = "Funded", state' \in {"Funded", "Completed"},
           NEW x \in Nat, bal' \in [Accounts -> Nat],
           bal'[Self] = bal[Self] - x, amount' = amount - x,
           released' \subseteq DOMAIN terms.plan,
           UNCHANGED <<now, deadline, terms, deliveredAt, raisedAt, approvals, fees, paused>>
    PROVE  IInv'
<1>1. bal[Self] = amount BY DEF IInv, VaultBacked, Live
<1>2. amount' = bal'[Self] BY <1>1
<1>3. Self \in Accounts BY DEF Accounts
<1>4. amount' \in Nat BY <1>2, <1>3
<1>5. TypeOK' BY <1>4 DEF IInv, TypeOK, EscrowStates, Terminal, Live
<1>6. VaultBacked' BY <1>2 DEF VaultBacked, Terminal, Live
<1>7. QED BY <1>5, <1>6 DEF IInv, FeeRouted, PlanKnown, Pristine, Priced, Terminal, Live

----
(* Initial states and initializers.                                        *)

\* The terms of an escrow nobody initialized.
LEMMA NoTermsLemma == NoTerms \in Terms /\ NoTerms.plan = <<>> /\ NoTerms.arbiters = {}
<1>1. <<>> \in Seq(Nat) OBVIOUS
<1>2. QED BY <1>1 DEF NoTerms, Terms

\* The deployed contract's empty storage satisfies the inductive invariant.
LEMMA InitIInv == Init => IInv
<1> SUFFICES ASSUME Init PROVE IInv OBVIOUS
<1>1. NoTerms \in Terms BY NoTermsLemma
<1>2. approvals \in [Accounts -> Ballots] BY DEF Init, NoApprovals, Ballots
<1>3. fees \in [bps : 0..BPS, treasury : Treasuries \cup {NoTreasury}]
  <2>1. 0 \in 0..BPS BY DEF BPS
  <2>2. QED BY <2>1 DEF Init
<1>4. bal \in [Accounts -> Nat] /\ bal[Self] = 0
  BY PartyAssumption, InputAssumption DEF Init, Accounts
<1>5. TypeOK BY <1>1, <1>2, <1>3, <1>4 DEF Init, TypeOK, EscrowStates
<1>6. VaultBacked BY <1>4 DEF Init, VaultBacked, Live
<1>7. QED BY <1>5, <1>6 DEF Init, IInv, FeeRouted, PlanKnown, Pristine, Priced, NoTerms

\* What every initializer does.
LEMMA StoreInv ==
    ASSUME IInv, NEW amt \in Int, NEW dl \in Nat, NEW t \in Terms,
           StoreEscrowData(amt, dl, t), released' \subseteq DOMAIN t.plan,
           t.plan # <<>> => \E p \in MilestonePlans : t.plan = p.amounts
    PROVE  IInv'
<1>1. amt \in Nat BY DEF StoreEscrowData
<1>2. TypeOK' BY <1>1 DEF IInv, TypeOK, EscrowStates, StoreEscrowData
<1>3. VaultBacked' BY DEF IInv, VaultBacked, StoreEscrowData, Live
<1>4. QED BY <1>2, <1>3 DEF IInv, FeeRouted, PlanKnown, Pristine, Priced, StoreEscrowData

\* Every initializer, whatever terms it stores, establishes the funded part of it.
LEMMA InitializeInv ==
    ASSUME IInv, InitializeStep
    PROVE  IInv'
<1>1. ASSUME NEW amt \in Amounts, NEW dl \in Deadlines, NEW t \in Timeouts,
             NEW f \in ArbiterFees, Initialize(amt, dl, t, f)
      PROVE  IInv'
  <2> DEFINE tt == [NoTerms EXCEPT !.timeout = t, !.arbiterFeeBps = f]
  <2>1. tt \in Terms /\ tt.plan = <<>> BY InputAssumption, NoTermsLemma DEF Terms
  <2>2. released' = {} BY <1>1 DEF Initialize, StoreEscrowData, IInv, Pristine
  <2>3. StoreEscrowData(amt, dl, tt) BY <1>1 DEF Initialize
  <2>4. QED BY <2>1, <2>2, <2>3, StoreInv, InputAssumption
<1>2. ASSUME NEW amt \in Amounts, NEW dl \in Deadlines, NEW t \in Timeouts,
             NEW b \in Buffers, NEW g \in Graces,
             InitializeWithAbandonmentBuffer(amt, dl, t, b, g)
      PROVE  IInv'
  <2> DEFINE tt == [NoTerms EXCEPT !.timeout = t, !.buffer = b, !.grace = g]
  <2>1. tt \in Terms /\ tt.plan = <<>> BY InputAssumption, NoTermsLemma DEF Terms
  <2>2. released' = {}
    BY <1>2 DEF InitializeWithAbandonmentBuffer, StoreEscrowData, IInv, Pristine
  <2>3. StoreEscrowData(amt, dl, tt) BY <1>2 DEF InitializeWithAbandonmentBuffer
  <2>4. QED BY <2>1, <2>2, <2>3, StoreInv, InputAssumption
<1>3. ASSUME NEW amt \in Amounts, NEW dl \in Deadlines, NEW t \in Timeouts,
             NEW c \in Committees, InitializeWithArbiters(amt, dl, t, c)
      PROVE  IInv'
  <2> DEFINE members == {c.list[i] : i \in DOMAIN c.list}
             tt == [NoTerms EXCEPT !.timeout = t, !.arbiters = members,
                                   !.required = c.required]
  <2>1. c.list \in Seq(Accounts) /\ c.required \in Nat BY InputAssumption
  <2>2. members \subseteq Accounts BY <2>1
  <2>3. tt \in Terms /\ tt.plan = <<>> BY <2>1, <2>2, InputAssumption, NoTermsLemma DEF Terms
  <2>4. released' = {}
    BY <1>3 DEF InitializeWithArbiters, StoreEscrowData, IInv, Pristine
  <2>5. StoreEscrowData(amt, dl, tt) BY <1>3 DEF InitializeWithArbiters
  <2>6. QED BY <2>3, <2>4, <2>5, StoreInv, InputAssumption
<1>4. ASSUME NEW p \in MilestonePlans, NEW dl \in Deadlines, NEW t \in Timeouts,
             InitializeWithMilestones(p, dl, t)
      PROVE  IInv'
  <2> DEFINE tt == [NoTerms EXCEPT !.timeout = t, !.plan = p.amounts]
             amt == PlanSum(p.amounts, DOMAIN p.amounts)
  <2>1. p.amounts \in Seq(Int) BY InputAssumption
  <2>2. \A i \in DOMAIN p.amounts : p.amounts[i] \in Nat
    BY <1>4, <2>1 DEF InitializeWithMilestones
  <2>3. p.amounts \in Seq(Nat) BY <2>1, <2>2
  <2>4. tt \in Terms /\ tt.plan = p.amounts BY <2>3, InputAssumption DEF NoTerms, Terms
  <2>5. amt \in Int BY <2>1, PlanSumLemma
  <2>6. released' \subseteq DOMAIN tt.plan BY <1>4, <2>4 DEF InitializeWithMilestones
  <2>7. StoreEscrowData(amt, dl, tt) BY <1>4 DEF InitializeWithMilestones
  <2>8. QED BY <2>4, <2>5, <2>6, <2>7, StoreInv, InputAssumption
<1>5. QED BY <1>1, <1>2, <1>3, <1>4 DEF InitializeStep

----
(* Lifecycle entry points.                                                 *)

\* The internal settlements, from whatever state their callers stored.
LEMMA RefundToBuyerInv ==
    ASSUME IInv, NEW st, NEW final \in Terminal, RefundToBuyer(st, final),
           raisedAt' \in Nat,
           UNCHANGED <<now, deadline, terms, deliveredAt, approvals, fees, paused>>
    PROVE  IInv'
<1>1. Disputable \in Int BY DisputableLemma DEF IInv
<1>2. bal \in [Accounts -> Nat] /\ approvals' \in [Accounts -> Ballots] BY DEF IInv, TypeOK
<1>3. RefundAmount(bal, Disputable, final) BY DEF RefundToBuyer
<1>4. /\ state' = final /\ amount' = 0 /\ released' = DOMAIN terms.plan
      /\ bal' \in [Accounts -> Nat]
  BY <1>1, <1>2, <1>3, RefundAmountLemma
<1>5. QED BY <1>2, <1>4, ClosedInv

\* release_to_seller empties the vault from every state it is called in.
LEMMA ReleaseToSellerInv ==
    ASSUME IInv, NEW st, ReleaseToSeller(st),
           UNCHANGED <<now, deadline, terms, deliveredAt, raisedAt, approvals, fees, paused>>
    PROVE  IInv'
<1>1. Disputable \in Int BY DisputableLemma DEF IInv
<1>2. /\ bal \in [Accounts -> Nat] /\ raisedAt' \in Nat
      /\ approvals' \in [Accounts -> Ballots] BY DEF IInv, TypeOK
<1>3. ReleaseAmount(bal, Disputable) BY DEF ReleaseToSeller
<1>4. /\ state' = "Completed" /\ amount' = 0 /\ released' = DOMAIN terms.plan
      /\ bal' \in [Accounts -> Nat]
  BY <1>1, <1>2, <1>3, ReleaseAmountLemma DEF IInv
<1>5. "Completed" \in Terminal BY DEF Terminal
<1>6. QED BY <1>2, <1>4, <1>5, ClosedInv

\* fund backs the amount it records.
LEMMA FundInv ==
    ASSUME IInv, Fund
    PROVE  IInv'
<1>1. /\ bal \in [Accounts -> Nat] /\ amount \in Nat
      /\ bal[Self] = 0 /\ bal[Buyer] >= amount
  BY DEF IInv, TypeOK, VaultBacked, Fund
<1>2. Self \in Accounts /\ Buyer \in Accounts /\ Self # Buyer
  BY PartyAssumption DEF Accounts
<1>3. bal' \in [Accounts -> Nat] /\ bal'[Self] = amount
  BY <1>1, <1>2 DEF Fund, Move
<1>4. TypeOK' BY <1>3 DEF IInv, TypeOK, Fund, EscrowStates, Live
<1>5. VaultBacked' BY <1>3 DEF VaultBacked, Fund, Live
<1>6. QED BY <1>4, <1>5 DEF Fund, IInv, FeeRouted, PlanKnown, Pristine, Priced

\* What settling milestone i pays, and out of which state.
LEMMA SettleMilestoneFacts ==
    ASSUME IInv, NEW i, SettleMilestone(i)
    PROVE  /\ terms.plan[i] \in Nat
           /\ state = "Funded" /\ state' \in {"Funded", "Completed"}
           /\ released' \subseteq DOMAIN terms.plan
           /\ amount' = amount - terms.plan[i]
           /\ UNCHANGED <<now, deadline, terms, deliveredAt, raisedAt, approvals, fees, paused>>
<1>1. terms.plan \in Seq(Nat) BY DEF IInv, TypeOK, Terms
<1>2. i \in DOMAIN terms.plan BY DEF SettleMilestone
<1>3. terms.plan[i] \in Nat BY <1>1, <1>2
<1>4. released' \subseteq DOMAIN terms.plan BY <1>2 DEF SettleMilestone, IInv, TypeOK
<1>5. QED BY <1>3, <1>4 DEF SettleMilestone

\* release_milestone pays its share out of the vault and out of Amount.
LEMMA ReleaseMilestonePays ==
    ASSUME IInv, NEW i, ReleaseMilestone(i)
    PROVE  /\ SettleMilestone(i)
           /\ bal' \in [Accounts -> Nat]
           /\ bal'[Self] = bal[Self] - terms.plan[i]
<1> DEFINE x == terms.plan[i]
<1>1. SettleMilestone(i) /\ ReleaseOk(bal, x) /\ bal' = AfterRelease(bal, x)
  BY DEF ReleaseMilestone
<1>2. x \in Nat BY <1>1, SettleMilestoneFacts
<1>3. bal \in [Accounts -> Nat] BY DEF IInv, TypeOK
<1>4. bal' \in [Accounts -> Nat] /\ bal'[Self] = bal[Self] - x
  BY <1>1, <1>2, <1>3, ReleaseLemma DEF IInv
<1>5. QED BY <1>1, <1>4

\* So does approve_milestone_partial.
LEMMA ApproveMilestonePartialPays ==
    ASSUME IInv, NEW i, NEW x, ApproveMilestonePartial(i, x)
    PROVE  /\ SettleMilestone(i)
           /\ bal' \in [Accounts -> Nat]
           /\ bal'[Self] = bal[Self] - terms.plan[i]
<1> DEFINE refund == terms.plan[i] - x
           b1     == IF x > 0 THEN AfterRelease(bal, x) ELSE bal
<1>1. SettleMilestone(i) /\ x \in 0..terms.plan[i] BY DEF ApproveMilestonePartial
<1>2. terms.plan[i] \in Nat BY <1>1, SettleMilestoneFacts
<1>3. x \in Nat /\ refund \in Nat BY <1>1, <1>2
<1>4. bal \in [Accounts -> Nat] BY DEF IInv, TypeOK
<1>5. Self \in Accounts /\ Buyer \in Accounts /\ Self # Buyer
  BY PartyAssumption DEF Accounts
<1>6. bal[Self] \in Nat BY <1>4, <1>5
<1>7. b1 \in [Accounts -> Nat] /\ b1[Self] = bal[Self] - x
  <2>1. CASE x > 0
    <3>1. ReleaseOk(bal, x) BY <2>1 DEF ApproveMilestonePartial
    <3>2. QED BY <2>1, <3>1, <1>3, <1>4, ReleaseLemma DEF IInv
  <2>2. CASE ~(x > 0) BY <2>2, <1>3, <1>4, <1>6
  <2>3. QED BY <2>1, <2>2
<1>8. bal' \in [Accounts -> Nat] /\ bal'[Self] = b1[Self] - refund
  <2>1. CASE refund > 0
    <3>1. b1[Self] >= refund /\ bal' = Move(b1, Self, Buyer, refund)
      BY <2>1 DEF ApproveMilestonePartial, TransferOk
    <3>2. QED BY <3>1, <1>3, <1>5, <1>7, MoveLemma
  <2>2. CASE ~(refund > 0)
    <3>1. bal' = b1 BY <2>2 DEF ApproveMilestonePartial
    <3>2. refund = 0 BY <2>2, <1>3
    <3>3. b1[Self] \in Nat BY <1>5, <1>7
    <3>4. QED BY <1>7, <3>1, <3>2, <3>3
  <2>3. QED BY <2>1, <2>2
<1>9. bal'[Self] = bal[Self] - terms.plan[i] BY <1>2, <1>3, <1>6, <1>7, <1>8
<1>10. QED BY <1>1, <1>8, <1>9

\* Either way the invariant is kept.
LEMMA MilestoneInv ==
    ASSUME IInv, NEW i, SettleMilestone(i),
           bal' \in [Accounts -> Nat], bal'[Self] = bal[Self] - terms.plan[i]
    PROVE  IInv'
BY SettleMilestoneFacts, PaidInv

\* So does release_partial.
LEMMA ReleasePartialInv ==
    ASSUME IInv, NEW x \in Int, ReleasePartial(x)
    PROVE  IInv'
<1>1. x \in Nat /\ state = "Funded" /\ state' = "Funded" /\ amount' = amount - x
  BY DEF ReleasePartial
<1>2. bal \in [Accounts -> Nat] BY DEF IInv, TypeOK
<1>3. bal' \in [Accounts -> Nat] /\ bal'[Self] = bal[Self] - x
  BY <1>1, <1>2, ReleaseLemma DEF IInv, ReleasePartial
<1>4. released' \subseteq DOMAIN terms.plan BY DEF ReleasePartial, IInv, TypeOK
<1>5. QED BY <1>1, <1>3, <1>4, PaidInv DEF ReleasePartial

\* update_amount moves the difference before it records the new amount.
LEMMA UpdateAmountInv ==
    ASSUME IInv, NEW x \in Int, UpdateAmount(x)
    PROVE  IInv'
<1>1. TypeOK' BY DEF IInv, TypeOK, UpdateAmount
<1>2. VaultBacked' BY DEF IInv, VaultBacked, UpdateAmount, Live
<1>3. QED BY <1>1, <1>2 DEF UpdateAmount, IInv, FeeRouted, PlanKnown, Pristine, Priced

\* Every call of lifecycle.rs keeps the inductive invariant.
LEMMA LifecycleInv ==
    ASSUME IInv, LifecycleStep
    PROVE  IInv'
<1> USE DEF NotPaused
<1>1. ASSUME NEW x \in Amounts, UpdateAmount(x) PROVE IInv'
  BY <1>1, InputAssumption, UpdateAmountInv
<1>2. ASSUME NEW x \in Amounts, ReleasePartial(x) PROVE IInv'
  BY <1>2, InputAssumption, ReleasePartialInv
<1>3. CASE Fund BY <1>3, FundInv
<1>4. CASE MarkDelivered
  BY <1>4, QuietInv DEF MarkDelivered, IInv, TypeOK, Live
<1>5. CASE ApproveDelivery BY <1>5, ReleaseToSellerInv DEF ApproveDelivery
<1>6. raisedAt \in Nat BY DEF IInv, TypeOK
<1>7. CASE RequestRefund
  BY <1>6, <1>7, RefundToBuyerInv DEF RequestRefund, Terminal
<1>8. CASE RequestPartialRefund
  BY <1>6, <1>8, RefundToBuyerInv DEF RequestPartialRefund, Terminal
<1>9. CASE ClaimExpiredRefund
  BY <1>6, <1>9, RefundToBuyerInv DEF ClaimExpiredRefund, Terminal
<1>10. CASE Cancel
  BY <1>10, QuietInv DEF Cancel, IInv, TypeOK
<1>11. CASE MutualCancel
  <2>1. Disputable \in Int BY DisputableLemma DEF IInv
  <2>2. bal \in [Accounts -> Nat] /\ approvals' \in [Accounts -> Ballots]
    BY <1>11 DEF IInv, TypeOK, MutualCancel
  <2>3. /\ state' = "Cancelled" /\ amount' = 0 /\ released' = DOMAIN terms.plan
        /\ bal' \in [Accounts -> Nat]
    BY <1>11, <2>1, <2>2, RefundAmountLemma DEF MutualCancel
  <2>4. state' \in Terminal BY <2>3 DEF Terminal
  <2>5. QED BY <1>6, <1>11, <2>2, <2>3, <2>4, ClosedInv DEF MutualCancel
<1>12. ASSUME NEW dl \in Deadlines, ExtendDeadline(dl) PROVE IInv'
  BY <1>12, InputAssumption, QuietInv DEF ExtendDeadline, IInv, TypeOK
<1>13. ASSUME NEW i, ReleaseMilestone(i) PROVE IInv'
  BY <1>13, ReleaseMilestonePays, MilestoneInv
<1>14. ASSUME NEW i, NEW x, ApproveMilestonePartial(i, x) PROVE IInv'
  BY <1>14, ApproveMilestonePartialPays, MilestoneInv
<1>15. QED
  BY <1>1, <1>2, <1>3, <1>4, <1>5, <1>7, <1>8, <1>9, <1>10, <1>11, <1>12, <1>13, <1>14
  DEF LifecycleStep

----
(* Disputes, administration and time.                                      *)

\* So does every call of dispute.rs.
LEMMA DisputeInv ==
    ASSUME IInv, DisputeStep
    PROVE  IInv'
<1>1. ASSUME NEW c \in {Buyer, Seller}, RaiseDispute(c) PROVE IInv'
  BY <1>1, QuietInv DEF RaiseDispute, IInv, TypeOK, Live
<1>2. CASE ClaimDisputeTimeout
  <2>1. raisedAt' \in Nat /\ RefundToBuyer("Funded", "Refunded") BY <1>2 DEF ClaimDisputeTimeout
  <2>2. QED BY <1>2, <2>1, RefundToBuyerInv DEF ClaimDisputeTimeout, Terminal
<1>3. NoApprovals \in [Accounts -> Ballots] BY DEF NoApprovals, Ballots
<1>4. raisedAt \in Nat /\ approvals \in [Accounts -> Ballots] BY DEF IInv, TypeOK
<1>5. \A c \in {Arbiter} \cup Panel : c \in Accounts /\ c # Self
  BY PartyAssumption DEF Accounts
<1>6. ASSUME NEW c \in {Arbiter} \cup Panel, NEW r \in BOOLEAN, ResolveDispute(c, r)
      PROVE  IInv'
  <2>1. /\ state' \in Terminal /\ amount' = 0 /\ released' = DOMAIN terms.plan
        /\ bal' \in [Accounts -> Nat]
    BY <1>5, <1>6, SettleLemma DEF ResolveDispute, IInv
  <2>2. approvals' \in [Accounts -> Ballots] BY <1>3, <1>4, <1>6 DEF ResolveDispute
  <2>3. QED BY <1>4, <1>6, <2>1, <2>2, ClosedInv DEF ResolveDispute
<1>7. ASSUME NEW a \in Panel, NEW r \in BOOLEAN, ApproveDispute(a, r)
      PROVE  IInv'
  <2> DEFINE ap == [approvals EXCEPT ![a] = Choice(r)]
  <2>1. CASE QuorumReached(ap)
    <3>1. Settle(a, r) /\ approvals' = NoApprovals BY <1>7, <2>1 DEF ApproveDispute
    <3>2. /\ state' \in Terminal /\ amount' = 0 /\ released' = DOMAIN terms.plan
          /\ bal' \in [Accounts -> Nat]
      BY <1>5, <3>1, SettleLemma DEF IInv
    <3>3. QED BY <1>3, <1>4, <1>7, <3>1, <3>2, ClosedInv DEF ApproveDispute
  <2>2. CASE ~QuorumReached(ap)
    <3>1. approvals' = ap /\ UNCHANGED <<state, amount, released, bal>>
      BY <1>7, <2>2 DEF ApproveDispute
    <3>2. ap \in [Accounts -> Ballots] BY <1>4 DEF Choice, Ballots
    <3>3. QED BY <1>7, <3>1, <3>2, QuietInv DEF ApproveDispute, IInv, TypeOK
  <2>3. QED BY <2>1, <2>2
<1>8. QED BY <1>1, <1>2, <1>6, <1>7 DEF DisputeStep

\* So does every admin call.
LEMMA AdminInv ==
    ASSUME IInv, AdminStep
    PROVE  IInv'
<1>1. ASSUME NEW f \in PlatformFees, NEW t \in Treasuries, SetFeeConfig(f, t) PROVE IInv'
  <2>1. f \in 0..BPS BY <1>1, InputAssumption DEF SetFeeConfig, BPS
  <2>2. fees' \in [bps : 0..BPS, treasury : Treasuries \cup {NoTreasury}]
    BY <1>1, <2>1 DEF SetFeeConfig
  <2>3. TypeOK' BY <1>1, <2>2 DEF SetFeeConfig, IInv, TypeOK
  <2>4. fees'.treasury # NoTreasury BY <1>1, PartyAssumption DEF SetFeeConfig, Accounts
  <2>5. VaultBacked' BY <1>1 DEF SetFeeConfig, IInv, VaultBacked
  <2>6. QED BY <1>1, <2>3, <2>4, <2>5 DEF SetFeeConfig, IInv, FeeRouted, PlanKnown, Pristine, Priced
<1>2. ASSUME NEW p \in BOOLEAN, SetPaused(p) PROVE IInv'
  BY <1>2, QuietInv DEF SetPaused, IInv, TypeOK
<1>3. QED BY <1>1, <1>2 DEF AdminStep

\* Every invocation, and the passing of time, preserves the invariant.
LEMMA NextIInv == IInv /\ [Next]_vars => IInv'
<1> SUFFICES ASSUME IInv, [Next]_vars PROVE IInv' OBVIOUS
<1>1. CASE InitializeStep BY <1>1, InitializeInv
<1>2. CASE LifecycleStep BY <1>2, LifecycleInv
<1>3. CASE DisputeStep BY <1>3, DisputeInv
<1>4. CASE AdminStep BY <1>4, AdminInv
<1>5. CASE ReleaseMultiToken BY <1>5, ReleaseToSellerInv DEF ReleaseMultiToken
<1>6. CASE RefundMultiToken
  <2>1. raisedAt' \in Nat BY <1>6 DEF RefundMultiToken, IInv, TypeOK
  <2>2. QED BY <1>6, <2>1, RefundToBuyerInv DEF RefundMultiToken, Terminal
<1>7. CASE Tick BY <1>7, QuietInv DEF Tick, IInv, TypeOK
<1>8. CASE UNCHANGED vars BY <1>8, QuietInv DEF vars, IInv, TypeOK
<1>9. QED BY <1>1, <1>2, <1>3, <1>4, <1>5, <1>6, <1>7, <1>8 DEF Next

\* The inductive invariant holds in every reachable state.
THEOREM Invariance == Spec => []IInv
<1>1. QED BY InitIInv, NextIInv, PTL DEF Spec

----
\* For every choice of the constants, the storage keys and balances keep their
\* types: no path drives Amount or a balance below zero.
THEOREM TypeCorrect == Spec => []TypeOK
<1>1. IInv => TypeOK BY DEF IInv
<1>2. QED BY <1>1, Invariance, PTL

\* For every choice of the constants, an unfunded escrow holds nothing and a
\* live one holds exactly the Amount it has on its books.
THEOREM VaultAlwaysBacked == Spec => []VaultBacked
<1>1. IInv => VaultBacked BY DEF IInv
<1>2. QED BY <1>1, Invariance, PTL

----
(* Settled escrows.                                                        *)

\* No entry point but the fee configuration, the pause switch and the clock
\* does anything to a settled escrow.
LEMMA TerminalStep ==
    ASSUME state \in Terminal, [Next]_vars
    PROVE  UNCHANGED <<state, amount, released, bal>>
<1> USE DEF Terminal
<1>1. ~InitializeStep
  BY DEF InitializeStep, Initialize, InitializeWithAbandonmentBuffer, InitializeWithArbiters,
         InitializeWithMilestones, StoreEscrowData
<1>2. ~LifecycleStep
  BY DEF LifecycleStep, UpdateAmount, ReleasePartial, Fund, MarkDelivered, ApproveDelivery,
         RequestRefund, RequestPartialRefund, ClaimExpiredRefund, Cancel, MutualCancel,
         ExtendDeadline, ReleaseMilestone, ApproveMilestonePartial, SettleMilestone,
         ReleaseToSeller, RefundToBuyer
<1>3. ~DisputeStep
  BY DEF DisputeStep, RaiseDispute, ClaimDisputeTimeout, ResolveDispute, ApproveDispute
<1>4. ~ReleaseMultiToken /\ ~RefundMultiToken
  BY DEF ReleaseMultiToken, RefundMultiToken, ReleaseToSeller, RefundToBuyer
<1>5. CASE AdminStep BY <1>5 DEF AdminStep, SetFeeConfig, SetPaused
<1>6. CASE Tick BY <1>6 DEF Tick
<1>7. CASE UNCHANGED vars BY <1>7 DEF vars
<1>8. QED BY <1>1, <1>2, <1>3, <1>4, <1>5, <1>6, <1>7 DEF Next

\* For every choice of the constants, a settled escrow stays as it was settled.
THEOREM TerminalIsFinal == Spec => TerminalFrozen
<1>1. [Next]_vars => [(state \in Terminal) => UNCHANGED <<state, amount, released, bal>>]_vars
  BY TerminalStep
<1>2. QED BY <1>1, PTL DEF Spec, TerminalFrozen

----
(* Refinement of EscrowVault, while Amount and the milestones agree.       *)

\* While they agree a live escrow can settle exactly what it holds.
LEMMA InStepLemma ==
    ASSUME IInv, MilestonesInStep, state \in Live
    PROVE  Disputable = amount /\ amount \in Nat /\ bal \in [Accounts -> Nat] /\ bal[Self] = amount
BY DEF MilestonesInStep, IInv, TypeOK, VaultBacked

\* Without milestones they always agree.
LEMMA NoPlanInStep ==
    ASSUME IInv, MilestonePlans = {}
    PROVE  MilestonesInStep
<1>1. terms.plan = <<>> BY DEF IInv, PlanKnown
<1>2. QED BY <1>1 DEF Disputable, MilestonesInStep

\* The two full settlements empty the vault of a live escrow.
LEMMA RefundEmpties ==
    ASSUME IInv, MilestonesInStep, state \in Live,
           NEW final, RefundAmount(bal, Disputable, final)
    PROVE  state' = final /\ bal'[Self] = 0
<1>1. Disputable = amount /\ amount \in Nat /\ bal \in [Accounts -> Nat] /\ bal[Self] = amount BY InStepLemma
<1>2. state' = final /\ bal'[Self] = bal[Self] - amount BY <1>1, RefundAmountLemma
<1>3. QED BY <1>1, <1>2

\* So does a settlement in favour of the seller.
LEMMA ReleaseEmpties ==
    ASSUME IInv, MilestonesInStep, state \in Live, ReleaseAmount(bal, Disputable)
    PROVE  state' = "Completed" /\ bal'[Self] = 0
<1>1. Disputable = amount /\ amount \in Nat /\ bal \in [Accounts -> Nat] /\ bal[Self] = amount BY InStepLemma
<1>2. TypeOK /\ FeeRouted BY DEF IInv
<1>3. state' = "Completed" /\ bal'[Self] = bal[Self] - amount
  BY <1>1, <1>2, ReleaseAmountLemma
<1>4. QED BY <1>1, <1>3

\* A step that takes a live escrow to a final state and empties it is the
\* abstract settlement; one that changes neither phase nor holding is invisible.
LEMMA SettlesVault ==
    ASSUME state \in Live, state' \in Terminal, bal'[Self] = 0
    PROVE  Vault!Next
BY DEF Live, Terminal, Phase, Vault!Next, Vault!Settle

\* A step that stays within a phase and moves no money is a stutter of the vault.
LEMMA InvisibleStep ==
    ASSUME \/ state \in {"Uninit", "Created"} /\ state' \in {"Uninit", "Created"}
           \/ state \in Live /\ state' \in Live
           \/ state' = state,
           bal'[Self] = bal[Self]
    PROVE  UNCHANGED <<Phase, bal[Self]>>
BY DEF Live, Terminal, Phase

\* So is the release of a milestone, in full or in part: the last one leaves
\* nothing in the vault.
LEMMA MilestoneRefines ==
    ASSUME IInv, MilestonesInStep, NEW i, SettleMilestone(i),
           bal' \in [Accounts -> Nat], bal'[Self] = bal[Self] - terms.plan[i]
    PROVE  Vault!Next \/ UNCHANGED <<Phase, bal[Self]>>
<1>1. /\ terms.plan[i] \in Nat /\ state = "Funded" /\ i \in DOMAIN terms.plan \ released
      /\ released' = released \cup {i}
      /\ state' = IF released' = DOMAIN terms.plan THEN "Completed" ELSE state
  BY SettleMilestoneFacts DEF SettleMilestone
<1>2. Disputable = amount /\ amount \in Nat /\ bal \in [Accounts -> Nat] /\ bal[Self] = amount
  BY <1>1, InStepLemma DEF Live
<1>3. Self \in Accounts BY DEF Accounts
<1>4. bal[Self] \in Nat /\ bal'[Self] \in Nat BY <1>2, <1>3
<1>5. CASE released' = DOMAIN terms.plan
  <2>1. DOMAIN terms.plan \ released = {i} BY <1>1, <1>5
  <2>2. terms.plan # <<>> BY <1>1
  <2>3. Disputable = PlanSum(terms.plan, {i}) BY <2>1, <2>2 DEF Disputable
  <2>4. terms.plan[i] \in Int BY <1>1
  <2>5. PlanSum(terms.plan, {i}) = terms.plan[i] BY <2>4, SumSingle DEF PlanSum
  <2>6. bal'[Self] = 0 BY <1>1, <1>2, <2>3, <2>5
  <2>7. QED BY <1>1, <1>5, <2>6, SettlesVault DEF Live, Terminal
<1>6. CASE released' # DOMAIN terms.plan
  <2>1. state = "Funded" /\ state' = "Funded" BY <1>1, <1>6
  <2>2. Phase = "held" /\ Phase' = "held" BY <2>1 DEF Phase, Live, Terminal
  <2>3. CASE terms.plan[i] = 0
    <3>1. bal'[Self] = bal[Self] BY <1>4, <2>3
    <3>2. QED BY <2>2, <3>1
  <2>4. CASE terms.plan[i] # 0
    <3>1. bal'[Self] < bal[Self] BY <1>1, <1>4, <2>4
    <3>2. QED BY <1>4, <2>2, <3>1 DEF Vault!Next, Vault!Payout
  <2>5. QED BY <2>3, <2>4
<1>7. QED BY <1>5, <1>6

\* Every call of lifecycle.rs is a step or a stutter of the vault.
LEMMA LifecycleRefines ==
    ASSUME IInv, MilestonesInStep, LifecycleStep
    PROVE  Vault!Next \/ UNCHANGED <<Phase, bal[Self]>>
<1> USE DEF NotPaused
<1>1. ASSUME NEW x \in Amounts, UpdateAmount(x) PROVE UNCHANGED <<Phase, bal[Self]>>
  BY <1>1, InvisibleStep DEF UpdateAmount
<1>2. ASSUME NEW x \in Amounts, ReleasePartial(x) PROVE Vault!Next
  <2>1. x \in Nat /\ x > 0 /\ state = "Funded" /\ state' = "Funded"
    BY <1>2, InputAssumption DEF ReleasePartial
  <2>2. bal \in [Accounts -> Nat] /\ Self \in Accounts BY DEF IInv, TypeOK, Accounts
  <2>3. bal' \in [Accounts -> Nat] /\ bal'[Self] = bal[Self] - x
    BY <1>2, <2>1, <2>2, ReleaseLemma DEF IInv, ReleasePartial
  <2>4. bal[Self] \in Nat /\ bal'[Self] \in Nat BY <2>2, <2>3
  <2>5. bal'[Self] < bal[Self] BY <2>1, <2>3, <2>4
  <2>6. Phase = "held" /\ Phase' = "held" BY <2>1 DEF Phase, Live, Terminal
  <2>7. QED BY <2>4, <2>5, <2>6 DEF Vault!Next, Vault!Payout
<1>3. CASE Fund
  <2>1. /\ bal \in [Accounts -> Nat] /\ amount \in Nat /\ amount > 0
        /\ bal[Self] = 0 /\ bal[Buyer] >= amount
    BY <1>3 DEF IInv, TypeOK, VaultBacked, Fund, Priced
  <2>2. Self \in Accounts /\ Buyer \in Accounts /\ Self # Buyer
    BY PartyAssumption DEF Accounts
  <2>3. bal'[Self] = amount BY <1>3, <2>1, <2>2 DEF Fund, Move
  <2>4. Phase = "open" /\ Phase' = "held" BY <1>3 DEF Fund, Phase, Live, Terminal
  <2>5. QED BY <2>1, <2>3, <2>4 DEF Vault!Next, Vault!Deposit
<1>4. CASE MarkDelivered BY <1>4, InvisibleStep DEF MarkDelivered, Live
<1>5. CASE ApproveDelivery
  BY <1>5, ReleaseEmpties, SettlesVault DEF ApproveDelivery, ReleaseToSeller, Live, Terminal
<1>7. CASE RequestRefund
  BY <1>7, RefundEmpties, SettlesVault DEF RequestRefund, RefundToBuyer, Live, Terminal
<1>8. CASE RequestPartialRefund
  BY <1>8, RefundEmpties, SettlesVault DEF RequestPartialRefund, RefundToBuyer, Live, Terminal
<1>9. CASE ClaimExpiredRefund
  BY <1>9, RefundEmpties, SettlesVault DEF ClaimExpiredRefund, RefundToBuyer, Live, Terminal
<1>10. CASE Cancel
  BY <1>10 DEF Cancel, Vault!Next, Vault!Abandon, Phase, Live, Terminal
<1>11. CASE MutualCancel
  BY <1>11, RefundEmpties, SettlesVault DEF MutualCancel, Live, Terminal
<1>12. ASSUME NEW dl \in Deadlines, ExtendDeadline(dl) PROVE UNCHANGED <<Phase, bal[Self]>>
  BY <1>12, InvisibleStep DEF ExtendDeadline
<1>13. ASSUME NEW i, ReleaseMilestone(i) PROVE Vault!Next \/ UNCHANGED <<Phase, bal[Self]>>
  BY <1>13, ReleaseMilestonePays, MilestoneRefines
<1>14. ASSUME NEW i, NEW x, ApproveMilestonePartial(i, x) PROVE Vault!Next \/ UNCHANGED <<Phase, bal[Self]>>
  BY <1>14, ApproveMilestonePartialPays, MilestoneRefines
<1>15. QED
  BY <1>1, <1>2, <1>3, <1>4, <1>5, <1>7, <1>8, <1>9, <1>10, <1>11, <1>12, <1>13, <1>14
  DEF LifecycleStep

\* So is every call of dispute.rs.
LEMMA DisputeRefines ==
    ASSUME IInv, MilestonesInStep, DisputeStep
    PROVE  Vault!Next \/ UNCHANGED <<Phase, bal[Self]>>
<1>1. ASSUME NEW c \in {Buyer, Seller}, RaiseDispute(c) PROVE UNCHANGED <<Phase, bal[Self]>>
  BY <1>1, InvisibleStep DEF RaiseDispute, Live
<1>2. CASE ClaimDisputeTimeout
  BY <1>2, RefundEmpties, SettlesVault DEF ClaimDisputeTimeout, RefundToBuyer, Live, Terminal
<1>3. ASSUME NEW c \in {Arbiter} \cup Panel, NEW r \in BOOLEAN, state = "Disputed", Settle(c, r)
      PROVE  Vault!Next
  <2>1. c \in Accounts /\ c # Self BY PartyAssumption DEF Accounts
  <2>2. state' \in Terminal /\ bal'[Self] = bal[Self] - amount
    BY <1>3, <2>1, SettleLemma DEF IInv
  <2>3. bal[Self] = amount /\ amount \in Nat BY <1>3 DEF IInv, VaultBacked, TypeOK, Live
  <2>4. bal'[Self] = 0 BY <2>2, <2>3
  <2>5. QED BY <1>3, <2>2, <2>4, SettlesVault DEF Live
<1>4. ASSUME NEW c \in {Arbiter} \cup Panel, NEW r \in BOOLEAN, ResolveDispute(c, r)
      PROVE  Vault!Next
  BY <1>3, <1>4 DEF ResolveDispute
<1>5. ASSUME NEW a \in Panel, NEW r \in BOOLEAN, ApproveDispute(a, r)
      PROVE  Vault!Next \/ UNCHANGED <<Phase, bal[Self]>>
  <2>1. CASE Settle(a, r) BY <1>3, <1>5, <2>1 DEF ApproveDispute
  <2>2. CASE UNCHANGED <<state, amount, released, bal>> BY <2>2, InvisibleStep
  <2>3. QED BY <1>5, <2>1, <2>2 DEF ApproveDispute
<1>6. QED BY <1>1, <1>2, <1>4, <1>5 DEF DisputeStep

\* So is every step.
LEMMA NextRefines ==
    ASSUME IInv, MilestonesInStep, [Next]_vars
    PROVE  [Vault!Next]_<<Phase, bal[Self]>>
<1>1. CASE InitializeStep
  <2>1. state = "Uninit" /\ state' = "Created" /\ bal' = bal
    BY <1>1 DEF InitializeStep, Initialize, InitializeWithAbandonmentBuffer,
                InitializeWithArbiters, InitializeWithMilestones, StoreEscrowData
  <2>2. QED BY <2>1, InvisibleStep
<1>2. CASE LifecycleStep BY <1>2, LifecycleRefines
<1>3. CASE DisputeStep BY <1>3, DisputeRefines
<1>4. CASE AdminStep BY <1>4, InvisibleStep DEF AdminStep, SetFeeConfig, SetPaused
<1>5. CASE ReleaseMultiToken
  BY <1>5, ReleaseEmpties, SettlesVault DEF ReleaseMultiToken, ReleaseToSeller, Live, Terminal
<1>6. CASE RefundMultiToken
  BY <1>6, RefundEmpties, SettlesVault DEF RefundMultiToken, RefundToBuyer, Live, Terminal
<1>7. CASE Tick BY <1>7, InvisibleStep DEF Tick
<1>8. CASE UNCHANGED vars BY <1>8, InvisibleStep DEF vars
<1>9. QED BY <1>1, <1>2, <1>3, <1>4, <1>5, <1>6, <1>7, <1>8 DEF Next

\* For every choice of the constants without milestone plans, the escrow
\* implements the abstract vault: one deposit, payouts that only drain it, a
\* settlement that empties it, and nothing afterwards.
THEOREM EscrowImplementsVault ==
    ASSUME MilestonePlans = {}
    PROVE  Spec => ImplementsVault
<1>1. Init => Vault!Init
  <2>1. ASSUME Init PROVE Phase = "open" BY <2>1 DEF Init, Phase, Live, Terminal
  <2>2. ASSUME Init PROVE bal[Self] = 0 BY <2>2, PartyAssumption DEF Init, Accounts
  <2>3. QED BY <2>1, <2>2 DEF Vault!Init
<1>2. IInv /\ [Next]_vars => [Vault!Next]_<<Phase, bal[Self]>> BY NextRefines, NoPlanInStep
<1>3. QED BY <1>1, <1>2, Invariance, PTL DEF Spec, ImplementsVault, Vault!Spec

\* For every choice of the constants without milestone plans, whatever path
\* settles the escrow leaves no token in the contract.
THEOREM SettledEscrowsAreEmpty ==
    ASSUME MilestonePlans = {}
    PROVE  Spec => []NothingStranded
<1>1. Init => NothingStranded BY DEF Init, NothingStranded, Terminal
<1>2. ASSUME IInv, NothingStranded, [Next]_vars
      PROVE  NothingStranded'
  <2>1. SUFFICES ASSUME state' \in Terminal PROVE bal'[Self] = 0 BY DEF NothingStranded
  <2>2. CASE state \in Terminal BY <1>2, <2>2, TerminalStep DEF NothingStranded
  <2>3. CASE state \notin Terminal
    <3>1. Phase' = "closed" BY <2>1 DEF Phase, Terminal, Live
    <3>2. state \in EscrowStates BY <1>2 DEF IInv, TypeOK
    <3>3. Phase # "closed" BY <2>3, <3>2 DEF Phase, EscrowStates
    <3>4. Vault!Next BY <1>2, <3>1, <3>3, NextRefines, NoPlanInStep
    <3>5. Phase = "open" => bal[Self] = 0
      BY <1>2, <3>2 DEF IInv, VaultBacked, Phase, EscrowStates, Live, Terminal
    <3>6. QED BY <3>1, <3>4, <3>5
          DEF Vault!Next, Vault!Deposit, Vault!Payout, Vault!Settle, Vault!Abandon
  <2>4. QED BY <2>2, <2>3
<1>3. QED BY <1>1, <1>2, Invariance, PTL DEF Spec

----
(* Committees.                                                             *)

\* ThresholdExecutes, strengthened: no ballot precedes the dispute, and a
\* committee asks for at least one ballot.
CommitteeInv ==
    /\ state \notin Terminal \cup {"Disputed"} => approvals = NoApprovals
    /\ terms.arbiters # {} => terms.required \in Nat \ {0}
    /\ ThresholdExecutes

\* A positive threshold is not met before the first ballot.
LEMMA NoQuorumWithoutBallots ==
    ASSUME terms.required \in Nat \ {0}, approvals = NoApprovals
    PROVE  ~QuorumReached(approvals)
<1>1. Voted(approvals) = {} BY DEF Voted, NoApprovals
<1>2. Cardinality(Voted(approvals)) = 0 BY <1>1, FS_EmptySet
<1>3. QED BY <1>2 DEF QuorumReached

\* A step that leaves ballots and terms alone and does not open a dispute.
LEMMA NoBallotStep ==
    ASSUME CommitteeInv, UNCHANGED <<approvals, terms>>,
           \/ state' = state
           \/ state' \in Terminal
           \/ state' # "Disputed" /\ state \notin Terminal \cup {"Disputed"}
    PROVE  CommitteeInv'
BY DEF CommitteeInv, ThresholdExecutes, Terminal, QuorumReached, Voted

\* An initializer that names arbiters stores a positive threshold.
LEMMA InitializeCommittee ==
    ASSUME InitializeStep
    PROVE  /\ state = "Uninit" /\ state' = "Created" /\ approvals' = approvals
           /\ terms'.arbiters # {} => terms'.required \in Nat \ {0}
<1>1. ASSUME NEW amt, NEW dl, NEW t, StoreEscrowData(amt, dl, t)
      PROVE  state = "Uninit" /\ state' = "Created" /\ approvals' = approvals /\ terms' = t
  BY <1>1 DEF StoreEscrowData
<1>2. ASSUME NEW amt \in Amounts, NEW dl \in Deadlines, NEW t \in Timeouts,
             NEW c \in Committees, InitializeWithArbiters(amt, dl, t, c)
      PROVE  /\ state = "Uninit" /\ state' = "Created" /\ approvals' = approvals
             /\ terms'.required \in Nat \ {0}
  <2> DEFINE members == {c.list[i] : i \in DOMAIN c.list}
             tt == [NoTerms EXCEPT !.timeout = t, !.arbiters = members,
                                   !.required = c.required]
  <2>1. Len(c.list) \in Nat BY InputAssumption
  <2>2. c.required \in Nat \ {0} BY <1>2, <2>1 DEF InitializeWithArbiters
  <2>3. tt.required = c.required BY DEF NoTerms
  <2>4. StoreEscrowData(amt, dl, tt) BY <1>2 DEF InitializeWithArbiters
  <2>5. QED BY <1>1, <2>2, <2>3, <2>4
<1>3. ASSUME NEW amt, NEW dl, NEW t, NEW f, Initialize(amt, dl, t, f)
      PROVE  /\ state = "Uninit" /\ state' = "Created" /\ approvals' = approvals
             /\ terms'.arbiters = {}
  <2> DEFINE tt == [NoTerms EXCEPT !.timeout = t, !.arbiterFeeBps = f]
  <2>1. tt.arbiters = {} BY NoTermsLemma DEF Terms
  <2>2. StoreEscrowData(amt, dl, tt) BY <1>3 DEF Initialize
  <2>3. QED BY <1>1, <2>1, <2>2
<1>4. ASSUME NEW amt, NEW dl, NEW t, NEW b, NEW g, InitializeWithAbandonmentBuffer(amt, dl, t, b, g)
      PROVE  /\ state = "Uninit" /\ state' = "Created" /\ approvals' = approvals
             /\ terms'.arbiters = {}
  <2> DEFINE tt == [NoTerms EXCEPT !.timeout = t, !.buffer = b, !.grace = g]
  <2>1. tt.arbiters = {} BY NoTermsLemma DEF Terms
  <2>2. StoreEscrowData(amt, dl, tt) BY <1>4 DEF InitializeWithAbandonmentBuffer
  <2>3. QED BY <1>1, <2>1, <2>2
<1>5. ASSUME NEW p, NEW dl, NEW t, InitializeWithMilestones(p, dl, t)
      PROVE  /\ state = "Uninit" /\ state' = "Created" /\ approvals' = approvals
             /\ terms'.arbiters = {}
  <2> DEFINE tt == [NoTerms EXCEPT !.timeout = t, !.plan = p.amounts]
  <2>1. tt.arbiters = {} BY NoTermsLemma DEF Terms
  <2>2. StoreEscrowData(PlanSum(p.amounts, DOMAIN p.amounts), dl, tt) BY <1>5 DEF InitializeWithMilestones
  <2>3. QED BY <1>1, <2>1, <2>2
<1>6. QED BY <1>2, <1>3, <1>4, <1>5 DEF InitializeStep

\* Lifecycle steps never touch ballots or terms and never open a dispute.
LEMMA LifecycleCommittee ==
    ASSUME LifecycleStep
    PROVE  /\ UNCHANGED <<approvals, terms>>
           /\ state' \in Terminal \/ (state' # "Disputed" /\ state \notin Terminal \cup {"Disputed"})
<1> USE DEF Terminal, Close
<1>1. ASSUME NEW x, UpdateAmount(x) \/ ReleasePartial(x)
      PROVE  UNCHANGED <<approvals, terms, state>> /\ state \in {"Created", "Funded"}
  BY <1>1 DEF UpdateAmount, ReleasePartial
<1>2. CASE Fund \/ MarkDelivered \/ Cancel BY <1>2 DEF Fund, MarkDelivered, Cancel
<1>3. CASE ApproveDelivery BY <1>3 DEF ApproveDelivery, ReleaseToSeller, ReleaseAmount
<1>4. CASE RequestRefund \/ RequestPartialRefund \/ ClaimExpiredRefund
  BY <1>4 DEF RequestRefund, RequestPartialRefund, ClaimExpiredRefund, RefundToBuyer, RefundAmount
<1>5. CASE MutualCancel BY <1>5 DEF MutualCancel, RefundAmount
<1>6. ASSUME NEW dl, ExtendDeadline(dl)
      PROVE  UNCHANGED <<approvals, terms, state>> /\ state \in {"Funded", "Delivered"}
  BY <1>6 DEF ExtendDeadline
<1>7. ASSUME NEW i, SettleMilestone(i)
      PROVE  /\ UNCHANGED <<approvals, terms>>
             /\ state = "Funded" /\ state' \in {"Funded", "Completed"}
  BY <1>7 DEF SettleMilestone
<1>8. QED BY <1>1, <1>2, <1>3, <1>4, <1>5, <1>6, <1>7
      DEF LifecycleStep, ReleaseMilestone, ApproveMilestonePartial

\* Every step keeps the committee's ballots and threshold in step with the state.
LEMMA CommitteeNext ==
    ASSUME CommitteeInv, [Next]_vars
    PROVE  CommitteeInv'
<1>1. CASE InitializeStep
  <2>1. /\ state = "Uninit" /\ state' = "Created" /\ approvals' = approvals
        /\ terms'.arbiters # {} => terms'.required \in Nat \ {0}
    BY <1>1, InitializeCommittee
  <2>2. QED BY <2>1 DEF CommitteeInv, ThresholdExecutes, Terminal
<1>2. CASE LifecycleStep BY <1>2, LifecycleCommittee, NoBallotStep
<1>3. ASSUME NEW c \in {Buyer, Seller}, RaiseDispute(c) PROVE CommitteeInv'
  <2>1. /\ state \notin Terminal \cup {"Disputed"} /\ state' = "Disputed"
        /\ UNCHANGED <<approvals, terms>>
    BY <1>3 DEF RaiseDispute, Terminal
  <2>2. terms.arbiters # {} => ~QuorumReached(approvals)
    BY <2>1, NoQuorumWithoutBallots DEF CommitteeInv
  <2>3. QED BY <2>1, <2>2 DEF CommitteeInv, ThresholdExecutes, QuorumReached, Voted
<1>4. CASE ClaimDisputeTimeout
  BY <1>4, NoBallotStep DEF ClaimDisputeTimeout, RefundToBuyer, RefundAmount, Close, Terminal
<1>5. ASSUME NEW c, NEW r \in BOOLEAN, Settle(c, r) PROVE state' \in Terminal
  BY <1>5 DEF Settle, ReleaseAmount, RefundAmount, Close, Terminal
<1>6. ASSUME state' \in Terminal, UNCHANGED terms PROVE CommitteeInv'
  BY <1>6 DEF CommitteeInv, ThresholdExecutes, Terminal
<1>7. ASSUME NEW c \in {Arbiter} \cup Panel, NEW r \in BOOLEAN, ResolveDispute(c, r)
      PROVE  CommitteeInv'
  BY <1>5, <1>6, <1>7 DEF ResolveDispute
<1>8. ASSUME NEW a \in Panel, NEW r \in BOOLEAN, ApproveDispute(a, r)
      PROVE  CommitteeInv'
  <2> DEFINE ap == [approvals EXCEPT ![a] = Choice(r)]
  <2>1. CASE QuorumReached(ap) BY <1>5, <1>6, <1>8, <2>1 DEF ApproveDispute
  <2>2. CASE ~QuorumReached(ap)
    <3>1. approvals' = ap /\ UNCHANGED <<state, terms>> /\ state = "Disputed"
      BY <1>8, <2>2 DEF ApproveDispute
    <3>2. QED BY <2>2, <3>1 DEF CommitteeInv, ThresholdExecutes, QuorumReached, Voted
  <2>3. QED BY <2>1, <2>2
<1>9. CASE AdminStep BY <1>9, NoBallotStep DEF AdminStep, SetFeeConfig, SetPaused
<1>10. CASE ReleaseMultiToken \/ RefundMultiToken
  BY <1>6, <1>10 DEF ReleaseMultiToken, RefundMultiToken, ReleaseToSeller, RefundToBuyer,
                     ReleaseAmount, RefundAmount, Close, Terminal
<1>11. CASE Tick BY <1>11, NoBallotStep DEF Tick
<1>12. CASE UNCHANGED vars BY <1>12, NoBallotStep DEF vars
<1>13. QED
  BY <1>1, <1>2, <1>3, <1>4, <1>7, <1>8, <1>9, <1>10, <1>11, <1>12 DEF Next, DisputeStep

\* For every committee and every threshold, no dispute rests at quorum: the
\* ballot that reaches the threshold settles it in the same invocation.
THEOREM CommitteeExecutes == Spec => []ThresholdExecutes
<1>1. Init => CommitteeInv
  BY DEF Init, CommitteeInv, ThresholdExecutes, NoTerms
<1>2. CommitteeInv => ThresholdExecutes BY DEF CommitteeInv
<1>3. QED BY <1>1, <1>2, CommitteeNext, PTL DEF Spec

----
(* Milestones and baskets, whose parties leave Amount to the contract.     *)

\* A basket names its lead token once: with a second entry of it Amount, the
\* first entry, is not what fund_multi_token deposits.
LeadOnce == \A bk \in Baskets : \A i \in DOMAIN bk : bk[i].token = Lead => i = 1

\* A plan starts with no milestone released: initialize_with_milestones stores
\* the caller's flags as they are and adds up the whole list all the same.
FreshPlans == \A p \in MilestonePlans : p.released \cap DOMAIN p.amounts = {}

(***************************************************************************)
(* The inductive invariant of baskets: a basket comes with the             *)
(* initialization and excludes milestones, its first entry is the price    *)
(* until the deposit and bounds Amount ever after.                         *)
(***************************************************************************)
BasketInv ==
    /\ IInv
    /\ side \in [SideTokens -> Int]
    /\ state = "Uninit" => basket = <<>>
    /\ basket # <<>> =>
         /\ basket \in Baskets /\ \A i \in DOMAIN basket : basket[i].amount > 0
         /\ terms.plan = <<>>
         /\ amount <= basket[1].amount
         /\ state = "Created" => amount = basket[1].amount

\* MilestonesInStep, strengthened: it already holds before the deposit.
InStep == state \notin {"Uninit"} \cup Terminal => Disputable = amount

\* What a later step does to the price: it never rises, and stands until the
\* deposit, unless update_amount is called.
LEMMA LaterStep ==
    ASSUME IInv, state # "Uninit", Next, ~\E x \in Amounts : UpdateAmount(x)
    PROVE  /\ terms' = terms /\ state' # "Uninit"
           /\ amount' <= amount
           /\ state' = "Created" => amount' = amount
<1>1. amount \in Nat BY DEF IInv, TypeOK
<1>2. ~InitializeStep
  BY DEF InitializeStep, Initialize, InitializeWithAbandonmentBuffer, InitializeWithArbiters,
         InitializeWithMilestones, StoreEscrowData
<1>3. ASSUME UNCHANGED <<amount, terms>>, state' = state \/ state' \notin {"Uninit", "Created"}
      PROVE  terms' = terms /\ state' # "Uninit" /\ amount' <= amount /\ (state' = "Created" => amount' = amount)
  BY <1>1, <1>3
<1>4. ASSUME NEW final \in Terminal, Close(final), UNCHANGED terms
      PROVE  terms' = terms /\ state' # "Uninit" /\ amount' <= amount /\ (state' = "Created" => amount' = amount)
  BY <1>1, <1>4 DEF Close, Terminal
<1>5. CASE LifecycleStep
  <2>1. ASSUME NEW x \in Amounts, ReleasePartial(x)
        PROVE  terms' = terms /\ state' # "Uninit" /\ amount' <= amount /\ (state' = "Created" => amount' = amount)
    BY <1>1, <2>1, InputAssumption DEF ReleasePartial
  <2>2. ASSUME NEW i, SettleMilestone(i)
        PROVE  terms' = terms /\ state' # "Uninit" /\ amount' <= amount /\ (state' = "Created" => amount' = amount)
    BY <1>1, <2>2, SettleMilestoneFacts
  <2>3. CASE Fund \/ MarkDelivered \/ Cancel BY <1>3, <2>3 DEF Fund, MarkDelivered, Cancel
  <2>4. CASE ApproveDelivery BY <1>4, <2>4 DEF ApproveDelivery, ReleaseToSeller, ReleaseAmount, Terminal
  <2>5. CASE RequestRefund \/ RequestPartialRefund \/ ClaimExpiredRefund
    BY <1>4, <2>5 DEF RequestRefund, RequestPartialRefund, ClaimExpiredRefund, RefundToBuyer, RefundAmount, Terminal
  <2>6. CASE MutualCancel BY <1>4, <2>6 DEF MutualCancel, RefundAmount, Terminal
  <2>7. ASSUME NEW dl, ExtendDeadline(dl)
        PROVE  terms' = terms /\ state' # "Uninit" /\ amount' <= amount /\ (state' = "Created" => amount' = amount)
    BY <1>3, <2>7 DEF ExtendDeadline
  <2>8. QED BY <1>5, <2>1, <2>2, <2>3, <2>4, <2>5, <2>6, <2>7
        DEF LifecycleStep, ReleaseMilestone, ApproveMilestonePartial
<1>6. ASSUME NEW a, NEW r, Settle(a, r), UNCHANGED terms
      PROVE  terms' = terms /\ state' # "Uninit" /\ amount' <= amount /\ (state' = "Created" => amount' = amount)
  BY <1>4, <1>6 DEF Settle, ReleaseAmount, RefundAmount, Terminal
<1>7. CASE DisputeStep
  <2>1. ASSUME NEW c, RaiseDispute(c)
        PROVE  terms' = terms /\ state' # "Uninit" /\ amount' <= amount /\ (state' = "Created" => amount' = amount)
    BY <1>3, <2>1 DEF RaiseDispute
  <2>2. CASE ClaimDisputeTimeout BY <1>4, <2>2 DEF ClaimDisputeTimeout, RefundToBuyer, RefundAmount, Terminal
  <2>3. ASSUME NEW c, NEW r, ResolveDispute(c, r)
        PROVE  terms' = terms /\ state' # "Uninit" /\ amount' <= amount /\ (state' = "Created" => amount' = amount)
    BY <1>6, <2>3 DEF ResolveDispute
  <2>4. ASSUME NEW a, NEW r, ApproveDispute(a, r)
        PROVE  terms' = terms /\ state' # "Uninit" /\ amount' <= amount /\ (state' = "Created" => amount' = amount)
    <3>1. CASE Settle(a, r) BY <1>6, <2>4, <3>1 DEF ApproveDispute
    <3>2. CASE UNCHANGED <<state, amount, released, bal>> BY <1>3, <2>4, <3>2 DEF ApproveDispute
    <3>3. QED BY <2>4, <3>1, <3>2 DEF ApproveDispute
  <2>5. QED BY <1>7, <2>1, <2>2, <2>3, <2>4 DEF DisputeStep
<1>8. CASE AdminStep \/ Tick BY <1>3, <1>8 DEF AdminStep, SetFeeConfig, SetPaused, Tick
<1>9. CASE ReleaseMultiToken \/ RefundMultiToken
  BY <1>4, <1>9 DEF ReleaseMultiToken, RefundMultiToken, ReleaseToSeller, RefundToBuyer,
                    ReleaseAmount, RefundAmount, Terminal
<1>10. QED BY <1>2, <1>5, <1>7, <1>8, <1>9 DEF Next

\* The basket of a funded or agreed escrow: its totals are integers, and the
\* lead token's total is the first entry.
LEMMA BasketTotals ==
    ASSUME LeadOnce, NEW bk \in Baskets, bk # <<>>
    PROVE  /\ \A t : Total(bk, t) \in Int
           /\ bk[1].amount \in Int
           /\ Total(bk, Lead) = bk[1].amount
           /\ {i \in DOMAIN bk : bk[i].token = Lead} = {1}
<1>1. bk \in Seq([token : SideTokens \cup {Lead}, amount : Int]) /\ bk[1].token = Lead BY BasketAssumption
<1>2. PICK n \in Nat : n = Len(bk) /\ DOMAIN bk = 1..n BY <1>1
<1>3. \A i \in DOMAIN bk : bk[i].amount \in Int
  <2>1. PICK E : E = [token : SideTokens \cup {Lead}, amount : Int] OBVIOUS
  <2>2. bk \in Seq(E) BY <1>1, <2>1
  <2>3. \A i \in DOMAIN bk : bk[i] \in E BY <2>2
  <2>4. QED BY <2>1, <2>3
<1>4. 1 \in DOMAIN bk BY <1>1, <1>2
<1>5. IsFiniteSet(DOMAIN bk)
  <2>1. IsFiniteSet(1..n) BY FS_Interval
  <2>2. QED BY <1>2, <2>1
<1> DEFINE f == [i \in DOMAIN bk |-> bk[i].amount]
<1>6. \A i \in DOMAIN bk : f[i] \in Int BY <1>3
<1> HIDE DEF f
<1>7. ASSUME NEW t PROVE Total(bk, t) \in Int
  <2>1. PICK S \in SUBSET DOMAIN bk : S = {i \in DOMAIN bk : bk[i].token = t} OBVIOUS
  <2>2. IsFiniteSet(S) BY <1>5, FS_Subset
  <2>3. SumFunctionOnSet(f, S) \in Int BY <1>6, <2>2, SumBasics
  <2>4. QED BY <2>1, <2>3 DEF Total, f
<1>8. {i \in DOMAIN bk : bk[i].token = Lead} = {1} BY <1>1, <1>4 DEF LeadOnce
<1>9. Total(bk, Lead) = bk[1].amount
  <2>1. f[1] \in Int /\ f[1] = bk[1].amount BY <1>4, <1>6 DEF f
  <2>2. SumFunctionOnSet(f, {1}) = f[1] BY <2>1, SumSingle
  <2>3. Total(bk, Lead) = SumFunctionOnSet(f, {1}) BY <1>8 DEF Total, f
  <2>4. QED BY <2>1, <2>2, <2>3
<1>10. QED BY <1>3, <1>4, <1>7, <1>8, <1>9

\* What an interval from zero holds.
LEMMA UpTo == ASSUME NEW m \in Nat, NEW k \in 0..m PROVE k \in Nat /\ k <= m
OBVIOUS

\* The platform takes at most the whole amount.
LEMMA FeeAtMostAll ==
    ASSUME TypeOK, NEW g \in Nat
    PROVE  PlatformFee(g) \in Nat /\ PlatformFee(g) <= g
<1>1. fees \in [bps : 0..BPS, treasury : Treasuries \cup {NoTreasury}] BY DEF TypeOK
<1>2. PICK b \in Nat : b = fees.bps /\ b <= 10000
  <2>1. fees.bps \in 0..BPS BY <1>1
  <2>2. PICK f : f = fees.bps OBVIOUS
  <2>3. f \in 0..BPS BY <2>1, <2>2, Zenon
  <2>4. PICK n \in Nat : n = 10000 OBVIOUS
  <2>5. n = BPS BY <2>4 DEF BPS
  <2>6. f \in 0..n BY <2>3, <2>5
  <2>7. f \in Nat /\ f <= n BY <2>6, UpTo
  <2>8. QED BY <2>2, <2>4, <2>7
<1>3. PICK r \in Nat : r = 10000 - b BY <1>2
<1>4. g * b \in Nat /\ g * r \in Nat OBVIOUS
<1>5. g * (b + r) = g * b + g * r BY Distributes
<1>6. b + r = 10000 BY <1>2, <1>3
<1>7. g * b <= g * 10000 BY <1>4, <1>5, <1>6
<1>8. PICK p \in Nat : p = g * b BY <1>4
<1>9. p \div 10000 \in Nat /\ p \div 10000 <= g BY <1>7, <1>8
<1>10. QED BY <1>2, <1>8, <1>9 DEF PlatformFee, BPS

\* The steps of a careful escrow: the basket's own, and those of Escrow that
\* leave the basket alone.
LEMMA CarefulCases ==
    ASSUME [BasketNext /\ AmountLeftAlone]_allVars
    PROVE  \/ \E bk \in Baskets, dl \in Deadlines, t \in Timeouts : InitializeWithTokens(bk, dl, t)
           \/ FundBasket \/ ReleaseBasket \/ RefundBasket
           \/ Next /\ AmountLeftAlone /\ UNCHANGED basketVars
           \/ UNCHANGED allVars
BY DEF BasketNext, Next

\* The deposit of the basket backs Amount.
LEMMA FundBasketKeeps ==
    ASSUME LeadOnce, BasketInv, FundBasket
    PROVE  /\ BasketInv'
           /\ bal'[Self] - bal[Self] = Total(basket, Lead)
           /\ \A t \in SideTokens : side'[t] - side[t] = Total(basket, t)
           /\ bal'[Self] = amount /\ amount > 0
<1>1. IInv /\ side \in [SideTokens -> Int] BY DEF BasketInv
<1>2. basket # <<>> /\ state = "Created" BY DEF FundBasket
<1>3. basket \in Baskets /\ terms.plan = <<>> /\ amount = basket[1].amount
  BY <1>2 DEF BasketInv
<1>4. (\A t : Total(basket, t) \in Int) /\ Total(basket, Lead) = amount BY <1>2, <1>3, BasketTotals
<1>5. /\ bal \in [Accounts -> Nat] /\ amount \in Nat /\ amount > 0 /\ bal[Self] = 0
  BY <1>1, <1>2 DEF IInv, TypeOK, VaultBacked, Priced
<1>6. bal[Buyer] >= amount /\ bal' = Move(bal, Buyer, Self, amount) BY <1>4 DEF FundBasket, TransferOk
<1>7. Self \in Accounts /\ Buyer \in Accounts /\ Self # Buyer BY PartyAssumption DEF Accounts
<1>8. bal' \in [Accounts -> Nat] /\ bal'[Self] = amount BY <1>5, <1>6, <1>7 DEF Move
<1>9. IInv'
  <2>1. TypeOK' BY <1>1, <1>8 DEF IInv, TypeOK, FundBasket, EscrowStates, Live
  <2>2. VaultBacked' BY <1>8 DEF VaultBacked, FundBasket, Live
  <2>3. QED BY <1>1, <2>1, <2>2 DEF FundBasket, IInv, FeeRouted, PlanKnown, Pristine, Priced
<1>10. \A t \in SideTokens : side[t] \in Int /\ side'[t] = side[t] + Total(basket, t) BY <1>1 DEF FundBasket
<1>11. side' \in [SideTokens -> Int]
  <2>1. side' = [t \in SideTokens |-> side[t] + Total(basket, t)] BY DEF FundBasket
  <2>2. \A t \in SideTokens : side[t] + Total(basket, t) \in Int BY <1>4, <1>10
  <2>3. QED BY <2>1, <2>2
<1>12. BasketInv'
  <2>1. UNCHANGED <<basket, terms, amount>> /\ state' = "Funded" BY DEF FundBasket
  <2>2. QED BY <1>9, <1>11, <2>1 DEF BasketInv
<1>13. QED BY <1>4, <1>5, <1>8, <1>10, <1>12

\* The two payouts of the basket empty the vault, if it still holds it all.
LEMMA PayBasketKeeps ==
    ASSUME LeadOnce, BasketInv, NEW final \in Terminal, PayBasket(final), state \in Live,
           bal' \in [Accounts -> Nat], bal'[Self] = bal[Self] - Total(basket, Lead)
    PROVE  /\ BasketInv'
           /\ bal'[Self] - bal[Self] = -Total(basket, Lead)
           /\ \A t \in SideTokens : side'[t] - side[t] = -Total(basket, t)
           /\ bal'[Self] = 0
<1>1. IInv /\ side \in [SideTokens -> Int] BY DEF BasketInv
<1>2. basket # <<>> BY DEF PayBasket
<1>3. basket \in Baskets /\ terms.plan = <<>> /\ amount <= basket[1].amount
  BY <1>2 DEF BasketInv
<1>4. (\A t : Total(basket, t) \in Int) /\ Total(basket, Lead) = basket[1].amount BY <1>2, <1>3, BasketTotals
<1>5. /\ bal[Self] = amount /\ amount \in Nat BY <1>1 DEF IInv, TypeOK, VaultBacked
<1>6. bal[Self] >= Total(basket, Lead) BY DEF PayBasket
<1>7. bal'[Self] = 0 /\ bal'[Self] - bal[Self] = -Total(basket, Lead) BY <1>3, <1>4, <1>5, <1>6
<1>8. IInv'
  <2>1. /\ state' \in Terminal /\ amount' = 0 /\ UNCHANGED <<now, deadline, terms, deliveredAt, fees, paused>>
        /\ released' = released /\ raisedAt' = raisedAt /\ approvals' = approvals
    BY DEF PayBasket
  <2>2. released \subseteq DOMAIN terms.plan /\ raisedAt \in Nat /\ approvals \in [Accounts -> Ballots]
    BY <1>1 DEF IInv, TypeOK
  <2>3. released' = DOMAIN terms.plan BY <1>3, <2>1, <2>2
  <2>4. QED BY <1>1, <2>1, <2>2, <2>3, ClosedInv
<1>9. \A t \in SideTokens : side[t] \in Int /\ side'[t] = side[t] - Total(basket, t) BY <1>1 DEF PayBasket
<1>10. side' \in [SideTokens -> Int]
  <2>1. side' = [t \in SideTokens |-> side[t] - Total(basket, t)] BY DEF PayBasket
  <2>2. \A t \in SideTokens : side[t] - Total(basket, t) \in Int BY <1>4, <1>9
  <2>3. QED BY <2>1, <2>2
<1>11. \A t \in SideTokens : side'[t] - side[t] = -Total(basket, t) BY <1>4, <1>9
<1>12. BasketInv'
  <2>1. UNCHANGED <<basket, terms>> /\ amount' = 0 /\ state' \notin {"Uninit", "Created"}
    BY DEF PayBasket, Terminal
  <2>2. amount' <= basket[1].amount BY <1>3, <1>4, <1>5, <2>1
  <2>3. QED BY <1>8, <1>10, <2>1, <2>2 DEF BasketInv
<1>13. QED BY <1>7, <1>11, <1>12

\* refund_multi_token takes exactly the lead token's total out of the vault.
LEMMA RefundBasketPays ==
    ASSUME LeadOnce, BasketInv, RefundBasket
    PROVE  bal' \in [Accounts -> Nat] /\ bal'[Self] = bal[Self] - Total(basket, Lead)
<1>1. basket # <<>> /\ bal[Self] >= Total(basket, Lead) BY DEF RefundBasket, PayBasket
<1>2. basket \in Baskets /\ basket[1].amount > 0
  <2>1. basket \in Baskets /\ \A i \in DOMAIN basket : basket[i].amount > 0 BY <1>1 DEF BasketInv
  <2>2. {i \in DOMAIN basket : basket[i].token = Lead} = {1} BY <1>1, <2>1, BasketTotals
  <2>3. 1 \in DOMAIN basket BY <2>2
  <2>4. QED BY <2>1, <2>3
<1>3. PICK x \in Nat : x = Total(basket, Lead)
  <2>1. Total(basket, Lead) = basket[1].amount /\ basket[1].amount \in Int BY <1>1, <1>2, BasketTotals
  <2>2. QED BY <1>2, <2>1
<1>4. bal \in [Accounts -> Nat] BY DEF BasketInv, IInv, TypeOK
<1>5. Self \in Accounts /\ Buyer \in Accounts /\ Self # Buyer BY PartyAssumption DEF Accounts
<1>6. bal' = Move(bal, Self, Buyer, x) BY <1>3 DEF RefundBasket
<1>7. QED BY <1>1, <1>3, <1>4, <1>5, <1>6, MoveLemma

\* release_multi_token too: the seller's net and the platform's fee add up.
LEMMA ReleaseBasketPays ==
    ASSUME LeadOnce, BasketInv, ReleaseBasket
    PROVE  bal' \in [Accounts -> Nat] /\ bal'[Self] = bal[Self] - Total(basket, Lead)
<1>0. TypeOK /\ FeeRouted BY DEF BasketInv, IInv
<1>1. basket # <<>> /\ bal[Self] >= Total(basket, Lead) BY DEF ReleaseBasket, PayBasket
<1>2. /\ basket \in Baskets /\ basket[1].amount > 0 /\ {i \in DOMAIN basket : basket[i].token = Lead} = {1}
  <2>1. basket \in Baskets /\ \A i \in DOMAIN basket : basket[i].amount > 0 BY <1>1 DEF BasketInv
  <2>2. {i \in DOMAIN basket : basket[i].token = Lead} = {1} BY <1>1, <2>1, BasketTotals
  <2>3. 1 \in DOMAIN basket BY <2>2
  <2>4. QED BY <2>1, <2>2, <2>3
<1>3. PICK x \in Nat : x = basket[1].amount /\ x = Total(basket, Lead)
  <2>1. Total(basket, Lead) = basket[1].amount /\ basket[1].amount \in Int BY <1>1, <1>2, BasketTotals
  <2>2. QED BY <1>2, <2>1
<1>4. PICK fee \in Nat : fee = PlatformFee(x) /\ fee <= x BY <1>0, FeeAtMostAll
<1>5. SumFunctionOnSet([i \in {1} |-> PlatformFee(basket[i].amount)], {1}) = fee
  <2> DEFINE h == [i \in {1} |-> PlatformFee(basket[i].amount)]
  <2>1. h[1] = fee BY <1>3, <1>4
  <2> HIDE DEF h
  <2>2. h[1] \in Int BY <2>1
  <2>3. SumFunctionOnSet(h, {1}) = h[1] BY <2>2, SumSingle
  <2>4. QED BY <2>1, <2>3 DEF h
<1>6. PICK b1 : b1 = Move(bal, Self, Seller, x - fee) OBVIOUS
<1>7. bal' = IF fee > 0 /\ fees.treasury # NoTreasury THEN Move(b1, Self, fees.treasury, fee) ELSE b1
  BY <1>2, <1>3, <1>5, <1>6 DEF ReleaseBasket
<1>8. bal \in [Accounts -> Nat] BY <1>0 DEF TypeOK
<1>9. Self \in Accounts /\ Seller \in Accounts /\ Self # Seller BY PartyAssumption DEF Accounts
<1>10. bal[Self] \in Nat /\ x - fee \in Nat /\ bal[Self] >= x - fee BY <1>1, <1>3, <1>4, <1>8, <1>9
<1>11. b1 \in [Accounts -> Nat] /\ b1[Self] = bal[Self] - (x - fee) BY <1>6, <1>8, <1>9, <1>10, MoveLemma
<1>12. b1[Self] >= fee BY <1>1, <1>3, <1>4, <1>10, <1>11
<1>13. CASE fee = 0
  <2>1. bal' = b1 BY <1>7, <1>13
  <2>2. b1[Self] = bal[Self] - x BY <1>10, <1>11, <1>13
  <2>3. QED BY <1>3, <1>11, <2>1, <2>2
<1>14. CASE fee # 0
  <2>1. fees.bps \in Nat /\ fees.treasury \in Treasuries \cup {NoTreasury} BY <1>0, FeeConfigLemma
  <2>2. fees.bps # 0 BY <1>0, <1>4, <1>14, PlatformFeeLemma
  <2>3. fees.treasury # NoTreasury BY <1>0, <2>1, <2>2 DEF FeeRouted
  <2>4. fees.treasury \in Accounts /\ fees.treasury # Self BY <2>1, <2>3, PartyAssumption DEF Accounts
  <2>5. bal' = Move(b1, Self, fees.treasury, fee) BY <1>4, <1>7, <1>14, <2>3
  <2>6. bal' \in [Accounts -> Nat] /\ bal'[Self] = b1[Self] - fee
    BY <1>9, <1>11, <1>12, <2>4, <2>5, MoveLemma
  <2>7. bal'[Self] = bal[Self] - x BY <1>4, <1>10, <1>11, <2>6
  <2>8. QED BY <1>3, <2>6, <2>7
<1>15. QED BY <1>13, <1>14

\* An initialized escrow that waits for its deposit has waited for it all along.
LEMMA CreatedStays ==
    ASSUME state # "Uninit", Next, state' = "Created"
    PROVE  state = "Created"
<1>1. ~InitializeStep
  BY DEF InitializeStep, Initialize, InitializeWithAbandonmentBuffer, InitializeWithArbiters,
         InitializeWithMilestones, StoreEscrowData
<1>2. ASSUME NEW final \in Terminal, Close(final) PROVE FALSE BY <1>2 DEF Close, Terminal
<1>3. CASE LifecycleStep
  BY <1>2, <1>3 DEF LifecycleStep, UpdateAmount, ReleasePartial, Fund, MarkDelivered, ApproveDelivery,
     RequestRefund, RequestPartialRefund, ClaimExpiredRefund, Cancel, MutualCancel, ExtendDeadline,
     ReleaseMilestone, ApproveMilestonePartial, SettleMilestone, ReleaseToSeller, RefundToBuyer,
     ReleaseAmount, RefundAmount, Terminal
<1>4. CASE DisputeStep
  BY <1>2, <1>4 DEF DisputeStep, RaiseDispute, ClaimDisputeTimeout, ResolveDispute, ApproveDispute, Settle,
     RefundToBuyer, ReleaseAmount, RefundAmount, Terminal
<1>5. CASE AdminStep \/ Tick BY <1>5 DEF AdminStep, SetFeeConfig, SetPaused, Tick
<1>6. CASE ReleaseMultiToken \/ RefundMultiToken
  BY <1>2, <1>6 DEF ReleaseMultiToken, RefundMultiToken, ReleaseToSeller, RefundToBuyer,
                    ReleaseAmount, RefundAmount, Terminal
<1>7. QED BY <1>1, <1>3, <1>4, <1>5, <1>6 DEF Next

\* The deployed contract has no basket.
LEMMA BasketStarts == BasketInit => BasketInv
<1> SUFFICES ASSUME BasketInit PROVE BasketInv OBVIOUS
<1>1. IInv BY InitIInv DEF BasketInit
<1>2. side \in [SideTokens -> Int] BY DEF BasketInit
<1>3. QED BY <1>1, <1>2 DEF BasketInit, BasketInv

\* Every step keeps the invariant of baskets.
LEMMA BasketKeeps ==
    ASSUME LeadOnce, BasketInv, [BasketNext /\ AmountLeftAlone]_allVars
    PROVE  BasketInv'
<1>1. IInv /\ side \in [SideTokens -> Int] BY DEF BasketInv
<1>2. ASSUME NEW bk \in Baskets, NEW dl \in Deadlines, NEW t \in Timeouts, InitializeWithTokens(bk, dl, t)
      PROVE  BasketInv'
  <2> DEFINE tt == [NoTerms EXCEPT !.timeout = t]
  <2>1. tt \in Terms /\ tt.plan = <<>> BY InputAssumption, NoTermsLemma DEF Terms
  <2> HIDE DEF tt
  <2>2. StoreEscrowData(bk[1].amount, dl, tt) BY <1>2 DEF InitializeWithTokens, tt
  <2>3. /\ state = "Uninit" /\ state' = "Created" /\ amount' = bk[1].amount /\ terms' = tt
        /\ released' = released /\ basket' = bk /\ side' = side
    BY <1>2, <2>2 DEF StoreEscrowData, InitializeWithTokens
  <2>4. released' = {} BY <1>1, <2>3 DEF IInv, Pristine
  <2>5. bk # <<>> /\ \A i \in DOMAIN bk : bk[i].amount > 0 BY <1>2 DEF InitializeWithTokens
  <2>6. bk[1].amount \in Int
    <3>1. PICK E : E = [token : SideTokens \cup {Lead}, amount : Int] OBVIOUS
    <3>2. bk \in Seq(E) BY <3>1, BasketAssumption
    <3>3. 1 \in DOMAIN bk BY <2>5, <3>2
    <3>4. bk[1] \in E BY <3>2, <3>3
    <3>5. QED BY <3>1, <3>4
  <2>7. dl \in Nat BY InputAssumption
  <2>8. IInv' BY <1>1, <2>1, <2>2, <2>4, <2>6, <2>7, StoreInv
  <2>9. bk[1].amount <= bk[1].amount BY <2>6
  <2>10. QED BY <1>1, <2>1, <2>3, <2>5, <2>8, <2>9 DEF BasketInv
<1>3. CASE FundBasket BY <1>3, FundBasketKeeps
<1>4. CASE RefundBasket
  <2>1. PayBasket("Refunded") /\ state \in Live BY <1>4 DEF RefundBasket, Live
  <2>2. "Refunded" \in Terminal BY DEF Terminal
  <2>3. QED BY <1>4, <2>1, <2>2, RefundBasketPays, PayBasketKeeps
<1>5. CASE ReleaseBasket
  <2>1. PayBasket("Completed") /\ state \in Live BY <1>5 DEF ReleaseBasket, Live
  <2>2. "Completed" \in Terminal BY DEF Terminal
  <2>3. QED BY <1>5, <2>1, <2>2, ReleaseBasketPays, PayBasketKeeps
<1>6. CASE Next /\ AmountLeftAlone /\ UNCHANGED basketVars
  <2>1. IInv' BY <1>1, <1>6, NextIInv
  <2>2. UNCHANGED <<basket, side>> BY <1>6 DEF basketVars
  <2>3. CASE basket = <<>> BY <1>1, <2>1, <2>2, <2>3 DEF BasketInv
  <2>4. CASE basket # <<>>
    <3>1. /\ state # "Uninit" /\ basket \in Baskets /\ terms.plan = <<>> /\ amount <= basket[1].amount
          /\ \A i \in DOMAIN basket : basket[i].amount > 0
      BY <2>4 DEF BasketInv
    <3>2. ~\E x \in Amounts : UpdateAmount(x) BY <1>6, <2>4 DEF AmountLeftAlone
    <3>3. /\ terms' = terms /\ state' # "Uninit" /\ amount' <= amount
          /\ state' = "Created" => amount' = amount
      BY <1>1, <1>6, <3>1, <3>2, LaterStep
    <3>4. amount \in Int /\ amount' \in Int BY <1>1, <2>1 DEF IInv, TypeOK
    <3>5. basket[1].amount \in Int
      <4>1. PICK E : E = [token : SideTokens \cup {Lead}, amount : Int] OBVIOUS
      <4>2. basket \in Seq(E) BY <3>1, <4>1, BasketAssumption
      <4>3. 1 \in DOMAIN basket BY <2>4, <4>2
      <4>4. basket[1] \in E BY <4>2, <4>3
      <4>5. QED BY <4>1, <4>4
    <3>6. amount' <= basket[1].amount BY <3>1, <3>3, <3>4, <3>5
    <3>7. ASSUME state' = "Created" PROVE amount' = basket[1].amount
      <4>1. state = "Created" BY <1>6, <3>1, <3>7, CreatedStays
      <4>2. amount = basket[1].amount BY <2>4, <4>1 DEF BasketInv
      <4>3. QED BY <3>3, <3>7, <4>2
    <3>8. QED BY <1>1, <2>1, <2>2, <3>1, <3>3, <3>6, <3>7 DEF BasketInv
  <2>5. QED BY <2>3, <2>4
<1>7. CASE UNCHANGED allVars
  <2>1. IInv' BY <1>1, <1>7, NextIInv DEF allVars
  <2>2. UNCHANGED <<basket, side, state, terms, amount>> BY <1>7 DEF allVars, vars, basketVars
  <2>3. QED BY <2>1, <2>2 DEF BasketInv
<1>8. QED BY <1>2, <1>3, <1>4, <1>5, <1>6, <1>7, CarefulCases

\* A basket's tokens move together.
LEMMA BasketMoves ==
    ASSUME LeadOnce, BasketInv, [BasketNext /\ AmountLeftAlone]_allVars, side' # side
    PROVE  /\ \A t \in SideTokens : side'[t] - side[t] \in {Total(basket, t), -Total(basket, t)}
           /\ bal'[Self] - bal[Self] \in {Total(basket, Lead), -Total(basket, Lead)}
<1>1. ASSUME NEW bk, NEW dl, NEW t, InitializeWithTokens(bk, dl, t) PROVE FALSE
  BY <1>1 DEF InitializeWithTokens
<1>2. ~UNCHANGED basketVars /\ ~UNCHANGED allVars BY DEF basketVars, allVars
<1>3. FundBasket \/ RefundBasket \/ ReleaseBasket BY <1>1, <1>2, CarefulCases
<1>4. CASE FundBasket BY <1>4, FundBasketKeeps
<1>5. CASE RefundBasket
  <2>1. PayBasket("Refunded") /\ state \in Live BY <1>5 DEF RefundBasket, Live
  <2>2. "Refunded" \in Terminal BY DEF Terminal
  <2>3. QED BY <1>5, <2>1, <2>2, RefundBasketPays, PayBasketKeeps
<1>6. CASE ReleaseBasket
  <2>1. PayBasket("Completed") /\ state \in Live BY <1>6 DEF ReleaseBasket, Live
  <2>2. "Completed" \in Terminal BY DEF Terminal
  <2>3. QED BY <1>6, <2>1, <2>2, ReleaseBasketPays, PayBasketKeeps
<1>7. QED BY <1>3, <1>4, <1>5, <1>6

\* The inductive invariant of baskets holds in every reachable state.
THEOREM BasketInvariance ==
    ASSUME LeadOnce
    PROVE  CarefulSpec => []BasketInv
<1>1. BasketInv /\ [BasketNext /\ AmountLeftAlone]_allVars => BasketInv' BY BasketKeeps
<1>2. QED BY <1>1, BasketStarts, PTL DEF CarefulSpec

\* For every choice of the constants in which a basket names its lead token once,
\* a live escrow holds exactly Amount of the lead token, baskets and milestones
\* included.
THEOREM CarefulVaultBacked ==
    ASSUME LeadOnce
    PROVE  CarefulSpec => []VaultBacked
<1>1. BasketInv => VaultBacked BY DEF BasketInv, IInv
<1>2. QED BY <1>1, BasketInvariance, PTL

\* For every choice of the constants in which a basket names its lead token once,
\* whatever moves a side token moves the whole basket: fund_multi_token,
\* release_multi_token with all its fees, refund_multi_token.
THEOREM BasketsMoveWhole ==
    ASSUME LeadOnce
    PROVE  CarefulSpec => BasketMovesWhole
<1>1. BasketInv /\ [BasketNext /\ AmountLeftAlone]_allVars =>
        [(side' # side) =>
          /\ \A t \in SideTokens : side'[t] - side[t] \in {Total(basket, t), -Total(basket, t)}
          /\ bal'[Self] - bal[Self] \in {Total(basket, Lead), -Total(basket, Lead)}]_allVars
  BY BasketMoves
<1>2. QED BY <1>1, BasketInvariance, PTL DEF CarefulSpec, BasketMovesWhole

----
(* Milestones stay in step with Amount.                                    *)

\* What a later step does to a plan nobody updates the amount of.
LEMMA PlanStep ==
    ASSUME state # "Uninit", Next, ~\E x \in Amounts : UpdateAmount(x) \/ ReleasePartial(x)
    PROVE  \/ state' \in Terminal
           \/ UNCHANGED <<amount, terms, released>>
           \/ \E i : SettleMilestone(i)
<1>1. ~InitializeStep
  BY DEF InitializeStep, Initialize, InitializeWithAbandonmentBuffer, InitializeWithArbiters,
         InitializeWithMilestones, StoreEscrowData
<1>2. ASSUME NEW final \in Terminal, Close(final) PROVE state' \in Terminal BY <1>2 DEF Close
<1>3. CASE LifecycleStep
  BY <1>2, <1>3 DEF LifecycleStep, Fund, MarkDelivered, ApproveDelivery,
     RequestRefund, RequestPartialRefund, ClaimExpiredRefund, Cancel, MutualCancel, ExtendDeadline,
     ReleaseMilestone, ApproveMilestonePartial, ReleaseToSeller, RefundToBuyer,
     ReleaseAmount, RefundAmount, Terminal
<1>4. ASSUME NEW a, NEW r, Settle(a, r) PROVE state' \in Terminal
  BY <1>2, <1>4 DEF Settle, ReleaseAmount, RefundAmount, Terminal
<1>5. CASE DisputeStep
  BY <1>2, <1>4, <1>5 DEF DisputeStep, RaiseDispute, ClaimDisputeTimeout, ResolveDispute, ApproveDispute,
     RefundToBuyer, RefundAmount, Terminal
<1>6. CASE AdminStep \/ Tick BY <1>6 DEF AdminStep, SetFeeConfig, SetPaused, Tick
<1>7. CASE ReleaseMultiToken \/ RefundMultiToken
  BY <1>2, <1>7 DEF ReleaseMultiToken, RefundMultiToken, ReleaseToSeller, RefundToBuyer,
                    ReleaseAmount, RefundAmount, Terminal
<1>8. QED BY <1>1, <1>3, <1>5, <1>6, <1>7 DEF Next

\* A released milestone leaves Amount and the unreleased ones together.
LEMMA MilestoneInStep ==
    ASSUME IInv, IInv', InStep, NEW i, SettleMilestone(i)
    PROVE  InStep'
<1>1. /\ i \in DOMAIN terms.plan \ released /\ released' = released \cup {i} /\ terms' = terms
      /\ state = "Funded" /\ amount' = amount - terms.plan[i]
  BY DEF SettleMilestone
<1>2. terms.plan \in Seq(Nat) /\ amount \in Nat BY DEF IInv, TypeOK, Terms
<1>3. terms.plan # <<>> /\ terms.plan \in Seq(Int) BY <1>1, <1>2
<1>4. PICK S \in SUBSET DOMAIN terms.plan : S = DOMAIN terms.plan \ released OBVIOUS
<1>5. DOMAIN terms'.plan \ released' = S \ {i} BY <1>1, <1>4
<1>6. IsFiniteSet(S) /\ \A j \in S : terms.plan[j] \in Int BY <1>3, <1>4, PlanSumLemma
<1>7. PlanSum(terms.plan, S) = terms.plan[i] + PlanSum(terms.plan, S \ {i})
  BY <1>1, <1>4, <1>6, SumBasics DEF PlanSum
<1>8. (S \ {i}) \in SUBSET DOMAIN terms.plan BY <1>4
<1>9. PlanSum(terms.plan, S \ {i}) \in Int BY <1>3, <1>8, PlanSumLemma
<1>10. Disputable = PlanSum(terms.plan, S) BY <1>3, <1>4 DEF Disputable
<1>11. Disputable' = PlanSum(terms.plan, S \ {i}) BY <1>1, <1>3, <1>5 DEF Disputable
<1>12. Disputable = amount BY <1>1 DEF InStep, Terminal
<1>13. terms.plan[i] \in Int BY <1>1, <1>4, <1>6
<1>14. QED BY <1>1, <1>2, <1>7, <1>9, <1>10, <1>11, <1>12, <1>13 DEF InStep

\* The list stored by initialize_with_milestones adds up to the amount.
LEMMA InitializeInStep ==
    ASSUME FreshPlans, InitializeStep
    PROVE  InStep'
<1>1. ASSUME NEW amt, NEW dl, NEW t, StoreEscrowData(amt, dl, t), t.plan = <<>> PROVE InStep'
  BY <1>1 DEF StoreEscrowData, InStep, Disputable
<1>2. ASSUME NEW p \in MilestonePlans, NEW dl, NEW t, InitializeWithMilestones(p, dl, t) PROVE InStep'
  <2> DEFINE tt == [NoTerms EXCEPT !.timeout = t, !.plan = p.amounts]
  <2>1. tt.plan = p.amounts BY DEF NoTerms
  <2> HIDE DEF tt
  <2>2. StoreEscrowData(PlanSum(p.amounts, DOMAIN p.amounts), dl, tt) BY <1>2 DEF InitializeWithMilestones, tt
  <2>3. terms' = tt /\ amount' = PlanSum(p.amounts, DOMAIN p.amounts) BY <2>2 DEF StoreEscrowData
  <2>4. released' = {} BY <1>2 DEF InitializeWithMilestones, FreshPlans
  <2>5. DOMAIN terms'.plan \ released' = DOMAIN p.amounts BY <2>1, <2>3, <2>4
  <2>6. p.amounts # <<>> BY <1>2 DEF InitializeWithMilestones
  <2>7. Disputable' = PlanSum(p.amounts, DOMAIN p.amounts) BY <2>1, <2>3, <2>5, <2>6 DEF Disputable
  <2>8. QED BY <2>3, <2>7 DEF InStep
<1>3. ASSUME NEW amt, NEW dl, NEW t, NEW f, Initialize(amt, dl, t, f) PROVE InStep'
  <2> DEFINE tt == [NoTerms EXCEPT !.timeout = t, !.arbiterFeeBps = f]
  <2>1. tt.plan = <<>> BY DEF NoTerms
  <2>2. StoreEscrowData(amt, dl, tt) BY <1>3 DEF Initialize
  <2>3. QED BY <1>1, <2>1, <2>2
<1>4. ASSUME NEW amt, NEW dl, NEW t, NEW b, NEW g, InitializeWithAbandonmentBuffer(amt, dl, t, b, g)
      PROVE  InStep'
  <2> DEFINE tt == [NoTerms EXCEPT !.timeout = t, !.buffer = b, !.grace = g]
  <2>1. tt.plan = <<>> BY DEF NoTerms
  <2>2. StoreEscrowData(amt, dl, tt) BY <1>4 DEF InitializeWithAbandonmentBuffer
  <2>3. QED BY <1>1, <2>1, <2>2
<1>5. ASSUME NEW amt, NEW dl, NEW t, NEW c, InitializeWithArbiters(amt, dl, t, c) PROVE InStep'
  <2> DEFINE members == {c.list[i] : i \in DOMAIN c.list}
             tt == [NoTerms EXCEPT !.timeout = t, !.arbiters = members, !.required = c.required]
  <2>1. tt.plan = <<>> BY DEF NoTerms
  <2>2. StoreEscrowData(amt, dl, tt) BY <1>5 DEF InitializeWithArbiters
  <2>3. QED BY <1>1, <2>1, <2>2
<1>6. QED BY <1>2, <1>3, <1>4, <1>5 DEF InitializeStep

\* The terms are those of the initialization.
LEMMA TermsStay ==
    ASSUME state # "Uninit", Next
    PROVE  terms' = terms
<1>1. ~InitializeStep
  BY DEF InitializeStep, Initialize, InitializeWithAbandonmentBuffer, InitializeWithArbiters,
         InitializeWithMilestones, StoreEscrowData
<1>2. CASE LifecycleStep
  BY <1>2 DEF LifecycleStep, UpdateAmount, ReleasePartial, Fund, MarkDelivered, ApproveDelivery,
     RequestRefund, RequestPartialRefund, ClaimExpiredRefund, Cancel, MutualCancel, ExtendDeadline,
     ReleaseMilestone, ApproveMilestonePartial, SettleMilestone
<1>3. CASE DisputeStep BY <1>3 DEF DisputeStep, RaiseDispute, ClaimDisputeTimeout, ResolveDispute, ApproveDispute
<1>4. CASE AdminStep \/ Tick BY <1>4 DEF AdminStep, SetFeeConfig, SetPaused, Tick
<1>5. CASE ReleaseMultiToken \/ RefundMultiToken BY <1>5 DEF ReleaseMultiToken, RefundMultiToken
<1>6. QED BY <1>1, <1>2, <1>3, <1>4, <1>5 DEF Next

\* Before initialization only an initializer does anything.
LEMMA UninitStays ==
    ASSUME state = "Uninit", Next, ~InitializeStep
    PROVE  state' = "Uninit"
<1>1. ~LifecycleStep
  BY DEF LifecycleStep, UpdateAmount, ReleasePartial, Fund, MarkDelivered, ApproveDelivery,
         RequestRefund, RequestPartialRefund, ClaimExpiredRefund, Cancel, MutualCancel,
         ExtendDeadline, ReleaseMilestone, ApproveMilestonePartial, SettleMilestone,
         ReleaseToSeller, RefundToBuyer
<1>2. ~DisputeStep
  BY DEF DisputeStep, RaiseDispute, ClaimDisputeTimeout, ResolveDispute, ApproveDispute
<1>3. ~AdminStep /\ ~ReleaseMultiToken /\ ~RefundMultiToken
  BY DEF AdminStep, SetFeeConfig, SetPaused, ReleaseMultiToken, RefundMultiToken, ReleaseToSeller, RefundToBuyer
<1>4. QED BY <1>1, <1>2, <1>3 DEF Next, Tick

\* A settled escrow stays settled, with or without a basket.
LEMMA CarefulTerminal ==
    ASSUME state \in Terminal, [BasketNext /\ AmountLeftAlone]_allVars
    PROVE  UNCHANGED <<state, amount, released, bal>>
<1>1. ASSUME NEW bk, NEW dl, NEW t, InitializeWithTokens(bk, dl, t) PROVE FALSE
  BY <1>1 DEF InitializeWithTokens, StoreEscrowData, Terminal
<1>2. ASSUME FundBasket \/ ReleaseBasket \/ RefundBasket PROVE FALSE
  BY <1>2 DEF FundBasket, ReleaseBasket, RefundBasket, Terminal
<1>3. QED BY <1>1, <1>2, CarefulCases, TerminalStep DEF allVars

\* Every step of a careful escrow keeps them in step.
LEMMA InStepKeeps ==
    ASSUME LeadOnce, FreshPlans, BasketInv, InStep, [BasketNext /\ AmountLeftAlone]_allVars
    PROVE  InStep'
<1>1. BasketInv' BY BasketKeeps
<1>2. IInv /\ IInv' BY <1>1 DEF BasketInv
<1>3. CASE basket' # <<>>
  <2>1. terms'.plan = <<>> BY <1>1, <1>3 DEF BasketInv
  <2>2. QED BY <2>1 DEF InStep, Disputable
<1>4. CASE basket' = <<>>
  <2>1. ASSUME FundBasket \/ ReleaseBasket \/ RefundBasket PROVE FALSE
    BY <1>4, <2>1 DEF FundBasket, ReleaseBasket, RefundBasket, PayBasket
  <2>2. ASSUME NEW bk, NEW dl, NEW t, InitializeWithTokens(bk, dl, t) PROVE FALSE
    BY <1>4, <2>2 DEF InitializeWithTokens
  <2>3. CASE UNCHANGED allVars BY <2>3 DEF allVars, vars, InStep, Disputable
  <2>4. CASE Next /\ AmountLeftAlone
    <3>1. CASE state = "Uninit"
      <4>1. CASE InitializeStep BY <4>1, InitializeInStep
      <4>2. ASSUME ~InitializeStep PROVE state' = "Uninit" BY <2>4, <3>1, <4>2, UninitStays
      <4>3. QED BY <4>1, <4>2 DEF InStep
    <3>2. CASE state # "Uninit" /\ terms.plan = <<>>
      <4>1. terms' = terms BY <2>4, <3>2, TermsStay
      <4>2. QED BY <3>2, <4>1 DEF InStep, Disputable
    <3>3. CASE state # "Uninit" /\ terms.plan # <<>>
      <4>1. ~\E x \in Amounts : UpdateAmount(x) \/ ReleasePartial(x) BY <2>4, <3>3 DEF AmountLeftAlone
      <4>2. CASE state' \in Terminal BY <4>2 DEF InStep
      <4>3. CASE state' \notin Terminal /\ UNCHANGED <<amount, terms, released>>
        <5>1. state \notin Terminal BY <2>4, <4>3, TerminalStep
        <5>2. QED BY <3>3, <4>3, <5>1 DEF InStep, Disputable
      <4>4. CASE \E i : SettleMilestone(i) BY <1>2, <4>4, MilestoneInStep
      <4>5. QED BY <2>4, <3>3, <4>1, <4>2, <4>3, <4>4, PlanStep
    <3>4. QED BY <3>1, <3>2, <3>3
  <2>5. QED BY <2>1, <2>2, <2>3, <2>4, CarefulCases
<1>5. QED BY <1>3, <1>4

\* Baskets included, every step is a step or a stutter of the vault.
LEMMA CarefulRefines ==
    ASSUME LeadOnce, BasketInv, MilestonesInStep, [BasketNext /\ AmountLeftAlone]_allVars
    PROVE  [Vault!Next]_<<Phase, bal[Self]>>
<1>1. ASSUME NEW bk, NEW dl, NEW t, InitializeWithTokens(bk, dl, t)
      PROVE  UNCHANGED <<Phase, bal[Self]>>
  <2>1. state = "Uninit" /\ state' = "Created" /\ bal' = bal BY <1>1 DEF InitializeWithTokens, StoreEscrowData
  <2>2. QED BY <2>1, InvisibleStep
<1>2. CASE FundBasket
  <2>1. bal'[Self] = amount /\ amount > 0 /\ amount \in Nat BY <1>2, FundBasketKeeps DEF BasketInv, IInv, TypeOK
  <2>2. Phase = "open" /\ Phase' = "held" BY <1>2 DEF FundBasket, Phase, Live, Terminal
  <2>3. QED BY <2>1, <2>2 DEF Vault!Next, Vault!Deposit
<1>3. CASE RefundBasket
  <2>1. PayBasket("Refunded") /\ state \in Live /\ state' = "Refunded" BY <1>3 DEF RefundBasket, PayBasket, Live
  <2>2. "Refunded" \in Terminal BY DEF Terminal
  <2>3. bal'[Self] = 0 BY <1>3, <2>1, <2>2, RefundBasketPays, PayBasketKeeps
  <2>4. QED BY <2>1, <2>2, <2>3, SettlesVault
<1>4. CASE ReleaseBasket
  <2>1. PayBasket("Completed") /\ state \in Live /\ state' = "Completed" BY <1>4 DEF ReleaseBasket, PayBasket, Live
  <2>2. "Completed" \in Terminal BY DEF Terminal
  <2>3. bal'[Self] = 0 BY <1>4, <2>1, <2>2, ReleaseBasketPays, PayBasketKeeps
  <2>4. QED BY <2>1, <2>2, <2>3, SettlesVault
<1>5. CASE Next BY <1>5, NextRefines DEF BasketInv
<1>6. CASE UNCHANGED allVars BY <1>6, NextRefines DEF BasketInv, allVars
<1>7. QED BY <1>1, <1>2, <1>3, <1>4, <1>5, <1>6, CarefulCases

\* The two invariants hold together in every reachable state.
THEOREM CarefulInvariance ==
    ASSUME LeadOnce, FreshPlans
    PROVE  CarefulSpec => [](BasketInv /\ InStep)
<1>1. BasketInit => InStep BY DEF BasketInit, Init, InStep
<1>2. BasketInv /\ InStep /\ [BasketNext /\ AmountLeftAlone]_allVars => InStep' BY InStepKeeps
<1>3. QED BY <1>1, <1>2, BasketInvariance, PTL DEF CarefulSpec

\* For every choice of the constants with such baskets and plans, the stored
\* Amount of a live escrow is the sum of its unreleased milestones.
THEOREM MilestonesStayInStep ==
    ASSUME LeadOnce, FreshPlans
    PROVE  CarefulSpec => []MilestonesInStep
<1>1. InStep => MilestonesInStep BY DEF InStep, MilestonesInStep, Live, Terminal
<1>2. QED BY <1>1, CarefulInvariance, PTL

\* For every choice of the constants with such baskets and plans, the escrow with
\* milestones, committees and baskets implements the abstract vault.
THEOREM CarefulEscrowImplementsVault ==
    ASSUME LeadOnce, FreshPlans
    PROVE  CarefulSpec => ImplementsVault
<1>1. BasketInit => Vault!Init
  <2>1. ASSUME Init PROVE Phase = "open" BY <2>1 DEF Init, Phase, Live, Terminal
  <2>2. ASSUME Init PROVE bal[Self] = 0 BY <2>2, PartyAssumption DEF Init, Accounts
  <2>3. QED BY <2>1, <2>2 DEF BasketInit, Vault!Init
<1>2. BasketInv /\ MilestonesInStep /\ [BasketNext /\ AmountLeftAlone]_allVars => [Vault!Next]_<<Phase, bal[Self]>>
  BY CarefulRefines
<1>3. QED BY <1>1, <1>2, BasketInvariance, MilestonesStayInStep, PTL DEF CarefulSpec, ImplementsVault, Vault!Spec

\* For every choice of the constants with such baskets and plans, whatever path
\* settles the escrow leaves none of the lead token in the contract.
THEOREM CarefulEscrowsSettleEmpty ==
    ASSUME LeadOnce, FreshPlans
    PROVE  CarefulSpec => []NothingStranded
<1>1. BasketInit => NothingStranded BY DEF BasketInit, Init, NothingStranded, Terminal
<1>2. ASSUME BasketInv, MilestonesInStep, NothingStranded, [BasketNext /\ AmountLeftAlone]_allVars
      PROVE  NothingStranded'
  <2>1. SUFFICES ASSUME state' \in Terminal PROVE bal'[Self] = 0 BY DEF NothingStranded
  <2>2. CASE state \in Terminal BY <1>2, <2>2, CarefulTerminal DEF NothingStranded
  <2>3. CASE state \notin Terminal
    <3>1. Phase' = "closed" BY <2>1 DEF Phase, Terminal, Live
    <3>2. state \in EscrowStates BY <1>2 DEF BasketInv, IInv, TypeOK
    <3>3. Phase # "closed" BY <2>3, <3>2 DEF Phase, EscrowStates
    <3>4. Vault!Next BY <1>2, <3>1, <3>3, CarefulRefines
    <3>5. Phase = "open" => bal[Self] = 0
      BY <1>2, <3>2 DEF BasketInv, IInv, VaultBacked, Phase, EscrowStates, Live, Terminal
    <3>6. QED BY <3>1, <3>4, <3>5
          DEF Vault!Next, Vault!Deposit, Vault!Payout, Vault!Settle, Vault!Abandon
  <2>4. QED BY <2>2, <2>3
<1>3. QED BY <1>1, <1>2, BasketInvariance, MilestonesStayInStep, PTL DEF CarefulSpec

----
(* What a committee's decision rests on.                                   *)

\* The ballots are finitely many, whatever the size of the panel.
BallotInv == CommitteeInv /\ approvals \in [Accounts -> Ballots] /\ IsFiniteSet(Voted(approvals))

\* One more ballot.
LEMMA OneMoreBallot ==
    ASSUME approvals \in [Accounts -> Ballots], IsFiniteSet(Voted(approvals)),
           NEW a \in Accounts, approvals[a] = "none", NEW r \in BOOLEAN,
           NEW ap, ap = [approvals EXCEPT ![a] = Choice(r)]
    PROVE  /\ ap \in [Accounts -> Ballots]
           /\ Voted(ap) = Voted(approvals) \cup {a}
           /\ IsFiniteSet(Voted(ap))
<1>1. ap \in [Accounts -> Ballots] /\ ap[a] # "none" BY DEF Choice, Ballots
<1>2. \A b \in Accounts : ap[b] # "none" <=> (approvals[b] # "none" \/ b = a) BY <1>1
<1>3. Voted(ap) = Voted(approvals) \cup {a} BY <1>2 DEF Voted
<1>4. IsFiniteSet(Voted(approvals) \cup {a}) BY FS_AddElement
<1>5. QED BY <1>1, <1>3, <1>4

\* Steps other than ballots leave them alone or clear them.
LEMMA BallotsOtherwise ==
    ASSUME Next
    PROVE  \/ approvals' = approvals \/ approvals' = NoApprovals
           \/ \E a \in Panel, r \in BOOLEAN : ApproveDispute(a, r)
<1>1. CASE InitializeStep BY <1>1, InitializeCommittee
<1>2. CASE LifecycleStep BY <1>2, LifecycleCommittee
<1>3. CASE DisputeStep
  BY <1>3 DEF DisputeStep, RaiseDispute, ClaimDisputeTimeout, ResolveDispute
<1>4. CASE AdminStep \/ Tick BY <1>4 DEF AdminStep, SetFeeConfig, SetPaused, Tick
<1>5. CASE ReleaseMultiToken \/ RefundMultiToken BY <1>5 DEF ReleaseMultiToken, RefundMultiToken
<1>6. QED BY <1>1, <1>2, <1>3, <1>4, <1>5 DEF Next

\* Every step of an escrow, with or without a basket, keeps the ballots so.
LEMMA BallotKeeps ==
    ASSUME BallotInv, [BasketNext]_allVars
    PROVE  BallotInv'
<1>1. CommitteeInv /\ approvals \in [Accounts -> Ballots] /\ IsFiniteSet(Voted(approvals)) BY DEF BallotInv
<1>2. ASSUME approvals' = approvals \/ approvals' = NoApprovals
      PROVE  approvals' \in [Accounts -> Ballots] /\ IsFiniteSet(Voted(approvals)')
  <2>1. NoApprovals \in [Accounts -> Ballots] BY DEF NoApprovals, Ballots
  <2>2. Voted(NoApprovals) = {} BY DEF Voted, NoApprovals
  <2>3. IsFiniteSet({}) BY FS_EmptySet
  <2>4. CASE approvals' = approvals BY <1>1, <2>4 DEF Voted
  <2>5. CASE approvals' = NoApprovals
    <3>1. Voted(approvals)' = {} BY <2>2, <2>5 DEF Voted
    <3>2. QED BY <2>1, <2>3, <2>5, <3>1
  <2>6. QED BY <1>2, <2>4, <2>5
<1>3. CASE Next \/ UNCHANGED vars
  <2>1. CommitteeInv' BY <1>1, <1>3, CommitteeNext
  <2>2. ASSUME NEW a \in Panel, NEW r \in BOOLEAN, ApproveDispute(a, r)
        PROVE  approvals' \in [Accounts -> Ballots] /\ IsFiniteSet(Voted(approvals)')
    <3>1. PICK ap : ap = [approvals EXCEPT ![a] = Choice(r)] OBVIOUS
    <3>2. approvals[a] = "none" /\ (approvals' = ap \/ approvals' = NoApprovals) BY <2>2, <3>1 DEF ApproveDispute
    <3>3. a \in Accounts BY DEF Accounts
    <3>4. ap \in [Accounts -> Ballots] /\ IsFiniteSet(Voted(ap)) BY <1>1, <3>1, <3>2, <3>3, OneMoreBallot
    <3>5. CASE approvals' = ap BY <3>4, <3>5 DEF Voted
    <3>6. QED BY <1>2, <3>2, <3>5
  <2>3. UNCHANGED vars => approvals' = approvals BY DEF vars
  <2>4. QED BY <1>2, <1>3, <2>1, <2>2, <2>3, BallotsOtherwise DEF BallotInv
<1>4. ASSUME NEW bk, NEW dl, NEW t, InitializeWithTokens(bk, dl, t) PROVE BallotInv'
  <2> DEFINE tt == [NoTerms EXCEPT !.timeout = t]
  <2>1. tt.arbiters = {} BY DEF NoTerms
  <2>2. StoreEscrowData(bk[1].amount, dl, tt) BY <1>4 DEF InitializeWithTokens
  <2>3. /\ state = "Uninit" /\ state' = "Created" /\ approvals' = approvals /\ terms'.arbiters = {}
    BY <2>1, <2>2 DEF StoreEscrowData
  <2>4. CommitteeInv' BY <1>1, <2>3 DEF CommitteeInv, ThresholdExecutes, Terminal
  <2>5. QED BY <1>2, <2>3, <2>4 DEF BallotInv
<1>5. CASE FundBasket
  <2>1. state = "Created" /\ state' = "Funded" /\ UNCHANGED <<approvals, terms>> BY <1>5 DEF FundBasket
  <2>2. CommitteeInv' BY <1>1, <2>1, NoBallotStep DEF Terminal
  <2>3. QED BY <1>2, <2>1, <2>2 DEF BallotInv
<1>6. CASE ReleaseBasket \/ RefundBasket
  <2>1. state' \in Terminal /\ UNCHANGED <<approvals, terms>>
    BY <1>6 DEF ReleaseBasket, RefundBasket, PayBasket, Terminal
  <2>2. CommitteeInv' BY <1>1, <2>1, NoBallotStep
  <2>3. QED BY <1>2, <2>1, <2>2 DEF BallotInv
<1>7. QED BY <1>3, <1>4, <1>5, <1>6 DEF BasketNext, Next, allVars

\* The step that pays the seller out of a committee's dispute is the ballot that
\* reaches the threshold, and every ballot is for the release.
LEMMA DecidingBallot ==
    ASSUME BallotInv, Next, state = "Disputed", terms.arbiters # {}, state' = "Completed"
    PROVE  \E a \in Panel : ApproveDispute(a, TRUE) /\ QuorumReached([approvals EXCEPT ![a] = "release"])
<1>1. ~InitializeStep
  BY DEF InitializeStep, Initialize, InitializeWithAbandonmentBuffer, InitializeWithArbiters,
         InitializeWithMilestones, StoreEscrowData
<1>2. ~LifecycleStep
  BY DEF LifecycleStep, UpdateAmount, ReleasePartial, Fund, MarkDelivered, ApproveDelivery,
         RequestRefund, RequestPartialRefund, ClaimExpiredRefund, Cancel, MutualCancel,
         ExtendDeadline, ReleaseMilestone, ApproveMilestonePartial, SettleMilestone,
         ReleaseToSeller, RefundToBuyer
<1>3. ~AdminStep /\ ~Tick /\ ~ReleaseMultiToken /\ ~RefundMultiToken
  BY DEF AdminStep, SetFeeConfig, SetPaused, Tick, ReleaseMultiToken, RefundMultiToken,
         ReleaseToSeller, RefundToBuyer
<1>4. DisputeStep BY <1>1, <1>2, <1>3 DEF Next
<1>5. ASSUME NEW c, RaiseDispute(c) PROVE FALSE BY <1>5 DEF RaiseDispute
<1>6. ~ClaimDisputeTimeout BY DEF ClaimDisputeTimeout, RefundToBuyer, RefundAmount, Close
<1>7. ASSUME NEW c, NEW r, ResolveDispute(c, r) PROVE FALSE
  <2>1. QuorumReached(approvals) BY <1>7 DEF ResolveDispute, CommitteeAgrees
  <2>2. ~QuorumReached(approvals) BY DEF BallotInv, CommitteeInv, ThresholdExecutes, QuorumReached
  <2>3. QED BY <2>1, <2>2
<1>8. PICK a \in Panel, r \in BOOLEAN : ApproveDispute(a, r) BY <1>4, <1>5, <1>6, <1>7 DEF DisputeStep
<1>9. PICK ap : ap = [approvals EXCEPT ![a] = Choice(r)] OBVIOUS
<1>10. QuorumReached(ap) /\ Settle(a, r) BY <1>8, <1>9 DEF ApproveDispute
<1>11. CASE r = FALSE
  <2>1. state' = "Refunded" BY <1>10, <1>11 DEF Settle, RefundAmount, Close
  <2>2. QED BY <2>1
<1>12. CASE r = TRUE
  <2>1. ap = [approvals EXCEPT ![a] = "release"] BY <1>9, <1>12 DEF Choice
  <2>2. ApproveDispute(a, TRUE) BY <1>8, <1>12
  <2>3. QED BY <1>10, <2>1, <2>2
<1>13. QED BY <1>11, <1>12

\* So the release ballots and the deciding one reach the threshold, and no ballot
\* was for a refund.
LEMMA DecidedByBallots ==
    ASSUME BallotInv, Next, state = "Disputed", terms.arbiters # {}, state' = "Completed"
    PROVE  Cardinality(BallotsFor("release")) + 1 >= terms.required /\ BallotsFor("refund") = {}
<1>1. approvals \in [Accounts -> Ballots] /\ IsFiniteSet(Voted(approvals)) /\ terms.required \in Nat
  BY DEF BallotInv, CommitteeInv
<1>2. PICK a \in Panel : ApproveDispute(a, TRUE) /\ QuorumReached([approvals EXCEPT ![a] = "release"])
  BY DecidingBallot
<1>3. a \in Accounts BY DEF Accounts
<1>4. PICK ap : ap = [approvals EXCEPT ![a] = Choice(TRUE)] OBVIOUS
<1>5. Choice(TRUE) = "release" BY DEF Choice
<1>6. QuorumReached(ap) BY <1>2, <1>4, <1>5
<1>7. approvals[a] = "none" /\ Unanimous(ap, TRUE) BY <1>2, <1>4, <1>6 DEF ApproveDispute
<1>8. Voted(ap) = Voted(approvals) \cup {a} BY <1>1, <1>3, <1>4, <1>7, OneMoreBallot
<1>9. \A b \in Voted(approvals) : approvals[b] = "release"
  <2>1. SUFFICES ASSUME NEW b \in Voted(approvals) PROVE approvals[b] = "release" OBVIOUS
  <2>2. b \in Accounts /\ b # a BY <1>7 DEF Voted
  <2>3. ap[b] = "release" BY <1>5, <1>7, <1>8 DEF Unanimous
  <2>4. QED BY <1>1, <1>3, <1>4, <2>2, <2>3
<1>10. BallotsFor("refund") = {} BY <1>9 DEF BallotsFor, Voted
<1>11. BallotsFor("release") = Voted(approvals) BY <1>9 DEF BallotsFor, Voted
<1>12. a \notin Voted(approvals) BY <1>7 DEF Voted
<1>13. Cardinality(Voted(approvals)) \in Nat BY <1>1, FS_CardinalityType
<1>14. Cardinality(Voted(ap)) = Cardinality(Voted(approvals)) + 1 BY <1>1, <1>8, <1>12, FS_AddElement
<1>15. Cardinality(Voted(ap)) >= terms.required BY <1>6 DEF QuorumReached
<1>16. QED BY <1>10, <1>11, <1>14, <1>15

\* For every committee, threshold and panel, and whatever is called in between,
\* a disputed escrow pays the seller only on enough release ballots and over no
\* refund ballot.
THEOREM CommitteesDecide == BasketSpec => CommitteeDecides
<1>1. BasketInit => BallotInv
  <2> SUFFICES ASSUME BasketInit PROVE BallotInv OBVIOUS
  <2>1. approvals = NoApprovals /\ CommitteeInv
    BY DEF BasketInit, Init, CommitteeInv, ThresholdExecutes, NoTerms
  <2>2. Voted(approvals) = {} /\ approvals \in [Accounts -> Ballots] BY <2>1 DEF Voted, NoApprovals, Ballots
  <2>3. QED BY <2>1, <2>2, FS_EmptySet DEF BallotInv
<1>2. BallotInv /\ [BasketNext]_allVars => BallotInv' BY BallotKeeps
<1>3. BallotInv /\ [BasketNext]_allVars =>
        [state = "Disputed" /\ terms.arbiters # {} /\ state' = "Completed" =>
          /\ Cardinality(BallotsFor("release")) + 1 >= terms.required
          /\ BallotsFor("refund") = {}]_vars
  <2> SUFFICES ASSUME BallotInv, [BasketNext]_allVars,
                      state = "Disputed", terms.arbiters # {}, state' = "Completed"
               PROVE  Cardinality(BallotsFor("release")) + 1 >= terms.required /\ BallotsFor("refund") = {}
    OBVIOUS
  <2>1. Next
    BY DEF BasketNext, Next, InitializeWithTokens, StoreEscrowData, FundBasket, ReleaseBasket, RefundBasket,
           allVars, vars
  <2>2. QED BY <2>1, DecidedByBallots
<1>4. QED BY <1>1, <1>2, <1>3, PTL DEF BasketSpec, CommitteeDecides
====
