---- MODULE TokenProofs ----
(***************************************************************************)
(* Proofs about the token, for every set of accounts, amounts, batches,    *)
(* caps, expiries and locks, its signed permits and its snapshots.         *)
(***************************************************************************)
EXTENDS TokenSpending, TokenPermit, TokenSnapshot, FoldLemmas, SequenceTheorems

\* What a batch of positive amounts credits, to one account or in total, is a
\* natural number, and the credits add up to the total.
LEMMA BatchSums ==
  ASSUME NEW rs \in Batches, PositiveEntries(rs)
  PROVE  /\ BatchTotal(rs) \in Nat
         /\ \A a \in Accounts : Credited(rs, a) \in Nat
         /\ SumFunctionOnSet([a \in Accounts |-> Credited(rs, a)], Accounts) = BatchTotal(rs)
<1> DEFINE S == DOMAIN rs
           x == [i \in S |-> rs[i].amount]
           to == [i \in S |-> rs[i].to]
           of == [a \in Accounts |-> {i \in S : rs[i].to = a}]
           credit == [a \in Accounts |-> Credited(rs, a)]
<1>1. IsFiniteSet(Accounts) /\ rs \in Seq([to : Accounts, amount : Int]) BY TokenAssumption
<1>2. S = 1..Len(rs) /\ Len(rs) \in Nat BY <1>1
<1>3. IsFiniteSet(S) BY <1>2, FS_Interval
<1>4. ASSUME NEW i \in S PROVE rs[i].to \in Accounts /\ rs[i].amount \in Nat
  <2> DEFINE Entries == [to : Accounts, amount : Int]
  <2>1. rs \in Seq(Entries) BY <1>1
  <2> HIDE DEF Entries
  <2>2. rs[i] \in Entries BY <1>2, <2>1
  <2>3. rs[i].to \in Accounts /\ rs[i].amount \in Int BY <2>2 DEF Entries
  <2>4. rs[i].amount > 0 BY DEF PositiveEntries
  <2>5. QED BY <2>3, <2>4
<1>5. (\A i \in S : x[i] \in Nat) /\ (\A i \in S : x[i] \in Int) /\ (\A i \in S : to[i] \in Accounts) BY <1>4
<1>6. BatchTotal(rs) = SumFunctionOnSet(x, S) BY DEF BatchTotal, EntrySum
<1>7. \A a \in Accounts : of[a] \subseteq S /\ \A i \in S : i \in of[a] <=> to[i] = a OBVIOUS
<1>8. \A a \in Accounts : credit[a] = SumFunctionOnSet(x, of[a]) BY DEF Credited, EntrySum
<1> HIDE DEF S, x, to, of
<1>9. ASSUME NEW a \in Accounts PROVE Credited(rs, a) \in Nat
  <2>1. IsFiniteSet(of[a]) /\ \A i \in of[a] : x[i] \in Nat BY <1>3, <1>5, <1>7, FS_Subset
  <2>2. SumFunctionOnSet(x, of[a]) \in Nat BY <2>1, SumNat
  <2>3. QED BY <1>8, <2>2
<1>10. BatchTotal(rs) \in Nat BY <1>3, <1>5, <1>6, SumNat
<1> HIDE DEF credit
<1>11. SumFunctionOnSet(credit, Accounts) = SumFunctionOnSet(x, S) BY <1>1, <1>3, <1>5, <1>7, <1>8, SumByKey, SMTT(60)
<1>12. QED BY <1>6, <1>9, <1>10, <1>11 DEF credit

\* Reading an allowance, expired or not, yields an allowance.
LEMMA ActiveType ==
  ASSUME TypeOK, NEW k \in Accounts \X Accounts
  PROVE  /\ Active(k) \in Allowances
         /\ Active(k).amount \in Int /\ Active(k).expires \in Nat
         /\ Active(k) = Expired \/ Active(k) = allow[k]
  BY DEF TypeOK, Active, Expired, Allowances

\* transfer_impl keeps balances natural numbers.
LEMMA TransferImplType ==
  ASSUME TypeOK, NEW from \in Accounts, NEW to \in Accounts, NEW x \in Int,
         TransferImpl(from, to, x)
  PROVE  bal' \in [Accounts -> Nat]
<1>1. CASE from = to BY <1>1 DEF TypeOK, TransferImpl
<1>2. CASE from # to
  <2>1. bal[from] + (-x) \in 0..I128Max /\ bal[to] + x \in 0..I128Max
    BY <1>2 DEF TransferImpl, Fits
  <2>2. bal' = [[bal EXCEPT ![from] = @ + (-x)] EXCEPT ![to] = @ + x]
    BY <1>2 DEF TransferImpl, Updated
  <2>3. QED BY <1>2, <2>1, <2>2, TokenAssumption DEF TypeOK
<1>3. QED BY <1>1, <1>2

\* Deducting from an allowance leaves allowances.
LEMMA DeductType ==
  ASSUME TypeOK, NEW k \in Accounts \X Accounts, NEW x \in Int, Deduct(k, x)
  PROVE  allow' \in [Accounts \X Accounts -> Allowances]
  BY ActiveType DEF TypeOK, Deduct, Allowances

\* Minting and burning keep every key's type.
LEMMA SupplyType == ASSUME TypeOK, SupplyStep PROVE TypeOK'
<1> USE TokenAssumption
<1>1. ASSUME NEW a \in Accounts, NEW x \in Amounts, Mint(a, x) PROVE TypeOK'
  BY <1>1 DEF Mint, TypeOK, Fits, Updated
<1>2. ASSUME NEW a \in Accounts, NEW x \in Amounts, AdminBurn(a, x) PROVE TypeOK'
  BY <1>2 DEF AdminBurn, TypeOK, Fits, Updated
<1>3. ASSUME NEW a \in Accounts, NEW x \in Amounts, Burn(a, x) PROVE TypeOK'
  BY <1>3 DEF Burn, TypeOK, Fits, Updated
<1>4. ASSUME NEW rs \in Batches, BatchMint(rs) PROVE TypeOK'
  <2>1. BatchTotal(rs) \in Nat /\ \A a \in Accounts : Credited(rs, a) \in Nat
    BY <1>4, BatchSums DEF BatchMint
  <2>2. supply' \in Int BY <1>4, <2>1 DEF BatchMint, TypeOK
  <2>3. ASSUME NEW a \in Accounts PROVE bal[a] + Credited(rs, a) \in Nat BY <2>1 DEF TypeOK
  <2>4. bal' \in [Accounts -> Nat] BY <1>4, <2>3 DEF BatchMint
  <2>5. QED BY <1>4, <2>2, <2>4 DEF BatchMint, TypeOK
<1>5. QED BY <1>1, <1>2, <1>3, <1>4 DEF SupplyStep

\* So do transfers and batches.
LEMMA TransferType == ASSUME TypeOK, TransferStep PROVE TypeOK'
<1> USE TokenAssumption
<1>1. ASSUME NEW a \in Accounts, NEW b \in Accounts, NEW x \in Amounts, Transfer(a, b, x)
      PROVE TypeOK'
  <2>1. bal' \in [Accounts -> Nat] BY <1>1, TransferImplType DEF Transfer
  <2>2. QED BY <1>1, <2>1 DEF Transfer, TypeOK
<1>2. ASSUME NEW a \in Accounts, NEW rs \in Batches, TransferBatch(a, rs) PROVE TypeOK'
  <2>1. BatchTotal(rs) \in Nat /\ \A b \in Accounts : Credited(rs, b) \in Nat
    BY <1>2, BatchSums DEF TransferBatch
  <2>2. bal' \in [Accounts -> Nat]
    <3>1. ASSUME NEW b \in Accounts PROVE bal'[b] \in Nat
      <4>1. bal[b] \in Nat /\ bal[a] \in Nat /\ BatchTotal(rs) <= bal[a]
        BY <1>2 DEF TransferBatch, TypeOK
      <4>2. bal'[b] = IF b = a THEN bal[b] - BatchTotal(rs) ELSE bal[b] + Credited(rs, b)
        BY <1>2 DEF TransferBatch
      <4>3. QED BY <2>1, <4>1, <4>2
    <3>2. QED BY <1>2, <3>1 DEF TransferBatch
  <2>3. QED BY <1>2, <2>2 DEF TransferBatch, TypeOK
<1>3. QED BY <1>1, <1>2 DEF TransferStep

\* So do the spender's calls.
LEMMA SpendType == ASSUME TypeOK, SpendStep PROVE TypeOK'
<1> USE TokenAssumption
<1>1. ASSUME NEW k \in Pairs, NEW b \in Accounts, NEW x \in Amounts, TransferFrom(k, b, x)
      PROVE TypeOK'
  <2>1. k \in Accounts \X Accounts /\ k[1] \in Accounts OBVIOUS
  <2>2. bal' \in [Accounts -> Nat] BY <1>1, <2>1, TransferImplType DEF TransferFrom
  <2>3. allow' \in [Accounts \X Accounts -> Allowances] BY <1>1, <2>1, DeductType DEF TransferFrom
  <2>4. QED BY <1>1, <2>2, <2>3 DEF TransferFrom, TypeOK
<1>2. ASSUME NEW k \in Pairs, NEW x \in Amounts, BurnFrom(k, x) PROVE TypeOK'
  <2>1. k \in Accounts \X Accounts /\ k[1] \in Accounts OBVIOUS
  <2>2. bal' \in [Accounts -> Nat] BY <1>2, <2>1 DEF BurnFrom, TypeOK, Fits, Updated
  <2>3. allow' \in [Accounts \X Accounts -> Allowances] BY <1>2, <2>1, DeductType DEF BurnFrom
  <2>4. QED BY <1>2, <2>2, <2>3 DEF BurnFrom, TypeOK
<1>3. QED BY <1>1, <1>2 DEF SpendStep

\* So do approvals, increases and decreases.
LEMMA AllowanceType == ASSUME TypeOK, AllowanceStep PROVE TypeOK'
<1> USE TokenAssumption
<1>1. ASSUME NEW k \in Pairs, NEW x \in Amounts, NEW e \in Expiries, Approve(k, x, e)
      PROVE TypeOK'
  <2>1. allow' \in [Accounts \X Accounts -> Allowances]
    BY <1>1 DEF Approve, SetAllowance, TypeOK, Allowances
  <2>2. QED BY <1>1, <2>1 DEF Approve, TypeOK
<1>2. ASSUME NEW k \in Pairs, NEW x \in Amounts, IncreaseAllowance(k, x) PROVE TypeOK'
  <2>1. allow' \in [Accounts \X Accounts -> Allowances]
    BY <1>2, ActiveType DEF IncreaseAllowance, SetAllowance, TypeOK, Allowances
  <2>2. QED BY <1>2, <2>1 DEF IncreaseAllowance, TypeOK
<1>3. ASSUME NEW k \in Pairs, NEW x \in Amounts, DecreaseAllowance(k, x) PROVE TypeOK'
  <2>1. allow' \in [Accounts \X Accounts -> Allowances]
    BY <1>3, ActiveType DEF DecreaseAllowance, SetAllowance, TypeOK, Allowances
  <2>2. QED BY <1>3, <2>1 DEF DecreaseAllowance, TypeOK
<1>4. QED BY <1>1, <1>2, <1>3 DEF AllowanceStep

\* So do the admin's calls.
LEMMA AdminType == ASSUME TypeOK, AdminStep PROVE TypeOK'
<1> USE TokenAssumption
<1>1. ASSUME NEW a \in Admins, NEW c \in Caps, Initialize(a, c) PROVE TypeOK'
  BY <1>1 DEF Initialize, TypeOK
<1>2. ASSUME NEW a \in Admins, ProposeAdmin(a) PROVE TypeOK' BY <1>2 DEF ProposeAdmin, TypeOK
<1>3. ASSUME NEW a \in Admins, SetAdmin(a) PROVE TypeOK' BY <1>3 DEF SetAdmin, TypeOK
<1>4. CASE AcceptAdmin BY <1>4 DEF AcceptAdmin, TypeOK
<1>5. CASE CancelAdminProposal BY <1>5 DEF CancelAdminProposal, TypeOK
<1>6. ASSUME NEW p \in BOOLEAN, SetPaused(p) PROVE TypeOK' BY <1>6 DEF SetPaused, TypeOK
<1>7. ASSUME NEW a \in Targets, NEW on \in BOOLEAN, SetFrozen(a, on) PROVE TypeOK'
  BY <1>7 DEF SetFrozen, TypeOK
<1>8. ASSUME NEW a \in Targets, NEW on \in BOOLEAN, SetBlacklisted(a, on) PROVE TypeOK'
  BY <1>8 DEF SetBlacklisted, TypeOK
<1>9. ASSUME NEW a \in Treasuries, SetComplianceTreasury(a) PROVE TypeOK'
  BY <1>9 DEF SetComplianceTreasury, TypeOK
<1>10. ASSUME NEW a \in Targets, NEW x \in Amounts, ConfiscateBlacklisted(a, x) PROVE TypeOK'
  <2>1. treasury \in Accounts /\ bal \in [Accounts -> Nat] /\ a \in Accounts /\ x \in Int
    BY <1>10 DEF ConfiscateBlacklisted, TypeOK
  <2>2. bal[a] + (-x) \in Nat /\ [bal EXCEPT ![a] = @ + (-x)][treasury] + x \in Nat
    BY <1>10, <2>1 DEF ConfiscateBlacklisted, Fits, Updated
  <2>3. bal' = [[bal EXCEPT ![a] = @ + (-x)] EXCEPT ![treasury] = @ + x]
    BY <1>10 DEF ConfiscateBlacklisted, Updated
  <2>4. bal' \in [Accounts -> Nat] BY <2>1, <2>2, <2>3
  <2>5. QED BY <1>10, <2>4 DEF ConfiscateBlacklisted, TypeOK
<1>11. ASSUME NEW a \in Targets, NEW l \in Locks, SetTransferLock(a, l) PROVE TypeOK'
  BY <1>11 DEF SetTransferLock, TypeOK
<1>12. QED
  BY <1>1, <1>2, <1>3, <1>4, <1>5, <1>6, <1>7, <1>8, <1>9, <1>10, <1>11 DEF AdminStep

\* So does every step.
LEMMA StepType == ASSUME TypeOK, [Next]_vars PROVE TypeOK'
<1>1. CASE Tick BY <1>1 DEF Tick, LedgerCloses, TypeOK
<1>2. CASE UNCHANGED vars BY <1>2 DEF vars, TypeOK
<1>3. QED
  BY <1>1, <1>2, SupplyType, TransferType, SpendType, AllowanceType, AdminType DEF Next

\* The deployed contract's empty storage is well typed.
LEMMA InitType == Init => TypeOK
<1> SUFFICES ASSUME Init PROVE TypeOK OBVIOUS
<1>1. allow \in [Accounts \X Accounts -> Allowances] BY DEF Init, Expired, Allowances
<1>2. lock \in [Accounts -> Nat \cup {NoLock}] BY DEF Init
<1>3. bal \in [Accounts -> Nat] BY DEF Init
<1>4. paused \in BOOLEAN BY Zenon DEF Init
<1>5. /\ now \in Nat /\ supply \in Int
      /\ admin \in Accounts \cup {None} /\ pending \in Accounts \cup {None}
      /\ treasury \in Accounts \cup {None} /\ cap \in Nat \cup {None}
      /\ frozen \subseteq Accounts /\ blacklisted \subseteq Accounts
  BY DEF Init
<1>6. QED BY <1>1, <1>2, <1>3, <1>4, <1>5 DEF TypeOK

\* Balances stay natural numbers and every key keeps its type, for amounts of
\* any sign and batches of any shape.
THEOREM TypeCorrect == Spec => []TypeOK
  BY InitType, StepType, PTL DEF Spec

----
(* The supply cap.                                                         *)

\* For amounts of any sign, no sequence of mints, batches, burns and re-mints takes
\* the supply past the cap, except a burn_from of a negative amount.
THEOREM CapHolds == Spec => CapRespected
<1> USE TokenAssumption
<1> DEFINE Excused == \E k \in Accounts \X Accounts : BurnFrom(k, supply - supply')
           Step == cap' # None /\ supply' > cap' /\ supply' > supply => Excused
<1>1. ASSUME TypeOK, [Next]_vars PROVE [Step]_vars
  <2> supply \in Int /\ cap \in Nat \cup {None} BY <1>1 DEF TypeOK
  <2>a. ASSUME supply' \in Int, supply' <= supply PROVE Step BY <2>a
  <2>b. ASSUME NEW x \in Nat, cap' = cap, supply' = supply + x, BelowCap(x) PROVE Step
    BY <2>b DEF BelowCap
  <2>1. ASSUME NEW a \in Accounts, NEW x \in Amounts, Mint(a, x) \/ AdminBurn(a, x) \/ Burn(a, x)
        PROVE Step
    <3>1. CASE Mint(a, x) BY <2>b, <3>1 DEF Mint
    <3>2. CASE AdminBurn(a, x) BY <2>a, <3>2 DEF AdminBurn
    <3>3. CASE Burn(a, x) BY <2>a, <3>3 DEF Burn
    <3>4. QED BY <2>1, <3>1, <3>2, <3>3
  <2>2. ASSUME NEW rs \in Batches, BatchMint(rs) PROVE Step
    <3>1. BatchTotal(rs) \in Nat BY <2>2, BatchSums DEF BatchMint
    <3>2. QED BY <2>b, <2>2, <3>1 DEF BatchMint
  <2>3. ASSUME NEW k \in Pairs, NEW x \in Amounts, BurnFrom(k, x) PROVE Step
    <3>1. supply' = supply - x BY <2>3 DEF BurnFrom
    <3>2. supply - supply' = x BY <3>1
    <3>3. k \in Accounts \X Accounts OBVIOUS
    <3>4. BurnFrom(k, supply - supply') BY <2>3, <3>2
    <3>5. QED BY <3>3, <3>4
  <2>4. ASSUME NEW a \in Admins, NEW c \in Caps, Initialize(a, c) PROVE Step
    <3>1. supply' = 0 /\ cap' = c /\ (c # None => c > 0) BY <2>4 DEF Initialize
    <3>2. ASSUME cap' # None PROVE ~(supply' > cap') BY <3>1, <3>2
    <3>3. QED BY <3>2
  <2>5. ASSUME UNCHANGED supply PROVE Step BY <2>a, <2>5
  <2>6. CASE TransferStep BY <2>5, <2>6 DEF TransferStep, Transfer, TransferBatch
  <2>7. CASE \E k \in Pairs, b \in Accounts, x \in Amounts : TransferFrom(k, b, x)
    BY <2>5, <2>7 DEF TransferFrom
  <2>8. CASE AllowanceStep
    BY <2>5, <2>8 DEF AllowanceStep, Approve, IncreaseAllowance, DecreaseAllowance
  <2>9. CASE Tick BY <2>5, <2>9 DEF Tick, LedgerCloses
  <2>10. CASE UNCHANGED vars BY <2>10
  <2>11. CASE AdminStep
    BY <2>4, <2>5, <2>11 DEF AdminStep, ProposeAdmin, SetAdmin, AcceptAdmin, CancelAdminProposal,
       SetPaused, SetFrozen, SetBlacklisted, SetComplianceTreasury, ConfiscateBlacklisted,
       SetTransferLock
  <2> HIDE DEF Step
  <2>12. QED
    BY <1>1, <2>1, <2>2, <2>3, <2>6, <2>7, <2>8, <2>9, <2>10, <2>11 DEF Next, SupplyStep, SpendStep
<1>2. QED BY <1>1, TypeCorrect, PTL DEF Spec, CapRespected

----
(* The supply covers the balances.                                         *)

\* The history variables only watch.
LEMMA SpendingIsNext == ASSUME [SpendingNext]_spendingVars PROVE [Next]_vars
  BY DEF SpendingNext, spendingVars, Next, AllowanceStep, SpendStep

\* The token stays well typed when it is observed.
LEMMA SpendingType == SpendingSpec => []TypeOK
  BY InitType, StepType, SpendingIsNext, PTL DEF SpendingSpec, SpendingInit

\* Before initialize nobody is proposed as admin, and the supply counts what
\* circulates; from then on all but what circulated at that moment.
SupplyInv ==
  /\ SupplyCoversBalances
  /\ startedWith \in Int
  /\ admin = None => pending = None /\ startedWith = 0

\* Sums of balances.
LEMMA BalanceBump ==
  ASSUME NEW f \in [Accounts -> Int], NEW a \in Accounts, NEW d \in Int
  PROVE  /\ SumFunctionOnSet(f, Accounts) \in Int
         /\ SumFunctionOnSet([f EXCEPT ![a] = @ + d], Accounts) = SumFunctionOnSet(f, Accounts) + d
<1> DEFINE g == [f EXCEPT ![a] = @ + d]
<1>1. IsFiniteSet(Accounts) BY TokenAssumption
<1>2. (\A b \in Accounts : f[b] \in Int) /\ g[a] = f[a] + d /\ (\A b \in Accounts : b # a => g[b] = f[b]) OBVIOUS
<1> HIDE DEF g
<1>3. SumFunctionOnSet(g, Accounts) = SumFunctionOnSet(f, Accounts) + d BY <1>1, <1>2, SumBump
<1>4. SumFunctionOnSet(f, Accounts) \in Int BY <1>1, <1>2, SumBasics
<1>5. QED BY <1>3, <1>4 DEF g

\* A debit and a credit of the same amount cancel out, of one account too.
LEMMA MovedBalances ==
  ASSUME NEW f \in [Accounts -> Int], NEW a \in Accounts, NEW b \in Accounts, NEW x \in Int
  PROVE  SumFunctionOnSet(Updated(Updated(f, a, -x), b, x), Accounts) = SumFunctionOnSet(f, Accounts)
<1> DEFINE m == -x
           g == [f EXCEPT ![a] = @ + m]
<1>1. m \in Int /\ m + x = 0 OBVIOUS
<1> HIDE DEF m
<1>2. g \in [Accounts -> Int] BY <1>1
<1>3. SumFunctionOnSet(g, Accounts) = SumFunctionOnSet(f, Accounts) + m /\ SumFunctionOnSet(f, Accounts) \in Int
  BY <1>1, BalanceBump
<1> HIDE DEF g
<1>4. SumFunctionOnSet([g EXCEPT ![b] = @ + x], Accounts) = SumFunctionOnSet(g, Accounts) + x BY <1>2, BalanceBump
<1>5. SumFunctionOnSet([g EXCEPT ![b] = @ + x], Accounts) = SumFunctionOnSet(f, Accounts) BY <1>1, <1>3, <1>4
<1>6. QED BY <1>5 DEF Updated, g, m

\* What a batch adds to the balances.
LEMMA BatchCredits ==
  ASSUME NEW f \in [Accounts -> Int], NEW rs \in Batches, PositiveEntries(rs)
  PROVE  /\ [a \in Accounts |-> f[a] + Credited(rs, a)] \in [Accounts -> Int]
         /\ SumFunctionOnSet([a \in Accounts |-> f[a] + Credited(rs, a)], Accounts)
                = SumFunctionOnSet(f, Accounts) + BatchTotal(rs)
<1> DEFINE credit == [a \in Accounts |-> Credited(rs, a)]
           g == [a \in Accounts |-> f[a] + credit[a]]
<1>1. SumFunctionOnSet(credit, Accounts) = BatchTotal(rs) BY BatchSums
<1>2. \A a \in Accounts : credit[a] \in Nat BY BatchSums
<1>3. \A a \in Accounts : f[a] \in Int /\ credit[a] \in Int /\ g[a] = f[a] + credit[a] BY <1>2
<1>4. g \in [Accounts -> Int] BY <1>3
<1>5. g = [a \in Accounts |-> f[a] + Credited(rs, a)] OBVIOUS
<1> HIDE DEF credit, g
<1>6. IsFiniteSet(Accounts) BY TokenAssumption
<1>7. SumFunctionOnSet(g, Accounts) = SumFunctionOnSet(f, Accounts) + SumFunctionOnSet(credit, Accounts) BY <1>3, <1>6, SumPlus
<1>8. QED BY <1>1, <1>4, <1>5, <1>7

\* No step breaks it.
LEMMA SupplyInvStep ==
  ASSUME TypeOK, SupplyInv, [SpendingNext]_spendingVars
  PROVE  SupplyInv'
<1> USE TokenAssumption
<1>0. /\ bal \in [Accounts -> Int] /\ supply \in Int /\ startedWith \in Int
      /\ Circulating \in Int /\ Circulating = SumFunctionOnSet(bal, Accounts)
      /\ Circulating <= supply + startedWith
      /\ admin = None => pending = None /\ startedWith = 0
  <2>1. bal \in [Accounts -> Int] /\ supply \in Int BY DEF TypeOK
  <2>2. \A a \in Accounts : bal[a] \in Int BY <2>1
  <2>3. IsFiniteSet(Accounts) BY TokenAssumption
  <2>4. SumFunctionOnSet(bal, Accounts) \in Int BY <2>2, <2>3, SumBasics
  <2>5. QED BY <2>1, <2>4 DEF SupplyInv, SupplyCoversBalances, Circulating
<1>s. ASSUME Started, admin' = admin \/ admin # None PROVE startedWith' = startedWith
  BY <1>s DEF Started
<1>1. ASSUME NEW d \in Int, SumFunctionOnSet(bal', Accounts) = Circulating + d, supply' = supply + d,
             UNCHANGED <<admin, pending, startedWith>>
      PROVE SupplyInv'
  <2>1. Circulating' = Circulating + d BY <1>1 DEF Circulating
  <2>2. QED BY <1>0, <1>1, <2>1 DEF SupplyInv, SupplyCoversBalances
<1>2. ASSUME Circulating' \in Int, Circulating' <= Circulating, supply' = supply, UNCHANGED <<admin, pending, startedWith>>
      PROVE SupplyInv'
  BY <1>0, <1>2 DEF SupplyInv, SupplyCoversBalances
<1>3. ASSUME NEW a \in Accounts, NEW x \in Int, bal' = Updated(bal, a, -x), supply' = supply - x,
             UNCHANGED <<admin, pending, startedWith>>
      PROVE SupplyInv'
  <2> DEFINE m == -x
  <2>1. m \in Int /\ supply' = supply + m BY <1>0, <1>3
  <2>2. bal' = [bal EXCEPT ![a] = @ + m] BY <1>3 DEF Updated
  <2> HIDE DEF m
  <2>3. SumFunctionOnSet(bal', Accounts) = Circulating + m BY <1>0, <2>1, <2>2, BalanceBump
  <2>4. QED BY <1>1, <1>3, <2>1, <2>3
<1>4. ASSUME NEW a \in Accounts, NEW x \in Amounts, Mint(a, x), Started PROVE SupplyInv'
  <2>1. bal' = [bal EXCEPT ![a] = @ + x] /\ supply' = supply + x /\ admin # None /\ UNCHANGED <<admin, pending>>
    BY <1>4 DEF Mint, Updated
  <2>2. SumFunctionOnSet(bal', Accounts) = Circulating + x BY <1>0, <2>1, BalanceBump
  <2>3. QED BY <1>1, <1>4, <1>s, <2>1, <2>2
<1>5. ASSUME NEW a \in Accounts, NEW x \in Amounts, AdminBurn(a, x) \/ Burn(a, x), Started PROVE SupplyInv'
  BY <1>3, <1>5, <1>s DEF AdminBurn, Burn
<1>6. ASSUME NEW rs \in Batches, BatchMint(rs), Started PROVE SupplyInv'
  <2>1. /\ PositiveEntries(rs) /\ admin # None /\ UNCHANGED <<admin, pending>>
        /\ bal' = [a \in Accounts |-> bal[a] + Credited(rs, a)] /\ supply' = supply + BatchTotal(rs)
    BY <1>6 DEF BatchMint
  <2>2. SumFunctionOnSet(bal', Accounts) = Circulating + BatchTotal(rs) BY <1>0, <2>1, BatchCredits
  <2>3. BatchTotal(rs) \in Int
    <3>1. BatchTotal(rs) \in Nat BY <2>1, BatchSums
    <3>2. QED BY <3>1
  <2>4. QED BY <1>1, <1>6, <1>s, <2>1, <2>2, <2>3
<1>7. ASSUME NEW a \in Accounts, NEW b \in Accounts, NEW x \in Int, TransferImpl(a, b, x)
      PROVE Circulating' = Circulating
  <2>1. CASE a = b BY <1>7, <2>1 DEF TransferImpl, Circulating
  <2>2. CASE a # b
    <3>1. bal' = Updated(Updated(bal, a, -x), b, x) BY <1>7, <2>2 DEF TransferImpl
    <3>2. SumFunctionOnSet(Updated(Updated(bal, a, -x), b, x), Accounts) = SumFunctionOnSet(bal, Accounts)
      BY <1>0, MovedBalances
    <3>3. QED BY <3>1, <3>2 DEF Circulating
  <2>3. QED BY <2>1, <2>2
<1>8. ASSUME NEW a \in Accounts, NEW b \in Accounts, NEW x \in Amounts, Transfer(a, b, x), Started PROVE SupplyInv'
  <2>1. Circulating' = Circulating BY <1>7, <1>8 DEF Transfer
  <2>2. QED BY <1>0, <1>2, <1>8, <1>s, <2>1 DEF Transfer
<1>9. ASSUME NEW from \in Accounts, NEW rs \in Batches, TransferBatch(from, rs), Started PROVE SupplyInv'
  <2> DEFINE g == [a \in Accounts |-> bal[a] + Credited(rs, a)]
             t == BatchTotal(rs)
             m == -(t + Credited(rs, from))
  <2>1. PositiveEntries(rs) /\ supply' = supply /\ UNCHANGED <<admin, pending>> BY <1>9 DEF TransferBatch
  <2>2. t \in Nat /\ Credited(rs, from) \in Nat BY <2>1, BatchSums
  <2>3. g \in [Accounts -> Int] /\ SumFunctionOnSet(g, Accounts) = Circulating + t BY <1>0, <2>1, BatchCredits
  <2>4. bal' = [g EXCEPT ![from] = @ + m]
    <3>1. bal' = [a \in Accounts |-> IF a = from THEN bal[a] - t ELSE g[a]] BY <1>9 DEF TransferBatch
    <3>2. g[from] + m = bal[from] - t BY <1>0, <2>2
    <3>3. \A a \in Accounts : a # from => g[a] = [g EXCEPT ![from] = @ + m][a] OBVIOUS
    <3> HIDE DEF t, m
    <3>4. g[from] + m = [g EXCEPT ![from] = @ + m][from] BY <2>3
    <3> HIDE DEF g
    <3>5. QED BY <2>3, <3>1, <3>2, <3>3, <3>4
  <2>5. m \in Int /\ t + m <= 0 /\ t \in Int BY <2>2
  <2> HIDE DEF g, t, m
  <2>6. SumFunctionOnSet(bal', Accounts) = SumFunctionOnSet(g, Accounts) + m BY <2>3, <2>4, <2>5, BalanceBump
  <2>7. Circulating' = Circulating + t + m BY <2>3, <2>6 DEF Circulating
  <2>8. QED BY <1>0, <1>2, <1>9, <1>s, <2>1, <2>5, <2>7
<1>10. ASSUME NEW k \in Pairs, NEW b \in Accounts, NEW x \in Amounts, TransferFrom(k, b, x), Took(k) PROVE SupplyInv'
  <2>1. k[1] \in Accounts OBVIOUS
  <2>2. Circulating' = Circulating BY <1>7, <1>10, <2>1 DEF TransferFrom
  <2>3. QED BY <1>0, <1>2, <1>10, <2>2 DEF TransferFrom, Took
<1>11. ASSUME NEW k \in Pairs, NEW x \in Amounts, BurnFrom(k, x), Took(k) PROVE SupplyInv'
  <2>1. k[1] \in Accounts OBVIOUS
  <2>2. QED BY <1>3, <1>11, <2>1 DEF BurnFrom, Took
<1>12. ASSUME NEW a \in Targets, NEW x \in Amounts, ConfiscateBlacklisted(a, x), Started PROVE SupplyInv'
  <2>1. treasury \in Accounts /\ a \in Accounts BY <1>12 DEF ConfiscateBlacklisted, TypeOK
  <2>2. bal' = Updated(Updated(bal, a, -x), treasury, x) BY <1>12 DEF ConfiscateBlacklisted
  <2>3. SumFunctionOnSet(Updated(Updated(bal, a, -x), treasury, x), Accounts) = SumFunctionOnSet(bal, Accounts)
    BY <1>0, <2>1, MovedBalances
  <2>4. Circulating' = Circulating BY <2>2, <2>3 DEF Circulating
  <2>5. QED BY <1>0, <1>2, <1>12, <1>s, <2>4 DEF ConfiscateBlacklisted
<1>13. ASSUME NEW a \in Admins, NEW c \in Caps, Initialize(a, c), Started PROVE SupplyInv'
  <2>1. Circulating' = Circulating BY <1>13 DEF Initialize, Circulating
  <2>2. supply' = 0 /\ admin' # None /\ startedWith' = Circulating BY <1>13 DEF Initialize, Started
  <2>3. QED BY <1>0, <2>1, <2>2 DEF SupplyInv, SupplyCoversBalances
<1>14. ASSUME UNCHANGED <<bal, supply, startedWith>>,
              (admin' = admin /\ pending' = pending) \/ (admin # None /\ admin' # None)
       PROVE SupplyInv'
  <2>1. Circulating' = Circulating BY <1>14 DEF Circulating
  <2>2. QED BY <1>0, <1>14, <2>1 DEF SupplyInv, SupplyCoversBalances
<1>15. ASSUME NEW k \in Pairs, NEW y, Grant(k, y),
              \/ \E x \in Amounts, e \in Expiries : Approve(k, x, e)
              \/ \E x \in Amounts : IncreaseAllowance(k, x) \/ DecreaseAllowance(k, x)
       PROVE SupplyInv'
  BY <1>14, <1>15 DEF Grant, Approve, IncreaseAllowance, DecreaseAllowance
<1>16. ASSUME AdminStep, Started PROVE SupplyInv'
  <2>1. ASSUME NEW a \in Admins, ProposeAdmin(a) \/ SetAdmin(a) PROVE SupplyInv'
    BY <1>14, <1>16, <1>s, <2>1 DEF ProposeAdmin, SetAdmin
  <2>2. CASE AcceptAdmin BY <1>0, <1>14, <1>16, <1>s, <2>2 DEF AcceptAdmin
  <2>3. CASE CancelAdminProposal BY <1>14, <1>16, <1>s, <2>3 DEF CancelAdminProposal
  <2>4. ASSUME UNCHANGED <<bal, supply, admin, pending>> PROVE SupplyInv' BY <1>14, <1>16, <1>s, <2>4
  <2>5. QED
    BY <1>12, <1>13, <1>16, <2>1, <2>2, <2>3, <2>4 DEF AdminStep, SetPaused, SetFrozen, SetBlacklisted,
       SetComplianceTreasury, SetTransferLock
<1>17. ASSUME Tick, Started PROVE SupplyInv' BY <1>14, <1>17, <1>s DEF Tick, LedgerCloses
<1>18. CASE UNCHANGED spendingVars BY <1>14, <1>18 DEF spendingVars, ghosts, vars
<1>19. ASSUME SupplyStep \/ TransferStep, Started PROVE SupplyInv'
  BY <1>4, <1>5, <1>6, <1>8, <1>9, <1>19 DEF SupplyStep, TransferStep
<1>20. QED BY <1>10, <1>11, <1>15, <1>16, <1>17, <1>18, <1>19 DEF SpendingNext

\* For amounts of any sign, no sequence of mints, batches, transfers, spends, burns
\* and confiscations creates balance that total_supply does not count, beyond what
\* circulated before initialize: a batch that names its sender destroys tokens the
\* supply still counts, never the reverse.
THEOREM SupplyAlwaysCovers == SpendingSpec => []SupplyCoversBalances
<1>1. SpendingInit => SupplyInv
  <2> SUFFICES ASSUME SpendingInit PROVE SupplyInv OBVIOUS
  <2>1. \A a \in Accounts : bal[a] = 0 BY DEF SpendingInit, Init
  <2>2. IsFiniteSet(Accounts) BY TokenAssumption
  <2>3. Circulating = 0 BY <2>1, <2>2, SumOfZeros DEF Circulating
  <2>4. supply = 0 /\ pending = None /\ startedWith = 0 BY DEF SpendingInit, Init
  <2>5. QED BY <2>3, <2>4 DEF SupplyInv, SupplyCoversBalances
<1>2. TypeOK /\ SupplyInv /\ [SpendingNext]_spendingVars => SupplyInv' BY SupplyInvStep
<1>3. SupplyInv => SupplyCoversBalances BY DEF SupplyInv
<1>4. QED BY <1>1, <1>2, <1>3, SpendingType, PTL DEF SpendingSpec

----
(* Who can lose tokens, and how.                                           *)

Lost(a) == bal[a] - bal'[a]

\* The three ways an account's balance goes down.
Paid(a) == \/ AdminBurn(a, Lost(a))
           \/ ConfiscateBlacklisted(a, Lost(a))
           \/ Unrestricted(a) /\ (~Locked(a) \/ supply' = supply - Lost(a))

\* A debit of x from b and a credit to c, in one step: only b loses, and x.
LEMMA OnePays ==
  ASSUME TypeOK, NEW b \in Accounts, NEW c \in Accounts, NEW x \in Int, x > 0,
         bal' = Updated(Updated(bal, b, -x), c, x), NEW a \in Accounts, bal'[a] < bal[a]
  PROVE  a = b /\ Lost(a) = x
  BY DEF TypeOK, Updated, Lost

\* A debit of x from b alone.
LEMMA OneBurns ==
  ASSUME TypeOK, NEW b \in Accounts, NEW x \in Int,
         bal' = Updated(bal, b, -x), NEW a \in Accounts, bal'[a] < bal[a]
  PROVE  a = b /\ Lost(a) = x
  BY DEF TypeOK, Updated, Lost

\* An account loses tokens to the admin, or through a call it is not barred from:
\* one that transfers only if it is not locked, or burns what it takes.
LEMMA Losses ==
  ASSUME TypeOK, Next, NEW a \in Accounts, bal'[a] < bal[a]
  PROVE  Paid(a)
<1> USE TokenAssumption
<1>1. ASSUME NEW b \in Accounts, NEW x \in Amounts, Mint(b, x) PROVE FALSE
  BY <1>1 DEF Mint, Updated, TypeOK
<1>2. ASSUME NEW b \in Accounts, NEW x \in Amounts, AdminBurn(b, x) PROVE Paid(a)
  <2>1. a = b /\ Lost(a) = x BY <1>2, OneBurns DEF AdminBurn
  <2>2. QED BY <1>2, <2>1 DEF Paid
<1>3. ASSUME NEW b \in Accounts, NEW x \in Amounts, Burn(b, x) PROVE Paid(a)
  <2>1. a = b /\ Lost(a) = x BY <1>3, OneBurns DEF Burn
  <2>2. QED BY <1>3, <2>1 DEF Paid, Burn
<1>4. ASSUME NEW rs \in Batches, BatchMint(rs) PROVE FALSE
  <2>1. Credited(rs, a) \in Nat BY <1>4, BatchSums DEF BatchMint
  <2>2. bal'[a] = bal[a] + Credited(rs, a) BY <1>4 DEF BatchMint
  <2>3. QED BY <2>1, <2>2 DEF TypeOK
<1>5. ASSUME NEW b \in Accounts, NEW c \in Accounts, NEW x \in Int, TransferImpl(b, c, x)
      PROVE a = b /\ ~Locked(b)
  <2>1. b # c /\ x > 0 /\ ~Locked(b) /\ bal' = Updated(Updated(bal, b, -x), c, x)
    BY <1>5 DEF TransferImpl, TypeOK
  <2>2. QED BY <2>1, OnePays
<1>6. ASSUME NEW b \in Accounts, NEW c \in Accounts, NEW x \in Amounts, Transfer(b, c, x)
      PROVE Paid(a)
  BY <1>5, <1>6 DEF Transfer, Paid
<1>7. ASSUME NEW b \in Accounts, NEW rs \in Batches, TransferBatch(b, rs) PROVE Paid(a)
  <2>1. Credited(rs, a) \in Nat BY <1>7, BatchSums DEF TransferBatch
  <2>2. a # b => bal'[a] = bal[a] + Credited(rs, a) BY <1>7 DEF TransferBatch
  <2>3. a = b BY <2>1, <2>2 DEF TypeOK
  <2>4. QED BY <1>7, <2>3 DEF TransferBatch, Paid
<1>8. ASSUME NEW k \in Pairs, NEW c \in Accounts, NEW x \in Amounts, TransferFrom(k, c, x)
      PROVE Paid(a)
  <2>1. k[1] \in Accounts OBVIOUS
  <2>2. QED BY <1>5, <1>8, <2>1 DEF TransferFrom, Paid
<1>9. ASSUME NEW k \in Pairs, NEW x \in Amounts, BurnFrom(k, x) PROVE Paid(a)
  <2>1. k[1] \in Accounts OBVIOUS
  <2>2. a = k[1] /\ Lost(a) = x BY <1>9, <2>1, OneBurns DEF BurnFrom
  <2>3. QED BY <1>9, <2>2 DEF BurnFrom, Paid
<1>10. ASSUME NEW b \in Targets, NEW x \in Amounts, ConfiscateBlacklisted(b, x) PROVE Paid(a)
  <2>1. treasury \in Accounts BY <1>10 DEF ConfiscateBlacklisted, TypeOK
  <2>2. a = b /\ Lost(a) = x BY <1>10, <2>1, OnePays DEF ConfiscateBlacklisted
  <2>3. QED BY <1>10, <2>2 DEF Paid
<1>11. ASSUME UNCHANGED bal PROVE FALSE BY <1>11 DEF TypeOK
<1>12. CASE SupplyStep BY <1>1, <1>2, <1>3, <1>4, <1>12 DEF SupplyStep
<1>13. CASE TransferStep BY <1>6, <1>7, <1>13 DEF TransferStep
<1>14. CASE SpendStep BY <1>8, <1>9, <1>14 DEF SpendStep
<1>15. CASE AllowanceStep
  BY <1>11, <1>15 DEF AllowanceStep, Approve, IncreaseAllowance, DecreaseAllowance
<1>16. CASE AdminStep
  BY <1>10, <1>11, <1>16 DEF AdminStep, Initialize, ProposeAdmin, SetAdmin, AcceptAdmin,
     CancelAdminProposal, SetPaused, SetFrozen, SetBlacklisted, SetComplianceTreasury,
     SetTransferLock
<1>17. CASE Tick BY <1>11, <1>17 DEF Tick, LedgerCloses
<1>18. QED BY <1>12, <1>13, <1>14, <1>15, <1>16, <1>17 DEF Next

\* A frozen or blacklisted account loses tokens to the admin only, whatever its
\* spenders and its own batches try.
THEOREM RestrictedAccountsHold == Spec => RestrictedHolds
<1>1. ASSUME TypeOK, [Next]_vars
      PROVE  [\A a \in frozen \cup blacklisted :
                LET lost == bal[a] - bal'[a] IN
                lost > 0 => AdminBurn(a, lost) \/ ConfiscateBlacklisted(a, lost)]_vars
  <2>1. SUFFICES ASSUME Next, NEW a \in frozen \cup blacklisted, Lost(a) > 0
                 PROVE  AdminBurn(a, Lost(a)) \/ ConfiscateBlacklisted(a, Lost(a))
    BY <1>1 DEF Lost
  <2>2. a \in Accounts BY <1>1 DEF TypeOK
  <2>3. Next => TypeOK' BY <1>1, StepType
  <2>4. bal'[a] < bal[a] BY <1>1, <2>1, <2>2, <2>3 DEF Lost, TypeOK
  <2>5. QED BY <1>1, <2>1, <2>2, <2>4, Losses DEF Paid, Unrestricted
<1>2. QED BY <1>1, TypeCorrect, PTL DEF Spec, RestrictedHolds

\* Tokens under a transfer lockup are burned, taken by the admin, or stay.
THEOREM LockedAccountsHold == Spec => LockedHolds
<1>1. ASSUME TypeOK, [Next]_vars
      PROVE  [\A a \in Accounts :
                LET lost == bal[a] - bal'[a] IN
                now <= lock[a] /\ lost > 0 =>
                    supply' = supply - lost \/ ConfiscateBlacklisted(a, lost)]_vars
  <2>1. SUFFICES ASSUME Next, NEW a \in Accounts, Locked(a), Lost(a) > 0
                 PROVE  supply' = supply - Lost(a) \/ ConfiscateBlacklisted(a, Lost(a))
    BY <1>1 DEF Lost, Locked
  <2>2. bal'[a] < bal[a] BY <1>1, <2>1, StepType DEF Lost, TypeOK
  <2>3. QED BY <1>1, <2>1, <2>2, Losses DEF Paid, AdminBurn
<1>2. QED BY <1>1, TypeCorrect, PTL DEF Spec, LockedHolds

\* Only an initialized token can be paused.
PausedKnown == paused => admin # None

\* No step leaves an uninitialized token paused.
LEMMA PausedKnownStep == ASSUME TypeOK, PausedKnown, [Next]_vars PROVE PausedKnown'
<1> USE TokenAssumption DEF PausedKnown
<1>1. ASSUME UNCHANGED <<paused, admin>> PROVE PausedKnown' BY <1>1
<1>2. CASE SupplyStep BY <1>1, <1>2 DEF SupplyStep, Mint, AdminBurn, Burn, BatchMint
<1>3. CASE TransferStep BY <1>1, <1>3 DEF TransferStep, Transfer, TransferBatch
<1>4. CASE SpendStep BY <1>1, <1>4 DEF SpendStep, TransferFrom, BurnFrom
<1>5. CASE AllowanceStep
  BY <1>1, <1>5 DEF AllowanceStep, Approve, IncreaseAllowance, DecreaseAllowance
<1>6. CASE AdminStep
  <2>1. admin' = admin \/ admin' # None
    BY <1>6 DEF AdminStep, Initialize, ProposeAdmin, SetAdmin, AcceptAdmin, CancelAdminProposal,
       SetPaused, SetFrozen, SetBlacklisted, SetComplianceTreasury, ConfiscateBlacklisted,
       SetTransferLock
  <2>2. UNCHANGED paused \/ admin # None
    BY <1>6 DEF AdminStep, Initialize, ProposeAdmin, SetAdmin, AcceptAdmin, CancelAdminProposal,
       SetPaused, SetFrozen, SetBlacklisted, SetComplianceTreasury, ConfiscateBlacklisted,
       SetTransferLock
  <2>3. QED BY <2>1, <2>2
<1>7. CASE Tick BY <1>1, <1>7 DEF Tick, LedgerCloses
<1>8. CASE UNCHANGED vars BY <1>1, <1>8 DEF vars
<1>9. QED BY <1>2, <1>3, <1>4, <1>5, <1>6, <1>7, <1>8 DEF Next

\* While paused, confiscation from a blacklisted account is the only thing that
\* moves balances, and nothing moves the supply.
THEOREM PausedTokenHolds == Spec => PausedHolds
<1> USE TokenAssumption
<1>1. Init => PausedKnown BY DEF Init, PausedKnown
<1>2. ASSUME TypeOK, PausedKnown, [Next]_vars
      PROVE  [paused /\ <<bal, supply>>' # <<bal, supply>> =>
                \E a \in blacklisted : bal'[a] < bal[a] /\ supply' = supply]_vars
  <2>1. SUFFICES ASSUME Next, paused, <<bal, supply>>' # <<bal, supply>>
                 PROVE  \E a \in blacklisted : bal'[a] < bal[a] /\ supply' = supply
    BY <1>2
  <2>2. ~SupplyStep BY <2>1 DEF SupplyStep, Mint, AdminBurn, Burn, BatchMint, Unrestricted
  <2>3. ~TransferStep BY <2>1 DEF TransferStep, Transfer, TransferBatch, Unrestricted
  <2>4. ~SpendStep BY <2>1 DEF SpendStep, TransferFrom, BurnFrom, Unrestricted
  <2>5. ~AllowanceStep
    BY <2>1 DEF AllowanceStep, Approve, IncreaseAllowance, DecreaseAllowance
  <2>6. ~Tick BY <2>1 DEF Tick, LedgerCloses
  <2>7. AdminStep BY <2>1, <2>2, <2>3, <2>4, <2>5, <2>6 DEF Next
  <2>8. PICK a \in Targets, x \in Amounts : ConfiscateBlacklisted(a, x)
    BY <1>2, <2>1, <2>7 DEF AdminStep, Initialize, ProposeAdmin, SetAdmin, AcceptAdmin,
       CancelAdminProposal, SetPaused, SetFrozen, SetBlacklisted, SetComplianceTreasury,
       SetTransferLock, PausedKnown
  <2>9. treasury \in Accounts /\ a \in Accounts /\ x \in Int /\ x > 0 /\ supply' = supply
        /\ bal' = Updated(Updated(bal, a, -x), treasury, x) /\ a \in blacklisted
    BY <1>2, <2>8 DEF ConfiscateBlacklisted, TypeOK
  <2>10. treasury # a
    <3>1. ASSUME treasury = a PROVE bal' = bal BY <1>2, <2>9, <3>1 DEF Updated, TypeOK
    <3>2. QED BY <2>1, <2>9, <3>1
  <2>11. bal'[a] < bal[a] BY <1>2, <2>9, <2>10 DEF Updated, TypeOK
  <2>12. QED BY <2>9, <2>11
<1>3. QED BY <1>1, <1>2, PausedKnownStep, TypeCorrect, PTL DEF Spec, PausedHolds

\* Frozen, blacklisted, locked and paused tokens stay put under any entry point.
THEOREM RestrictionsAlwaysBind == Spec => RestrictionsBind
  BY RestrictedAccountsHold, LockedAccountsHold, PausedTokenHolds DEF RestrictionsBind

----
(* Spending.                                                               *)

\* What was spent, plus whatever allowance is on file (expired or not), was granted,
\* but for the pairs whose spender has raised the allowance itself.
SpendInv ==
    /\ granted \in [Pairs -> Int] /\ spent \in [Pairs -> Int]
    /\ \A k \in Pairs \ selfRaised :
          spent[k] <= granted[k] /\ spent[k] + allow[k].amount <= granted[k]

\* A spender's call takes x or, when the recipient is the owner, nothing.
LEMMA TookAmount ==
  ASSUME TypeOK, NEW k \in Pairs, NEW x \in Amounts,
         BurnFrom(k, x) \/ \E b \in Accounts : TransferFrom(k, b, x)
  PROVE  bal[k[1]] - bal'[k[1]] \in {0, x}
<1> USE TokenAssumption
<1>1. k[1] \in Accounts /\ x \in Int OBVIOUS
<1>2. CASE BurnFrom(k, x) BY <1>1, <1>2 DEF BurnFrom, Updated, TypeOK
<1>3. ASSUME NEW b \in Accounts, TransferFrom(k, b, x) PROVE bal[k[1]] - bal'[k[1]] \in {0, x}
  BY <1>1, <1>3 DEF TransferFrom, TransferImpl, Updated, TypeOK
<1>4. QED BY <1>2, <1>3

\* Every step keeps what was spent, and what may still be spent, within the grants.
LEMMA SpendInvStep ==
  ASSUME TypeOK, SpendInv, [SpendingNext]_spendingVars
  PROVE  SpendInv'
<1> USE TokenAssumption
<1>a. ASSUME NEW k \in Pairs
      PROVE  /\ k \in Accounts \X Accounts
             /\ allow[k].amount \in Int /\ Active(k).amount \in Int
             /\ Active(k).amount = 0 \/ Active(k).amount = allow[k].amount
             /\ spent[k] \in Int /\ granted[k] \in Int
  BY <1>a, ActiveType, SMTT(60) DEF SpendInv, TypeOK, Expired, Allowances
<1>b. ASSUME NEW k \in Pairs \ selfRaised
      PROVE  spent[k] <= granted[k] /\ spent[k] + Active(k).amount <= granted[k]
  <2>1. k \in Pairs /\ k \notin selfRaised OBVIOUS
  <2>2. spent[k] <= granted[k] /\ spent[k] + allow[k].amount <= granted[k] BY <2>1 DEF SpendInv
  <2>3. /\ allow[k].amount \in Int /\ Active(k).amount \in Int /\ spent[k] \in Int /\ granted[k] \in Int
        /\ Active(k).amount = 0 \/ Active(k).amount = allow[k].amount
    BY <1>a, <2>1
  <2>4. QED BY <2>2, <2>3
<1>1. ASSUME NEW k \in Pairs, NEW y \in Int, NEW e, SetAllowance(k, y, e),
             UNCHANGED <<spent, selfRaised>>, granted' \in [Pairs -> Int],
             \A j \in Pairs \ {k} : granted'[j] = granted[j],
             k \notin selfRaised => spent[k] <= granted'[k] /\ spent[k] + y <= granted'[k]
      PROVE  SpendInv'
  <2>1. allow'[k].amount = y /\ \A j \in Pairs \ {k} : allow'[j] = allow[j]
    BY <1>1, <1>a DEF SetAllowance, TypeOK
  <2>2. ASSUME NEW j \in Pairs \ selfRaised
        PROVE  spent[j] <= granted'[j] /\ spent[j] + allow'[j].amount <= granted'[j]
    BY <1>1, <2>1, <2>2 DEF SpendInv
  <2>3. QED BY <1>1, <2>2 DEF SpendInv
<1>g. ASSUME NEW k \in Pairs, NEW x \in Int, Grant(k, x)
      PROVE  /\ granted' \in [Pairs -> Int] /\ granted'[k] >= granted[k] /\ granted'[k] >= granted[k] + x
             /\ \A j \in Pairs \ {k} : granted'[j] = granted[j]
             /\ UNCHANGED <<spent, selfRaised>>
  <2> DEFINE y == IF x > 0 THEN granted[k] + x ELSE granted[k]
  <2>1. granted[k] \in Int /\ granted \in [Pairs -> Int] BY <1>a DEF SpendInv
  <2>2. y \in Int /\ y >= granted[k] /\ y >= granted[k] + x BY <2>1
  <2>3. granted' = [granted EXCEPT ![k] = y] BY <1>g DEF Grant
  <2> HIDE DEF y
  <2>4. QED BY <1>g, <2>1, <2>2, <2>3 DEF Grant
<1>2. ASSUME NEW k \in Pairs, NEW x \in Amounts, NEW e \in Expiries, Approve(k, x, e), Grant(k, x)
      PROVE SpendInv'
  <2>1. x \in Int /\ SetAllowance(k, x, e) BY <1>2 DEF Approve
  <2>2. k \notin selfRaised => spent[k] <= granted'[k] /\ spent[k] + x <= granted'[k]
    BY <1>2, <1>a, <1>b, <1>g, <2>1
  <2>3. QED BY <1>1, <1>2, <1>g, <2>1, <2>2
<1>m. ASSUME NEW k \in Pairs, NEW x \in Int, Grant(k, x),
             SetAllowance(k, Active(k).amount + x, Active(k).expires)
      PROVE SpendInv'
  <2>1. Active(k).amount + x \in Int BY <1>a
  <2>2. k \notin selfRaised => spent[k] <= granted'[k] /\ spent[k] + (Active(k).amount + x) <= granted'[k]
    BY <1>m, <1>a, <1>b, <1>g
  <2>3. QED BY <1>1, <1>m, <1>g, <2>1, <2>2
<1>3. ASSUME NEW k \in Pairs, NEW x \in Amounts, IncreaseAllowance(k, x), Grant(k, x)
      PROVE SpendInv'
  BY <1>3, <1>m DEF IncreaseAllowance
<1>4. ASSUME NEW k \in Pairs, NEW x \in Amounts, DecreaseAllowance(k, x), Grant(k, -x)
      PROVE SpendInv'
  <2>1. -x \in Int /\ Active(k).amount - x = Active(k).amount + (-x) BY <1>a
  <2>2. SetAllowance(k, Active(k).amount + (-x), Active(k).expires)
    BY <1>4, <2>1 DEF DecreaseAllowance
  <2>3. QED BY <1>4, <1>m, <2>1, <2>2
<1>5. ASSUME NEW k \in Pairs, NEW x \in Amounts, Took(k), Deduct(k, x),
             selfRaised \subseteq selfRaised',
             bal[k[1]] - bal'[k[1]] = x \/ (bal[k[1]] - bal'[k[1]] = 0 /\ (x >= 0 \/ k \in selfRaised'))
      PROVE SpendInv'
  <2> DEFINE t == bal[k[1]] - bal'[k[1]]
  <2>1. x \in Int /\ t \in Int /\ x <= Active(k).amount
    <3>1. x \in Int /\ (t = 0 \/ t = x) BY <1>5
    <3>2. x <= Active(k).amount BY <1>5, <1>a DEF Deduct
    <3>3. QED BY <3>1, <3>2
  <2>2. spent' = [spent EXCEPT ![k] = @ + t]
    <3>1. bal[k[1]] \in Int /\ spent[k] \in Int BY <1>a DEF TypeOK, SpendInv
    <3>2. bal'[k[1]] \in Int BY StepType, SpendingIsNext, <1>a DEF TypeOK
    <3>3. spent[k] + bal[k[1]] - bal'[k[1]] = spent[k] + t BY <3>1, <3>2
    <3>4. QED BY <1>5, <3>3 DEF Took
  <2>3. /\ spent'[k] = spent[k] + t /\ allow'[k].amount = Active(k).amount - x
        /\ granted' = granted
        /\ \A j \in Pairs \ {k} : spent'[j] = spent[j] /\ allow'[j] = allow[j]
    BY <1>5, <1>a, <2>2 DEF Took, Deduct, TypeOK, SpendInv
  <2>4. spent' \in [Pairs -> Int] /\ granted' \in [Pairs -> Int] BY <2>1, <2>2, <2>3 DEF SpendInv
  <2>5. ASSUME k \notin selfRaised'
        PROVE  spent[k] + t <= granted[k] /\ spent[k] + t + (Active(k).amount - x) <= granted[k]
    <3>1. k \notin selfRaised /\ t <= x
      BY <1>5, <2>1, <2>5
    <3>2. (t = x \/ t = 0) BY <1>5
    <3>3. spent[k] <= granted[k] /\ spent[k] + Active(k).amount <= granted[k] BY <1>b, <3>1
    <3>4. QED BY <1>a, <2>1, <3>1, <3>2, <3>3
  <2> HIDE DEF t
  <2>6. ASSUME NEW j \in Pairs \ selfRaised'
        PROVE  spent'[j] <= granted'[j] /\ spent'[j] + allow'[j].amount <= granted'[j]
    <3>1. CASE j = k BY <2>3, <2>5, <2>6, <3>1
    <3>2. CASE j # k BY <1>5, <2>3, <2>6, <3>2 DEF SpendInv
    <3>3. QED BY <3>1, <3>2
  <2>7. QED BY <2>4, <2>6 DEF SpendInv
<1>6. ASSUME UNCHANGED <<allow, granted, spent, selfRaised>> PROVE SpendInv' BY <1>6 DEF SpendInv
<1>7. ASSUME NEW k \in Pairs, NEW b \in Accounts, NEW x \in Amounts, TransferFrom(k, b, x), Took(k),
             selfRaised' = IF x < 0 THEN selfRaised \cup {k} ELSE selfRaised
      PROVE SpendInv'
  <2>1. bal[k[1]] - bal'[k[1]] \in {0, x} BY <1>7, TookAmount
  <2>2. selfRaised \subseteq selfRaised' /\ (x >= 0 \/ k \in selfRaised') BY <1>7
  <2>3. QED BY <1>5, <1>7, <2>1, <2>2 DEF TransferFrom
<1>8. ASSUME NEW k \in Pairs, NEW x \in Amounts, BurnFrom(k, x), Took(k), UNCHANGED selfRaised
      PROVE SpendInv'
  <2>1. k[1] \in Accounts /\ x \in Int BY <1>a
  <2>2. bal[k[1]] - bal'[k[1]] = x BY <1>8, <2>1 DEF BurnFrom, Updated, TypeOK
  <2>3. QED BY <1>5, <1>8, <2>2 DEF BurnFrom
<1>9. CASE UNCHANGED spendingVars BY <1>6, <1>9 DEF spendingVars, ghosts, vars
<1>10. CASE (SupplyStep \/ TransferStep \/ AdminStep \/ Tick) /\ Started
  BY <1>6, <1>10 DEF Started, SupplyStep, Mint, AdminBurn, Burn, BatchMint, TransferStep, Transfer,
     TransferBatch, AdminStep, Initialize, ProposeAdmin, SetAdmin, AcceptAdmin,
     CancelAdminProposal, SetPaused, SetFrozen, SetBlacklisted, SetComplianceTreasury,
     ConfiscateBlacklisted, SetTransferLock, Tick, LedgerCloses
<1>11. QED BY <1>2, <1>3, <1>4, <1>7, <1>8, <1>9, <1>10 DEF SpendingNext

\* For amounts of any sign a spender never takes more on balance than it was granted,
\* however approvals, increases, decreases, expiries and spends interleave, unless it
\* has raised its allowance by a negative transfer_from of the owner to itself.
THEOREM NobodyOverspends == SpendingSpec => []NoOverspend
<1>1. SpendingInit => SpendInv
  BY TokenAssumption DEF SpendingInit, Init, SpendInv, Expired
<1>2. SpendInv => NoOverspend BY DEF SpendInv, NoOverspend
<1>3. QED BY <1>1, <1>2, SpendInvStep, SpendingType, PTL DEF SpendingSpec

\* For amounts of any sign, whatever a spender takes comes out of an approval that
\* has not expired.
THEOREM SpendsAreUnexpired == SpendingSpec => SpendsUnexpired
<1> USE TokenAssumption
<1> DEFINE HistType == granted \in [Pairs -> Int] /\ spent \in [Pairs -> Int]
<1>1. SpendingInit => HistType BY DEF SpendingInit
<1>2. ASSUME TypeOK, HistType, [SpendingNext]_spendingVars
      PROVE  /\ HistType'
             /\ [\A k \in Pairs : spent'[k] > spent[k] => now <= allow[k].expires]_spendingVars
  <2>1. CASE UNCHANGED spent /\ granted' \in [Pairs -> Int] BY <1>2, <2>1
  <2>2. ASSUME NEW k \in Pairs, NEW x \in Int, Grant(k, x)
        PROVE  UNCHANGED spent /\ granted' \in [Pairs -> Int]
    BY <1>2, <2>2 DEF Grant
  <2>3. ASSUME NEW k \in Pairs, NEW x \in Amounts, Took(k), Deduct(k, x),
               bal[k[1]] - bal'[k[1]] \in {0, x}
        PROVE  /\ HistType'
               /\ \A j \in Pairs : spent'[j] > spent[j] => now <= allow[j].expires
    <3> DEFINE t == bal[k[1]] - bal'[k[1]]
    <3>1. k \in Accounts \X Accounts /\ k[1] \in Accounts /\ spent[k] \in Int /\ x \in Int
      BY <1>2
    <3>2. bal[k[1]] \in Int /\ bal'[k[1]] \in Int
      BY <1>2, <3>1, StepType, SpendingIsNext DEF TypeOK
    <3>3. t \in Int /\ spent[k] + bal[k[1]] - bal'[k[1]] = spent[k] + t BY <3>1, <3>2
    <3>4. spent' = [spent EXCEPT ![k] = spent[k] + t] BY <2>3, <3>3 DEF Took
    <3>5. HistType' BY <1>2, <2>3, <3>1, <3>3, <3>4 DEF Took
    <3>6. spent[k] + t > spent[k] => x > 0 BY <2>3, <3>1, <3>3
    <3>7. x > 0 => Active(k).amount > 0 BY <1>2, <2>3, <3>1, ActiveType DEF Deduct
    <3>8. Active(k).amount > 0 => now <= allow[k].expires
      BY <1>2, <3>1 DEF Active, Expired
    <3>9. QED BY <1>2, <3>1, <3>3, <3>4, <3>5, <3>6, <3>7, <3>8
  <2>4. ASSUME NEW k \in Pairs, NEW b \in Accounts, NEW x \in Amounts, TransferFrom(k, b, x), Took(k)
        PROVE  HistType' /\ \A j \in Pairs : spent'[j] > spent[j] => now <= allow[j].expires
    BY <1>2, <2>3, <2>4, TookAmount DEF TransferFrom
  <2>5. ASSUME NEW k \in Pairs, NEW x \in Amounts, BurnFrom(k, x), Took(k)
        PROVE  HistType' /\ \A j \in Pairs : spent'[j] > spent[j] => now <= allow[j].expires
    BY <1>2, <2>3, <2>5, TookAmount DEF BurnFrom
  <2>6. CASE UNCHANGED <<granted, spent>> BY <1>2, <2>1, <2>6
  <2>7. ASSUME NEW x \in Amounts PROVE x \in Int /\ -x \in Int OBVIOUS
  <2>8. QED BY <1>2, <2>1, <2>2, <2>4, <2>5, <2>6, <2>7 DEF SpendingNext, Started, spendingVars, ghosts
<1>3. QED BY <1>1, <1>2, SpendingType, PTL DEF SpendingSpec, SpendsUnexpired

----
(* Permits.                                                                *)

\* The permits applied so far for one owner.
UsedBy(o) == {p \in applied : p.owner = o}

\* The records a permit's life leaves behind, and one applied permit per nonce.
PermitInv ==
  /\ nonce \in [Owners -> Nat]
  /\ cancelled \in [Owners -> SUBSET Nat]
  /\ applied \subseteq Permits /\ IsFiniteSet(applied)
  /\ PermitsAppliedOnce

\* A signed approval is counted under the owner's next nonce.
LEMMA ApproveWithSignatureInv ==
  ASSUME PermitInv, NEW p \in Permits, ApproveWithSignature(p)
  PROVE  PermitInv'
<1> DEFINE w == p.owner
<1>1. /\ nonce \in [Owners -> Nat] /\ applied \subseteq Permits /\ IsFiniteSet(applied)
      /\ cancelled \in [Owners -> SUBSET Nat]
  BY DEF PermitInv
<1>2. \A o \in Owners : Cardinality(UsedBy(o)) = nonce[o] /\ {q.nonce : q \in UsedBy(o)} = 0..(nonce[o] - 1)
  BY DEF PermitInv, PermitsAppliedOnce, UsedBy
<1>3. /\ p.nonce = nonce[w] /\ nonce' = [nonce EXCEPT ![w] = @ + 1] /\ applied' = applied \cup {p}
      /\ UNCHANGED cancelled
  BY DEF ApproveWithSignature, NonceCurrent
<1>4. w \in Owners BY DEF Owners
<1>5. nonce' \in [Owners -> Nat] BY <1>1, <1>3, <1>4
<1>6. applied' \subseteq Permits /\ IsFiniteSet(applied') BY <1>1, <1>3, FS_AddElement
<1>7. ASSUME NEW o \in Owners
      PROVE  Cardinality(UsedBy(o)') = nonce'[o] /\ {q.nonce : q \in UsedBy(o)'} = 0..(nonce'[o] - 1)
  <2>1. CASE o # w
    <3>1. UsedBy(o)' = UsedBy(o) BY <1>3, <2>1 DEF UsedBy
    <3>2. nonce'[o] = nonce[o] BY <1>1, <1>3, <2>1
    <3>3. QED BY <1>2, <3>1, <3>2
  <2>2. CASE o = w
    <3>1. UsedBy(o)' = UsedBy(o) \cup {p} BY <1>3, <2>2 DEF UsedBy
    <3>2. nonce[o] \in Nat /\ nonce'[o] = nonce[o] + 1 /\ p.nonce = nonce[o] BY <1>1, <1>3, <1>4, <2>2
    <3>3. p.nonce \notin 0..(nonce[o] - 1) BY <3>2
    <3>4. p \notin UsedBy(o) BY <1>2, <3>3
    <3>5. IsFiniteSet(UsedBy(o))
      <4>1. UsedBy(o) \in SUBSET applied BY DEF UsedBy
      <4>2. QED BY <1>1, <4>1, FS_Subset
    <3>6. Cardinality(UsedBy(o) \cup {p}) = nonce[o] + 1 BY <1>2, <3>4, <3>5, FS_AddElement
    <3>7. {q.nonce : q \in UsedBy(o) \cup {p}} = {q.nonce : q \in UsedBy(o)} \cup {p.nonce} OBVIOUS
    <3>8. 0..(nonce[o] - 1) \cup {p.nonce} = 0..((nonce[o] + 1) - 1) BY <3>2
    <3>9. {q.nonce : q \in UsedBy(o) \cup {p}} = 0..(nonce'[o] - 1) BY <1>2, <3>2, <3>7, <3>8
    <3>10. QED BY <3>1, <3>2, <3>6, <3>9
  <2>3. QED BY <2>1, <2>2
<1>8. PermitsAppliedOnce' BY <1>7 DEF PermitsAppliedOnce, UsedBy
<1>9. QED BY <1>1, <1>3, <1>5, <1>6, <1>8 DEF PermitInv

\* So does every step.
LEMMA PermitInvStep == ASSUME PermitInv, [PermitNext]_permitAllVars PROVE PermitInv'
<1>1. ASSUME UNCHANGED <<nonce, applied>>, cancelled' \in [Owners -> SUBSET Nat] PROVE PermitInv'
  BY <1>1 DEF PermitInv, PermitsAppliedOnce
<1>2. ASSUME UNCHANGED <<nonce, applied, cancelled>> PROVE PermitInv' BY <1>1, <1>2 DEF PermitInv
<1>3. CASE \E o \in Owners, key \in Keys : SetPermitSigner(o, key) BY <1>2, <1>3 DEF SetPermitSigner
<1>4. ASSUME NEW o \in Owners, NEW n \in Nonces, CancelPermitNonce(o, n) PROVE PermitInv'
  <2>1. n \in Nat BY PermitAssumption DEF Nonces
  <2>2. cancelled \in [Owners -> SUBSET Nat] BY DEF PermitInv
  <2>3. cancelled' = [cancelled EXCEPT ![o] = @ \cup {n}] /\ UNCHANGED <<nonce, applied>>
    BY <1>4 DEF CancelPermitNonce
  <2>4. cancelled' \in [Owners -> SUBSET Nat] BY <2>1, <2>2, <2>3
  <2>5. QED BY <1>1, <2>3, <2>4
<1>5. CASE Next /\ UNCHANGED permitVars BY <1>2, <1>5 DEF permitVars
<1>6. CASE UNCHANGED permitAllVars BY <1>2, <1>6 DEF permitAllVars, permitVars
<1>7. QED BY <1>3, <1>4, <1>5, <1>6, ApproveWithSignatureInv DEF PermitNext

\* The invariant holds of the permits in every reachable state.
LEMMA PermitInvAlways == PermitSpec => []PermitInv
<1>1. PermitInit => PermitInv
  <2> SUFFICES ASSUME PermitInit PROVE PermitInv OBVIOUS
  <2>1. nonce = [o \in Owners |-> 0] /\ cancelled = [o \in Owners |-> {}] /\ applied = {} BY DEF PermitInit
  <2>2. Cardinality({}) = 0 /\ IsFiniteSet({}) BY FS_EmptySet
  <2>3. 0..(0 - 1) = {} OBVIOUS
  <2>4. ASSUME NEW o \in Owners
        PROVE  Cardinality({p \in applied : p.owner = o}) = nonce[o]
               /\ {p.nonce : p \in {p \in applied : p.owner = o}} = 0..(nonce[o] - 1)
    <3>1. {p \in applied : p.owner = o} = {} /\ nonce[o] = 0 BY <2>1
    <3>2. {p.nonce : p \in {p \in applied : p.owner = o}} = {} BY <3>1
    <3>3. QED BY <2>2, <2>3, <3>1, <3>2
  <2>5. PermitsAppliedOnce BY <2>4 DEF PermitsAppliedOnce
  <2>6. QED BY <2>1, <2>2, <2>5 DEF PermitInv
<1>2. QED BY <1>1, PermitInvStep, PTL DEF PermitSpec

\* However signed messages are submitted, repeated, cancelled and re-keyed, an
\* owner's nonce counts distinct permits, one for each nonce below it.
THEOREM PermitsApplyOnce == PermitSpec => []PermitsAppliedOnce
<1>1. PermitInv => PermitsAppliedOnce BY DEF PermitInv
<1>2. QED BY <1>1, PermitInvAlways, PTL

\* A permit cancelled before it was used never takes effect, and blocks every
\* later one of the same owner.
THEOREM CancelledPermitsStayCancelled == PermitSpec => RevokedStaysRevoked
<1>1. ASSUME PermitInv, [PermitNext]_permitAllVars
      PROVE  [\A o \in Owners : \A n \in cancelled[o] :
                (\A p \in applied : p.owner = o => p.nonce # n)
                    => (\A p \in applied' : p.owner = o => p.nonce < n \/ p \in applied)]_permitAllVars
  <2> SUFFICES ASSUME PermitNext, NEW o \in Owners, NEW n \in cancelled[o],
                      \A p \in applied : p.owner = o => p.nonce # n,
                      NEW p \in applied', p.owner = o, p \notin applied
               PROVE  p.nonce < n
    BY <1>1
  <2>1. ASSUME applied' = applied PROVE FALSE BY <2>1
  <2>2. CASE \E q \in Permits : ApproveWithSignature(q)
    <3>1. p \in Permits /\ ApproveWithSignature(p)
      <4>1. PICK q \in Permits : ApproveWithSignature(q) BY <2>2
      <4>2. applied' = applied \cup {q} BY <4>1 DEF ApproveWithSignature
      <4>3. p = q BY <4>2
      <4>4. QED BY <4>1, <4>3
    <3>2. p.nonce = nonce[o] /\ p.nonce \notin cancelled[o] BY <3>1 DEF ApproveWithSignature, NonceCurrent, NonceOpen
    <3>3. nonce[o] \in Nat /\ n \in Nat BY <1>1 DEF PermitInv
    <3>4. {q.nonce : q \in UsedBy(o)} = 0..(nonce[o] - 1) BY <1>1 DEF PermitInv, PermitsAppliedOnce, UsedBy
    <3>5. n \notin {q.nonce : q \in UsedBy(o)} BY DEF UsedBy
    <3>6. n # nonce[o] /\ n \notin 0..(nonce[o] - 1) BY <3>2, <3>4, <3>5
    <3>7. nonce[o] < n BY <3>3, <3>6
    <3>8. QED BY <3>2, <3>7
  <2>3. QED
    BY <2>1, <2>2 DEF PermitNext, SetPermitSigner, CancelPermitNonce, permitVars
<1>2. QED BY <1>1, PermitInvAlways, PTL DEF PermitSpec, RevokedStaysRevoked

----
(* Snapshots.                                                              *)

\* An entry of an account's history, and a history in the order of its ledgers.
Entries == [ledger : Ledgers, balance : Int]
Sorted(h) == \A i, j \in DOMAIN h : i < j => h[i].ledger < h[j].ledger

\* The body of the search loop as an equation, and what it is meant to compute.
Probes(h, ledger, f) ==
  f = [w \in (0..Len(h)) \X (0..Len(h)) |->
         IF w[1] >= w[2] THEN None
         ELSE LET mid == w[1] + (w[2] - w[1]) \div 2
                  e   == h[mid + 1]
              IN  CASE e.ledger < ledger -> f[<<mid + 1, w[2]>>]
                    [] e.ledger > ledger -> f[<<w[1], mid>>]
                    [] OTHER -> e.balance]
Found(h, ledger, lo, hi, x) ==
  \/ \E i \in (lo + 1)..hi : h[i].ledger = ledger /\ x = h[i].balance
  \/ (\A i \in (lo + 1)..hi : h[i].ledger # ledger) /\ x = None

\* One turn of the loop looks at mid and goes on with the half that matters.
Halves(h, ledger, lo, hi, mid) ==
  /\ mid \in lo..(hi - 1) /\ mid \in 0..Len(h) /\ mid + 1 \in 0..Len(h)
  /\ h[mid + 1].ledger \in Nat
  /\ \A x : h[mid + 1].ledger < ledger => (Found(h, ledger, lo, hi, x) <=> Found(h, ledger, mid + 1, hi, x))
  /\ \A x : h[mid + 1].ledger > ledger => (Found(h, ledger, lo, hi, x) <=> Found(h, ledger, lo, mid, x))
  /\ \A x : h[mid + 1].ledger = ledger => (Found(h, ledger, lo, hi, x) <=> x = h[mid + 1].balance)

\* Halving the interval [lo, hi) of a sorted history finds what a scan of it finds.
LEMMA Halving ==
  ASSUME NEW h \in Seq(Entries), Sorted(h), NEW ledger \in Nat,
         NEW lo \in 0..Len(h), NEW hi \in 0..Len(h), lo < hi,
         NEW mid, mid = lo + (hi - lo) \div 2
  PROVE  Halves(h, ledger, lo, hi, mid)
<1>1. Len(h) \in Nat /\ DOMAIN h = 1..Len(h) OBVIOUS
<1>2. mid \in lo..(hi - 1) /\ mid \in Int BY <1>1
<1>3. mid + 1 \in 1..Len(h) /\ mid \in 0..Len(h) /\ mid + 1 \in 0..Len(h) BY <1>1, <1>2
<1>4. ASSUME NEW i \in 1..Len(h) PROVE h[i].ledger \in Nat
  <2>1. h[i] \in Entries BY <1>1, <1>4
  <2>2. QED BY <2>1, SnapshotAssumption DEF Entries
<1>5. ASSUME NEW i \in 1..Len(h), NEW j \in 1..Len(h), i < j PROVE h[i].ledger < h[j].ledger
  BY <1>1, <1>5 DEF Sorted
<1>6. ASSUME NEW i \in (lo + 1)..hi PROVE i \in 1..Len(h) BY <1>1
<1>7. ASSUME NEW x, h[mid + 1].ledger < ledger PROVE Found(h, ledger, lo, hi, x) <=> Found(h, ledger, mid + 1, hi, x)
  <2>1. ASSUME NEW i \in (lo + 1)..hi, h[i].ledger = ledger PROVE i \in ((mid + 1) + 1)..hi
    <3>1. ~(i <= mid + 1)
      <4>1. SUFFICES ASSUME i <= mid + 1 PROVE FALSE OBVIOUS
      <4>2. i = mid + 1 \/ i < mid + 1 BY <1>2, <4>1
      <4>3. h[i].ledger <= h[mid + 1].ledger BY <1>3, <1>4, <1>5, <1>6, <4>2
      <4>4. QED BY <1>3, <1>4, <1>7, <2>1, <4>3
    <3>2. QED BY <1>2, <3>1
  <2>2. \A i \in ((mid + 1) + 1)..hi : i \in (lo + 1)..hi BY <1>2
  <2>3. QED BY <2>1, <2>2 DEF Found
<1>8. ASSUME NEW x, h[mid + 1].ledger > ledger PROVE Found(h, ledger, lo, hi, x) <=> Found(h, ledger, lo, mid, x)
  <2>1. ASSUME NEW i \in (lo + 1)..hi, h[i].ledger = ledger PROVE i \in (lo + 1)..mid
    <3>1. ~(i >= mid + 1)
      <4>1. SUFFICES ASSUME i >= mid + 1 PROVE FALSE OBVIOUS
      <4>2. i = mid + 1 \/ mid + 1 < i BY <1>2, <4>1
      <4>3. h[mid + 1].ledger <= h[i].ledger BY <1>3, <1>4, <1>5, <1>6, <4>2
      <4>4. QED BY <1>3, <1>4, <1>8, <2>1, <4>3, SMTT(60)
    <3>2. QED BY <1>2, <3>1
  <2>2. \A i \in (lo + 1)..mid : i \in (lo + 1)..hi BY <1>2
  <2>3. QED BY <2>1, <2>2 DEF Found
<1>9. ASSUME NEW x, h[mid + 1].ledger = ledger PROVE Found(h, ledger, lo, hi, x) <=> x = h[mid + 1].balance
  <2>1. mid + 1 \in (lo + 1)..hi BY <1>2
  <2>2. ASSUME NEW i \in (lo + 1)..hi, h[i].ledger = ledger PROVE i = mid + 1
    <3>1. i \in 1..Len(h) BY <1>6
    <3>2. ~(i < mid + 1) /\ ~(mid + 1 < i) BY <1>3, <1>4, <1>5, <1>9, <2>2, <3>1
    <3>3. QED BY <1>3, <3>1, <3>2
  <2>3. QED BY <1>9, <2>1, <2>2 DEF Found
<1>10. h[mid + 1].ledger \in Nat BY <1>3, <1>4
<1>11. QED BY <1>2, <1>3, <1>7, <1>8, <1>9, <1>10 DEF Halves

\* A loop on a sorted history computes what a scan finds, from every interval.
LEMMA ProbeFinds ==
  ASSUME NEW h \in Seq(Entries), Sorted(h), NEW ledger \in Nat, NEW f, Probes(h, ledger, f)
  PROVE  \A lo, hi \in 0..Len(h) : Found(h, ledger, lo, hi, f[<<lo, hi>>])
<1> DEFINE D == {n \in Nat : \A lo, hi \in 0..Len(h) : hi - lo <= n => Found(h, ledger, lo, hi, f[<<lo, hi>>])}
<1>1. Len(h) \in Nat OBVIOUS
<1>2. ASSUME NEW lo \in 0..Len(h), NEW hi \in 0..Len(h), lo >= hi PROVE Found(h, ledger, lo, hi, f[<<lo, hi>>])
  <2>1. f[<<lo, hi>>] = None BY <1>2 DEF Probes
  <2>2. (lo + 1)..hi = {} BY <1>1, <1>2
  <2>3. QED BY <2>1, <2>2 DEF Found
<1>3. 0 \in D
  <2>1. ASSUME NEW lo \in 0..Len(h), NEW hi \in 0..Len(h), hi - lo <= 0 PROVE lo >= hi BY <1>1, <2>1
  <2>2. QED BY <1>2, <2>1
<1>4. ASSUME NEW n \in Nat, n \in D PROVE n + 1 \in D
  <2>1. ASSUME NEW lo \in 0..Len(h), NEW hi \in 0..Len(h), hi - lo <= n + 1 PROVE Found(h, ledger, lo, hi, f[<<lo, hi>>])
    <3>1. CASE lo < hi
      <4> DEFINE mid == lo + (hi - lo) \div 2
      <4>1. f[<<lo, hi>>] = CASE h[mid + 1].ledger < ledger -> f[<<mid + 1, hi>>]
                          [] h[mid + 1].ledger > ledger -> f[<<lo, mid>>]
                          [] OTHER -> h[mid + 1].balance
        <5>1. ~(lo >= hi) BY <1>1, <3>1
        <5>2. QED BY <5>1 DEF Probes
      <4>m. mid = lo + (hi - lo) \div 2 OBVIOUS
      <4> HIDE DEF mid
      <4>2. /\ mid \in lo..(hi - 1) /\ mid \in 0..Len(h) /\ mid + 1 \in 0..Len(h) /\ h[mid + 1].ledger \in Nat
            /\ h[mid + 1].ledger < ledger => (Found(h, ledger, lo, hi, f[<<lo, hi>>]) <=> Found(h, ledger, mid + 1, hi, f[<<lo, hi>>]))
            /\ h[mid + 1].ledger > ledger => (Found(h, ledger, lo, hi, f[<<lo, hi>>]) <=> Found(h, ledger, lo, mid, f[<<lo, hi>>]))
            /\ h[mid + 1].ledger = ledger => (Found(h, ledger, lo, hi, f[<<lo, hi>>]) <=> f[<<lo, hi>>] = h[mid + 1].balance)
        <5>1. Halves(h, ledger, lo, hi, mid) BY <3>1, <4>m, Halving
        <5>2. QED BY <5>1 DEF Halves
      <4>3. hi - (mid + 1) <= n /\ mid - lo <= n BY <1>1, <2>1, <4>2, SMTT(60)
      <4>4. Found(h, ledger, mid + 1, hi, f[<<mid + 1, hi>>]) /\ Found(h, ledger, lo, mid, f[<<lo, mid>>]) BY <1>4, <4>2, <4>3
      <4>5. CASE h[mid + 1].ledger < ledger
        <5>1. ~(h[mid + 1].ledger > ledger) BY <4>2, <4>5
        <5>2. f[<<lo, hi>>] = f[<<mid + 1, hi>>] BY <4>1, <4>5, <5>1
        <5>3. QED BY <4>2, <4>4, <4>5, <5>2
      <4>6. CASE h[mid + 1].ledger > ledger
        <5>1. ~(h[mid + 1].ledger < ledger) BY <4>2, <4>6
        <5>2. f[<<lo, hi>>] = f[<<lo, mid>>] BY <4>1, <4>6, <5>1
        <5>3. QED BY <4>2, <4>4, <4>6, <5>2
      <4>7. CASE h[mid + 1].ledger = ledger
        <5>1. ~(h[mid + 1].ledger < ledger) /\ ~(h[mid + 1].ledger > ledger) BY <4>2, <4>7
        <5>2. f[<<lo, hi>>] = h[mid + 1].balance BY <4>1, <5>1
        <5>3. QED BY <4>2, <4>7, <5>2
      <4>8. QED BY <4>2, <4>5, <4>6, <4>7
    <3>2. QED BY <1>1, <1>2, <3>1
  <2>2. QED BY <2>1
<1>5. \A n \in Nat : n \in D
  <2> HIDE DEF D
  <2>1. QED BY <1>3, <1>4, NumberInduction
<1>6. ASSUME NEW lo \in 0..Len(h), NEW hi \in 0..Len(h) PROVE Found(h, ledger, lo, hi, f[<<lo, hi>>])
  <2>1. Len(h) \in D /\ hi - lo <= Len(h) BY <1>1, <1>5
  <2>2. QED BY <2>1
<1>7. QED BY <1>6

\* The loop has a value: a scan is one solution of its equation.
LEMMA ProbeExists ==
  ASSUME NEW h \in Seq(Entries), Sorted(h), NEW ledger \in Nat
  PROVE  \E f : Probes(h, ledger, f)
<1> DEFINE Scan(lo, hi) == CHOOSE x : Found(h, ledger, lo, hi, x)
           s == [w \in (0..Len(h)) \X (0..Len(h)) |-> Scan(w[1], w[2])]
           Body(lo, hi) == IF lo >= hi THEN None
                           ELSE LET mid == lo + (hi - lo) \div 2
                                    e   == h[mid + 1]
                                IN  CASE e.ledger < ledger -> s[<<mid + 1, hi>>]
                                      [] e.ledger > ledger -> s[<<lo, mid>>]
                                      [] OTHER -> e.balance
           body == [w \in (0..Len(h)) \X (0..Len(h)) |-> Body(w[1], w[2])]
<1>1. Len(h) \in Nat OBVIOUS
<1>2. ASSUME NEW lo \in 0..Len(h), NEW hi \in 0..Len(h)
      PROVE  s[<<lo, hi>>] = Body(lo, hi)
  <2>1. CASE lo >= hi
    <3>1. (lo + 1)..hi = {} BY <1>1, <2>1
    <3>2. \A x : Found(h, ledger, lo, hi, x) <=> x = None BY <3>1 DEF Found
    <3>3. Scan(lo, hi) = None BY <3>2
    <3>4. QED BY <2>1, <3>3
  <2>2. CASE ~(lo >= hi)
    <3> DEFINE mid == lo + (hi - lo) \div 2
    <3>0. lo < hi /\ mid = lo + (hi - lo) \div 2 BY <1>1, <2>2
    <3> HIDE DEF mid
    <3>1. /\ mid \in 0..Len(h) /\ mid + 1 \in 0..Len(h) /\ h[mid + 1].ledger \in Nat
          /\ \A x : h[mid + 1].ledger < ledger => (Found(h, ledger, lo, hi, x) <=> Found(h, ledger, mid + 1, hi, x))
          /\ \A x : h[mid + 1].ledger > ledger => (Found(h, ledger, lo, hi, x) <=> Found(h, ledger, lo, mid, x))
          /\ \A x : h[mid + 1].ledger = ledger => (Found(h, ledger, lo, hi, x) <=> x = h[mid + 1].balance)
      <4>1. Halves(h, ledger, lo, hi, mid) BY <3>0, Halving
      <4>2. QED BY <4>1 DEF Halves
    <3>2. s[<<lo, hi>>] = Scan(lo, hi) /\ s[<<mid + 1, hi>>] = Scan(mid + 1, hi) /\ s[<<lo, mid>>] = Scan(lo, mid) BY <3>1
    <3>3. s[<<lo, hi>>] = CASE h[mid + 1].ledger < ledger -> s[<<mid + 1, hi>>]
                        [] h[mid + 1].ledger > ledger -> s[<<lo, mid>>]
                        [] OTHER -> h[mid + 1].balance
      <4>1. CASE h[mid + 1].ledger < ledger
        <5>1. Scan(lo, hi) = Scan(mid + 1, hi) BY <3>1, <4>1
        <5>2. ~(h[mid + 1].ledger > ledger) BY <3>1, <4>1
        <5> HIDE DEF s, Scan
        <5>3. QED BY <3>2, <4>1, <5>1, <5>2
      <4>2. CASE h[mid + 1].ledger > ledger
        <5>1. Scan(lo, hi) = Scan(lo, mid) BY <3>1, <4>2
        <5>2. ~(h[mid + 1].ledger < ledger) BY <3>1, <4>2
        <5> HIDE DEF s, Scan
        <5>3. QED BY <3>2, <4>2, <5>1, <5>2
      <4>3. CASE h[mid + 1].ledger = ledger
        <5>1. \A x : Found(h, ledger, lo, hi, x) <=> x = h[mid + 1].balance BY <3>1, <4>3
        <5>2. Scan(lo, hi) = h[mid + 1].balance BY <5>1
        <5>3. ~(h[mid + 1].ledger < ledger) /\ ~(h[mid + 1].ledger > ledger) BY <3>1, <4>3
        <5> HIDE DEF s, Scan
        <5>4. QED BY <3>2, <5>2, <5>3
      <4>4. QED BY <3>1, <4>1, <4>2, <4>3
    <3> HIDE DEF s
    <3>4. QED BY <2>2, <3>3 DEF mid
  <2>3. QED BY <2>1, <2>2
<1>3. s = body
  <2>1. ASSUME NEW w \in (0..Len(h)) \X (0..Len(h)) PROVE s[w] = body[w]
    <3>1. w = <<w[1], w[2]>> /\ w[1] \in 0..Len(h) /\ w[2] \in 0..Len(h) OBVIOUS
    <3>2. body[w] = Body(w[1], w[2]) OBVIOUS
    <3> HIDE DEF s, body, Body
    <3>3. QED BY <1>2, <3>1, <3>2
  <2>2. s = [w \in (0..Len(h)) \X (0..Len(h)) |-> s[w]] OBVIOUS
  <2>3. body = [w \in (0..Len(h)) \X (0..Len(h)) |-> body[w]] OBVIOUS
  <2> HIDE DEF s, body
  <2>4. QED BY <2>1, <2>2, <2>3
<1>4. Probes(h, ledger, s) BY <1>3 DEF Probes
<1>5. QED BY <1>4

\* balance_at's binary search of a history in ledger order returns the balance
\* filed under the ledger asked for, and nothing when there is none.
LEMMA SearchFinds ==
  ASSUME NEW h \in Seq(Entries), Sorted(h), NEW ledger \in Nat
  PROVE  Found(h, ledger, 0, Len(h), Search(h, ledger))
<1> DEFINE f == CHOOSE f : Probes(h, ledger, f)
<1>1. Probes(h, ledger, f) BY ProbeExists
<1>2. Search(h, ledger) = f[<<0, Len(h)>>] BY DEF Search, Probes
<1> HIDE DEF f
<1>3. Len(h) \in Nat OBVIOUS
<1>4. \A lo, hi \in 0..Len(h) : Found(h, ledger, lo, hi, f[<<lo, hi>>]) BY <1>1, ProbeFinds
<1>5. 0 \in 0..Len(h) /\ Len(h) \in 0..Len(h) BY <1>3
<1>6. QED BY <1>2, <1>4, <1>5

\* A scan of a sorted history finds one thing.
LEMMA FoundOnce ==
  ASSUME NEW h \in Seq(Entries), Sorted(h), NEW ledger \in Nat, NEW x, NEW y,
         Found(h, ledger, 0, Len(h), x), Found(h, ledger, 0, Len(h), y)
  PROVE  x = y
<1>1. Len(h) \in Nat /\ DOMAIN h = 1..Len(h) /\ (0 + 1)..Len(h) = 1..Len(h) OBVIOUS
<1>2. ASSUME NEW i \in 1..Len(h), NEW j \in 1..Len(h), h[i].ledger = ledger, h[j].ledger = ledger PROVE i = j
  <2>1. ~(i < j) /\ ~(j < i) BY <1>1, <1>2 DEF Sorted
  <2>2. QED BY <2>1
<1>3. QED BY <1>1, <1>2 DEF Found

\* A history holds what the per-ledger keys hold, in the order of its ledgers,
\* none of them later than the current one.
SnapshotInv ==
  /\ snapshot \in [Accounts \X Ledgers -> Int \cup {None}]
  /\ history \in [Accounts -> Seq(Entries)]
  /\ \A a \in Accounts : Sorted(history[a])
  /\ \A a \in Accounts : \A i \in DOMAIN history[a] : history[a][i].ledger <= now
  /\ \A a \in Accounts, l \in Ledgers : Found(history[a], l, 0, Len(history[a]), snapshot[<<a, l>>])

\* Filing a snapshot under the current ledger extends the history at its end.
LEMMA SnapshotInvKept ==
  ASSUME TypeOK, SnapshotInv, NEW a \in Accounts, NEW l \in Ledgers, Punctual(a, l), Snapshot(a, l)
  PROVE  SnapshotInv'
<1> DEFINE h == history[a]
           n == Len(h)
           e == [ledger |-> l, balance |-> bal[a]]
           k == Append(h, e)
<1>1. /\ snapshot \in [Accounts \X Ledgers -> Int \cup {None}] /\ history \in [Accounts -> Seq(Entries)]
      /\ \A b \in Accounts : Sorted(history[b])
      /\ \A b \in Accounts : \A i \in DOMAIN history[b] : history[b][i].ledger <= now
      /\ \A b \in Accounts, m \in Ledgers : Found(history[b], m, 0, Len(history[b]), snapshot[<<b, m>>])
  BY DEF SnapshotInv
<1>2. /\ snapshot' = [snapshot EXCEPT ![<<a, l>>] = bal[a]] /\ history' = [history EXCEPT ![a] = k]
      /\ now' = now /\ l = now /\ snapshot[<<a, l>>] = None
  BY DEF Snapshot, Punctual, vars
<1>3. bal[a] \in Int /\ now \in Nat BY DEF TypeOK
<1>4. h \in Seq(Entries) /\ e \in Entries BY <1>1, <1>3 DEF Entries
<1>5. n \in Nat /\ DOMAIN h = 1..n BY <1>4
<1>6. /\ k \in Seq(Entries) /\ Len(k) = n + 1 /\ DOMAIN k = 1..(n + 1) /\ k[n + 1] = e
      /\ \A i \in 1..n : k[i] = h[i]
  <2> HIDE DEF h, e
  <2>1. QED BY <1>4, <1>5, AppendProperties
<1>7. \A i \in 1..n : h[i] \in Entries
  <2> HIDE DEF h
  <2>1. QED BY <1>4, <1>5
<1>8. \A i \in 1..n : h[i].ledger \in Nat /\ h[i].balance \in Int BY <1>7, SnapshotAssumption DEF Entries
<1>9. e.ledger = l /\ e.balance = bal[a] /\ l \in Nat BY SnapshotAssumption
<1>10. (0 + 1)..n = 1..n /\ (0 + 1)..(n + 1) = 1..(n + 1) OBVIOUS
<1> HIDE DEF h, k, e, n
<1>11. \A i \in 1..n : h[i].ledger # l
  <2>1. Found(h, l, 0, n, None) BY <1>1, <1>2 DEF h, n
  <2>2. None \notin Int BY TokenAssumption
  <2>3. QED BY <1>8, <1>10, <2>1, <2>2 DEF Found
<1>12. \A i \in 1..n : h[i].ledger < l
  <2>1. \A i \in 1..n : h[i].ledger <= now BY <1>1, <1>5 DEF h
  <2>2. QED BY <1>2, <1>3, <1>8, <1>11, <2>1
<1>13. history' \in [Accounts -> Seq(Entries)] BY <1>1, <1>2, <1>6
<1>14. snapshot' \in [Accounts \X Ledgers -> Int \cup {None}] BY <1>1, <1>2, <1>3
<1>15. history'[a] = k /\ \A b \in Accounts : b # a => history'[b] = history[b] BY <1>1, <1>2
<1>16. Sorted(k)
  <2>1. ASSUME NEW i \in 1..(n + 1), NEW j \in 1..(n + 1), i < j PROVE k[i].ledger < k[j].ledger
    <3>1. i \in 1..n BY <1>5, <2>1
    <3>2. CASE j = n + 1 BY <1>6, <1>9, <1>12, <3>1, <3>2
    <3>3. CASE j \in 1..n
      <4>1. Sorted(h) BY <1>1 DEF h
      <4>2. h[i].ledger < h[j].ledger BY <1>5, <2>1, <3>1, <3>3, <4>1 DEF Sorted
      <4>3. QED BY <1>6, <3>1, <3>3, <4>2
    <3>4. QED BY <1>5, <3>2, <3>3
  <2>2. QED BY <1>6, <2>1 DEF Sorted
<1>17. \A i \in 1..(n + 1) : k[i].ledger <= now
  <2>1. ASSUME NEW i \in 1..(n + 1) PROVE k[i].ledger <= now
    <3>1. CASE i = n + 1 BY <1>2, <1>3, <1>6, <1>9, <3>1
    <3>2. CASE i \in 1..n BY <1>1, <1>5, <1>6, <3>2 DEF h
    <3>3. QED BY <1>5, <3>1, <3>2
  <2>2. QED BY <2>1
<1>18. ASSUME NEW m \in Ledgers PROVE Found(k, m, 0, n + 1, snapshot'[<<a, m>>])
  <2>1. CASE m = l
    <3>1. snapshot'[<<a, m>>] = bal[a] BY <1>1, <1>2, <2>1
    <3>2. n + 1 \in 1..(n + 1) BY <1>5
    <3>3. k[n + 1].ledger = m /\ snapshot'[<<a, m>>] = k[n + 1].balance BY <1>6, <1>9, <2>1, <3>1
    <3>4. QED BY <1>10, <3>2, <3>3 DEF Found
  <2>2. CASE m # l
    <3>1. <<a, m>> # <<a, l>> /\ <<a, m>> \in Accounts \X Ledgers BY <2>2
    <3>2. snapshot'[<<a, m>>] = snapshot[<<a, m>>] BY <1>1, <1>2, <3>1
    <3>3. Found(h, m, 0, n, snapshot[<<a, m>>]) BY <1>1 DEF h, n
    <3>4. k[n + 1].ledger # m BY <1>6, <1>9, <2>2
    <3>5. \A i \in 1..(n + 1) : i = n + 1 \/ i \in 1..n BY <1>5
    <3>6. \A i \in 1..n : i \in 1..(n + 1) BY <1>5
    <3>7. CASE \E i \in 1..n : h[i].ledger = m /\ snapshot[<<a, m>>] = h[i].balance
      BY <1>6, <1>10, <3>2, <3>6, <3>7 DEF Found
    <3>8. CASE (\A i \in 1..n : h[i].ledger # m) /\ snapshot[<<a, m>>] = None
      BY <1>6, <1>10, <3>2, <3>4, <3>5, <3>8 DEF Found
    <3>9. QED BY <1>10, <3>3, <3>7, <3>8 DEF Found
  <2>3. QED BY <2>1, <2>2
<1>19. ASSUME NEW b \in Accounts, NEW m \in Ledgers, b # a
       PROVE  Found(history'[b], m, 0, Len(history'[b]), snapshot'[<<b, m>>])
  <2>1. <<b, m>> # <<a, l>> /\ <<b, m>> \in Accounts \X Ledgers BY <1>19
  <2>2. snapshot'[<<b, m>>] = snapshot[<<b, m>>] BY <1>1, <1>2, <2>1
  <2>3. QED BY <1>1, <1>15, <1>19, <2>2
<1>20. \A b \in Accounts, m \in Ledgers : Found(history'[b], m, 0, Len(history'[b]), snapshot'[<<b, m>>])
  BY <1>6, <1>15, <1>18, <1>19
<1>21. \A b \in Accounts : Sorted(history'[b]) BY <1>1, <1>15, <1>16
<1>22. \A b \in Accounts : \A i \in DOMAIN history'[b] : history'[b][i].ledger <= now'
  BY <1>1, <1>2, <1>6, <1>15, <1>17
<1>23. QED
  <2>1. (\A b \in Accounts : Sorted(history[b]))' BY <1>21 DEF Sorted
  <2>2. (\A b \in Accounts, m \in Ledgers : Found(history[b], m, 0, Len(history[b]), snapshot[<<b, m>>]))' BY <1>20 DEF Found
  <2>3. QED BY <1>13, <1>14, <1>22, <2>1, <2>2 DEF SnapshotInv

\* Time only grows.
LEMMA ClockGrows == ASSUME TypeOK, Next PROVE now <= now' /\ now' \in Nat
<1> USE DEF TypeOK
<1>1. CASE SupplyStep BY <1>1 DEF SupplyStep, Mint, AdminBurn, Burn, BatchMint
<1>2. CASE TransferStep BY <1>2 DEF TransferStep, Transfer, TransferBatch
<1>3. CASE SpendStep BY <1>3 DEF SpendStep, TransferFrom, BurnFrom
<1>4. CASE AllowanceStep BY <1>4 DEF AllowanceStep, Approve, IncreaseAllowance, DecreaseAllowance
<1>5. CASE AdminStep
  BY <1>5 DEF AdminStep, Initialize, ProposeAdmin, SetAdmin, AcceptAdmin, CancelAdminProposal, SetPaused,
     SetFrozen, SetBlacklisted, SetComplianceTreasury, ConfiscateBlacklisted, SetTransferLock
<1>6. CASE Tick BY <1>6 DEF Tick, LedgerCloses
<1>7. QED BY <1>1, <1>2, <1>3, <1>4, <1>5, <1>6 DEF Next

\* So does every other step.
LEMMA SnapshotInvStep ==
  ASSUME TypeOK, SnapshotInv, [PunctualNext]_snapshotAllVars
  PROVE  SnapshotInv'
<1>1. ASSUME UNCHANGED snapshotVars, now <= now', now' \in Nat PROVE SnapshotInv'
  <2>1. snapshot' = snapshot /\ history' = history BY <1>1 DEF snapshotVars
  <2>2. ASSUME NEW b \in Accounts, NEW i \in DOMAIN history[b] PROVE history[b][i].ledger <= now'
    <3>1. history[b] \in Seq(Entries) /\ history[b][i].ledger <= now BY DEF SnapshotInv
    <3>2. history[b][i] \in Entries BY <3>1
    <3>3. history[b][i].ledger \in Nat /\ now \in Nat BY <3>2, SnapshotAssumption DEF Entries, TypeOK
    <3>4. QED BY <1>1, <3>1, <3>3
  <2>3. QED BY <2>1, <2>2 DEF SnapshotInv, Sorted, Found
<1>2. CASE Next /\ UNCHANGED snapshotVars BY <1>1, <1>2, ClockGrows
<1>3. CASE UNCHANGED snapshotAllVars BY <1>1, <1>3 DEF snapshotAllVars, vars, TypeOK
<1>4. QED BY <1>2, <1>3, SnapshotInvKept DEF PunctualNext

\* When callers file each snapshot under the ledger it is taken in, balance_at
\* answers every question as the per-ledger keys would, whatever the histories.
THEOREM BalanceAtIsRight == PunctualSpec => []BalanceAtAgrees
<1>1. SnapshotInit => TypeOK /\ SnapshotInv
  <2> SUFFICES ASSUME SnapshotInit PROVE TypeOK /\ SnapshotInv OBVIOUS
  <2>1. TypeOK BY InitType DEF SnapshotInit
  <2>2. snapshot = [k \in Accounts \X Ledgers |-> None] /\ history = [a \in Accounts |-> <<>>] BY DEF SnapshotInit
  <2>3. ASSUME NEW a \in Accounts
        PROVE  history[a] = <<>> /\ history[a] \in Seq(Entries) /\ DOMAIN history[a] = {} /\ Len(history[a]) = 0
    BY <2>2
  <2>4. history \in [Accounts -> Seq(Entries)] BY <2>2, <2>3
  <2>5. ASSUME NEW a \in Accounts, NEW l \in Ledgers PROVE Found(history[a], l, 0, Len(history[a]), snapshot[<<a, l>>])
    <3>1. (0 + 1)..0 = {} /\ snapshot[<<a, l>>] = None BY <2>2
    <3>2. QED BY <2>3, <3>1 DEF Found
  <2>6. snapshot \in [Accounts \X Ledgers -> Int \cup {None}] BY <2>2
  <2>7. QED BY <2>1, <2>3, <2>4, <2>5, <2>6 DEF SnapshotInv, Sorted
<1>2. TypeOK /\ [PunctualNext]_snapshotAllVars => TypeOK'
  <2>1. PunctualNext \/ UNCHANGED snapshotAllVars => [Next]_vars
    BY DEF PunctualNext, Snapshot, snapshotAllVars
  <2>2. QED BY <2>1, StepType
<1>3. SnapshotInv => BalanceAtAgrees
  <2> SUFFICES ASSUME SnapshotInv, NEW a \in Accounts, NEW l \in Ledgers PROVE BalanceAt(a, l) = snapshot[<<a, l>>]
    BY DEF BalanceAtAgrees
  <2>1. /\ history[a] \in Seq(Entries) /\ Sorted(history[a]) /\ l \in Nat
        /\ Found(history[a], l, 0, Len(history[a]), snapshot[<<a, l>>])
    BY SnapshotAssumption DEF SnapshotInv
  <2>2. Found(history[a], l, 0, Len(history[a]), Search(history[a], l)) BY <2>1, SearchFinds
  <2>3. Search(history[a], l) = snapshot[<<a, l>>] BY <2>1, <2>2, FoundOnce
  <2>4. QED BY <2>3 DEF BalanceAt
<1>4. QED BY <1>1, <1>2, <1>3, SnapshotInvStep, PTL DEF PunctualSpec
====
