---- MODULE ServicesProofs ----
(***************************************************************************)
(* Proofs about the service contracts: the wrapped token, the airdrop, the *)
(* subscriptions and the oracle.                                           *)
(***************************************************************************)
EXTENDS WrappedToken, Airdrop, Subscription, Oracle, FoldLemmas, SequenceTheorems

----
(* Wrapped token.                                                          *)

WrappedTyped ==
    /\ tax \in Nat /\ shortBatch \in BOOLEAN /\ wrapper \in WrapTerms
    /\ wrappedBal \in [Wrappers -> Int] /\ totalWrapped \in Int /\ reserve \in Int

WrappedInv == WrappedTyped /\ WrappedBacked

HeldByWrappers == SumFunctionOnSet(wrappedBal, Wrappers)

\* The wrapped balances add up to a number.
LEMMA WrapperSums ==
    ASSUME NEW f \in [Wrappers -> Int]
    PROVE  SumFunctionOnSet(f, Wrappers) \in Int
BY WrappedTokenAssumption, SumBasics

\* The sum of the balances follows one of them.
LEMMA WrapperBump ==
    ASSUME NEW f, \A v \in Wrappers : f[v] \in Int, NEW g, NEW u \in Wrappers, NEW d \in Int,
           g[u] = f[u] + d, \A v \in Wrappers : v # u => g[v] = f[v]
    PROVE  SumFunctionOnSet(g, Wrappers) = SumFunctionOnSet(f, Wrappers) + d
<1>1. IsFiniteSet(Wrappers) BY WrappedTokenAssumption
<1>2. QED BY <1>1, SumBump

\* One user's wrapped tokens change, and the total with them.
LEMMA WrappedMove ==
    ASSUME WrappedTyped, NEW u \in Wrappers, NEW d \in Int, wrappedBal' = [wrappedBal EXCEPT ![u] = @ + d]
    PROVE  wrappedBal' \in [Wrappers -> Int] /\ SumFunctionOnSet(wrappedBal', Wrappers) = SumFunctionOnSet(wrappedBal, Wrappers) + d
<1>1. wrappedBal \in [Wrappers -> Int] BY DEF WrappedTyped
<1>2. /\ wrappedBal' \in [Wrappers -> Int] /\ wrappedBal'[u] = wrappedBal[u] + d
      /\ \A v \in Wrappers : v # u => wrappedBal'[v] = wrappedBal[v]
  BY <1>1
<1>3. \A v \in Wrappers : wrappedBal[v] \in Int BY <1>1
<1>4. SumFunctionOnSet(wrappedBal', Wrappers) = SumFunctionOnSet(wrappedBal, Wrappers) + d BY <1>2, <1>3, WrapperBump, ZenonT(60)
<1>5. QED BY <1>2, <1>4

\* The entries of a batch that leaves something after the fee.
LEMMA BatchNet ==
    ASSUME NEW batch \in Seq(Wrappers \X Int), NEW bps \in Nat, Splits(batch, bps)
    PROVE  /\ IsFiniteSet(DOMAIN batch)
           /\ \A i \in DOMAIN batch : /\ batch[i][1] \in Wrappers /\ batch[i][2] \in Nat
                                      /\ batch[i][2] - FeeOf(batch[i][2], bps) \in Nat
<1>1. DOMAIN batch = 1..Len(batch) /\ Len(batch) \in Nat OBVIOUS
<1>2. IsFiniteSet(DOMAIN batch) BY <1>1, FS_Interval
<1>3. ASSUME NEW i \in DOMAIN batch
      PROVE  batch[i][1] \in Wrappers /\ batch[i][2] \in Nat /\ batch[i][2] - FeeOf(batch[i][2], bps) \in Nat
  <2>1. batch[i] \in Wrappers \X Int BY <1>1
  <2>2. batch[i][2] > 0 /\ batch[i][2] > FeeOf(batch[i][2], bps) BY DEF Splits
  <2>3. batch[i][1] \in Wrappers /\ batch[i][2] \in Int BY <2>1
  <2>4. FeeOf(batch[i][2], bps) \in Int
    <3>1. batch[i][2] * bps \in Int BY <2>3
    <3>2. QED BY <3>1, WrappedTokenAssumption DEF FeeOf
  <2>5. QED BY <2>2, <2>3, <2>4
<1>4. QED BY <1>2, <1>3

\* wrap_batch mints what it took, unless the token kept a tax.
LEMMA WrapBatchInv ==
    ASSUME WrappedInv, NEW u \in Wrappers, NEW batch \in WrapBatches, WrapBatch(u, batch)
    PROVE  WrappedInv'
<1> DEFINE bps == wrapper.wrapFee
           S == DOMAIN batch
           e == [i \in S |-> batch[i][2] - FeeOf(batch[i][2], bps)]
           net == SumFunctionOnSet(e, S)
           who == [i \in S |-> batch[i][1]]
           to == [v \in Wrappers |-> {i \in S : batch[i][1] = v}]
           share == [v \in Wrappers |-> SumFunctionOnSet(e, to[v])]
<1>0. WrappedTyped /\ WrappedBacked BY DEF WrappedInv
<1>1. batch \in Seq(Wrappers \X Int) /\ bps \in Nat BY <1>0, WrappedTokenAssumption DEF WrappedTyped
<1>2. /\ Splits(batch, bps)
      /\ reserve' = reserve + Arrives(net)
      /\ wrappedBal' = [v \in Wrappers |-> wrappedBal[v] + share[v]]
      /\ totalWrapped' = totalWrapped + net
      /\ shortBatch' = (shortBatch \/ tax > 0)
      /\ tax' = tax /\ wrapper' = wrapper
  BY DEF WrapBatch, SumOf, ShareOf, Each, wrapAdminVars
<1>3. IsFiniteSet(S) /\ \A i \in S : batch[i][1] \in Wrappers /\ e[i] \in Nat BY <1>1, <1>2, BatchNet
<1>4. (\A i \in S : e[i] \in Int /\ who[i] \in Wrappers) BY <1>3
<1>5. /\ \A v \in Wrappers : to[v] \subseteq S /\ \A i \in S : i \in to[v] <=> who[i] = v
      /\ \A v \in Wrappers : share[v] = SumFunctionOnSet(e, to[v])
  OBVIOUS
<1>6. \A v \in Wrappers : share[v] \in Int
  <2>1. ASSUME NEW v \in Wrappers PROVE share[v] \in Int
    <3>1. IsFiniteSet(to[v]) /\ \A i \in to[v] : e[i] \in Int BY <1>3, FS_Subset
    <3> HIDE DEF to, e
    <3>2. QED BY <3>1, SumBasics
  <2>2. QED BY <2>1
<1> HIDE DEF S, e, who, to, share
<1>7. net \in Nat BY <1>3, SumNat
<1>8. SumFunctionOnSet(share, Wrappers) = net
  <2>1. IsFiniteSet(Wrappers) BY WrappedTokenAssumption
  <2>2. QED BY <1>3, <1>4, <1>5, <2>1, SumByKey
<1> HIDE DEF net, bps
<1>9. /\ wrappedBal \in [Wrappers -> Int] /\ totalWrapped \in Int /\ reserve \in Int /\ tax \in Nat /\ shortBatch \in BOOLEAN
      /\ totalWrapped = HeldByWrappers /\ (~shortBatch => reserve = totalWrapped)
  BY <1>0 DEF WrappedTyped, WrappedBacked, HeldByWrappers
<1>10. wrappedBal' \in [Wrappers -> Int] /\ \A v \in Wrappers : wrappedBal[v] \in Int /\ wrappedBal'[v] = wrappedBal[v] + share[v]
  BY <1>2, <1>6, <1>9
<1>11. SumFunctionOnSet(wrappedBal', Wrappers) = HeldByWrappers + net
  BY <1>6, <1>8, <1>10, WrappedTokenAssumption, SumPlus DEF HeldByWrappers
<1>12. Arrives(net) \in Nat /\ (tax = 0 => Arrives(net) = net) BY <1>7, <1>9 DEF Arrives
<1>13. totalWrapped' \in Int /\ reserve' \in Int BY <1>2, <1>7, <1>9, <1>12
<1>14. shortBatch' \in BOOLEAN BY <1>2, <1>9
<1>15. ASSUME ~shortBatch' PROVE reserve' = totalWrapped'
  <2>1. ~shortBatch /\ ~(tax > 0) BY <1>2, <1>15
  <2>2. tax = 0 BY <1>9, <2>1
  <2>3. QED BY <1>2, <1>9, <1>12, <2>1, <2>2
<1>16. totalWrapped' = SumFunctionOnSet(wrappedBal', Wrappers) BY <1>2, <1>9, <1>11
<1>17. WrappedBacked' BY <1>15, <1>16 DEF WrappedBacked
<1>18. WrappedTyped' BY <1>0, <1>2, <1>10, <1>13, <1>14 DEF WrappedTyped
<1>19. QED BY <1>17, <1>18 DEF WrappedInv

\* A change of the total that the reserve and one user share.
LEMMA WrappedShift ==
    ASSUME WrappedInv, NEW u \in Wrappers, NEW d \in Int, wrappedBal' = [wrappedBal EXCEPT ![u] = @ + d],
           totalWrapped' = totalWrapped + d, reserve' = reserve + d, UNCHANGED <<tax, wrapper, shortBatch>>
    PROVE  WrappedInv'
<1>0. WrappedTyped /\ WrappedBacked BY DEF WrappedInv
<1>1. /\ totalWrapped = SumFunctionOnSet(wrappedBal, Wrappers) /\ (~shortBatch => reserve = totalWrapped)
      /\ totalWrapped \in Int /\ reserve \in Int /\ wrapper \in WrapTerms /\ tax \in Nat
  BY <1>0 DEF WrappedTyped, WrappedBacked
<1>2. shortBatch' \in BOOLEAN BY <1>0 DEF WrappedTyped
<1>3. wrappedBal' \in [Wrappers -> Int] /\ SumFunctionOnSet(wrappedBal', Wrappers) = SumFunctionOnSet(wrappedBal, Wrappers) + d
  BY <1>0, WrappedMove
<1>4. totalWrapped' \in Int /\ reserve' \in Int BY <1>1
<1>5. totalWrapped' = SumFunctionOnSet(wrappedBal', Wrappers) BY <1>1, <1>3
<1>6. ~shortBatch' => reserve' = totalWrapped' BY <1>1
<1>7. QED BY <1>1, <1>2, <1>3, <1>4, <1>5, <1>6 DEF WrappedInv, WrappedTyped, WrappedBacked

\* unwrap_batch burns what it pays.
LEMMA UnwrapBatchInv ==
    ASSUME WrappedInv, NEW u \in Wrappers, NEW batch \in WrapBatches, UnwrapBatch(u, batch)
    PROVE  WrappedInv'
<1> DEFINE S == DOMAIN batch
           e == [i \in S |-> batch[i][2]]
           gross == SumFunctionOnSet(e, S)
           m == -gross
<1>0. WrappedTyped BY DEF WrappedInv
<1>1. batch \in Seq(Wrappers \X Int) /\ wrapper.unwrapFee \in Nat BY <1>0, WrappedTokenAssumption DEF WrappedTyped
<1>2. /\ Splits(batch, wrapper.unwrapFee)
      /\ wrappedBal' = [wrappedBal EXCEPT ![u] = @ - gross]
      /\ reserve' = reserve - gross /\ totalWrapped' = totalWrapped - gross
      /\ UNCHANGED <<tax, wrapper, shortBatch>>
  BY DEF UnwrapBatch, SumOf, Each, wrapAdminVars
<1>3. IsFiniteSet(S) /\ \A i \in S : e[i] \in Nat BY <1>1, <1>2, BatchNet
<1> HIDE DEF S, e
<1>4. gross \in Nat BY <1>3, SumNat
<1> HIDE DEF gross
<1>5. m \in Int BY <1>4
<1>6. reserve' = reserve + m /\ totalWrapped' = totalWrapped + m /\ wrappedBal' = [wrappedBal EXCEPT ![u] = @ + m]
  <2>1. wrappedBal[u] \in Int /\ totalWrapped \in Int /\ reserve \in Int BY <1>0 DEF WrappedTyped
  <2>2. wrappedBal[u] - gross = wrappedBal[u] + m BY <1>4, <2>1
  <2>3. reserve - gross = reserve + m /\ totalWrapped - gross = totalWrapped + m BY <1>4, <2>1
  <2>4. QED BY <1>2, <2>2, <2>3
<1> HIDE DEF m
<1>7. QED BY <1>2, <1>5, <1>6, WrappedShift

\* wrap mints what arrived, less the fee.
LEMMA WrapInv ==
    ASSUME WrappedInv, NEW u \in Wrappers, NEW x \in WrapAmounts, NEW r \in Reserves, Wrap(u, x, r)
    PROVE  WrappedInv'
<1>0. tax \in Nat /\ x \in Int BY WrappedTokenAssumption DEF WrappedInv, WrappedTyped
<1>1. Arrives(x) \in Int BY <1>0 DEF Arrives
<1>2. /\ wrappedBal' = [wrappedBal EXCEPT ![u] = @ + Arrives(x)]
      /\ totalWrapped' = totalWrapped + Arrives(x) /\ reserve' = reserve + Arrives(x)
      /\ UNCHANGED <<tax, wrapper, shortBatch>>
  BY DEF Wrap, ActualReceived, wrapAdminVars
<1>3. QED BY <1>1, <1>2, WrappedShift

\* unwrap burns what it pays.
LEMMA UnwrapInv ==
    ASSUME WrappedInv, NEW u \in Wrappers, NEW x \in WrapAmounts, Unwrap(u, x)
    PROVE  WrappedInv'
<1> DEFINE m == -x
<1>0. wrappedBal[u] \in Int /\ totalWrapped \in Int /\ reserve \in Int /\ x \in Int
  BY WrappedTokenAssumption DEF WrappedInv, WrappedTyped
<1>1. /\ wrappedBal' = [wrappedBal EXCEPT ![u] = @ - x]
      /\ totalWrapped' = totalWrapped - x /\ reserve' = reserve - x
      /\ UNCHANGED <<tax, wrapper, shortBatch>>
  BY DEF Unwrap, wrapAdminVars
<1>2. wrappedBal[u] - x = wrappedBal[u] + m /\ totalWrapped - x = totalWrapped + m /\ reserve - x = reserve + m /\ m \in Int
  BY <1>0
<1>3. wrappedBal' = [wrappedBal EXCEPT ![u] = @ + m] /\ totalWrapped' = totalWrapped + m /\ reserve' = reserve + m
  BY <1>1, <1>2
<1> HIDE DEF m
<1>4. QED BY <1>1, <1>2, <1>3, WrappedShift

\* Everything the invariant looks at.
wrappedBooks == <<tax, wrapper, shortBatch, wrappedBal, totalWrapped, reserve>>

\* Steps that touch neither balances, supply nor reserve.
LEMMA WrappedQuiet == ASSUME WrappedInv, UNCHANGED wrappedBooks PROVE WrappedInv'
<1>1. UNCHANGED <<tax, wrapper, shortBatch, wrappedBal, totalWrapped, reserve>> BY DEF wrappedBooks
<1>2. WrappedTyped' BY <1>1 DEF WrappedInv, WrappedTyped
<1>3. WrappedBacked' BY <1>1 DEF WrappedInv, WrappedBacked
<1>4. QED BY <1>2, <1>3 DEF WrappedInv

\* Every step of the wrapped token keeps the invariant.
LEMMA WrappedInduction == WrappedInv /\ [WrappedNext]_wrappedVars => WrappedInv'
<1> SUFFICES ASSUME WrappedInv, [WrappedNext]_wrappedVars PROVE WrappedInv' OBVIOUS
<1>1. CASE InitializeWrapper BY <1>1, WrappedQuiet DEF InitializeWrapper, wrapMoneyVars, wrappedBooks
<1>2. CASE \E w, u \in BOOLEAN : SetWrapPauses(w, u) BY <1>2, WrappedQuiet DEF SetWrapPauses, wrapMoneyVars, wrappedBooks
<1>3. CASE \E m \in MinAmounts : SetMinAmount(m) BY <1>3, WrappedQuiet DEF SetMinAmount, wrapMoneyVars, wrappedBooks
<1>4. CASE \E r \in RateLimits : SetUnwrapRateLimit(r) BY <1>4, WrappedQuiet DEF SetUnwrapRateLimit, wrapMoneyVars, wrappedBooks
<1>5. CASE \E on \in BOOLEAN : SetUnwrapRateLimitPaused(on)
  BY <1>5, WrappedQuiet DEF SetUnwrapRateLimitPaused, wrapMoneyVars, wrappedBooks
<1>6. CASE \E on \in BOOLEAN : SetPorOracle(on) BY <1>6, WrappedQuiet DEF SetPorOracle, wrapMoneyVars, wrappedBooks
<1>7. CASE \E u \in Wrappers, b \in WrapBatches : WrapBatch(u, b) BY <1>7, WrapBatchInv
<1>8. CASE \E u \in Wrappers, b \in WrapBatches : UnwrapBatch(u, b) BY <1>8, UnwrapBatchInv
<1>9. CASE \E u \in Wrappers, x \in WrapAmounts, r \in Reserves : Wrap(u, x, r) BY <1>9, WrapInv
<1>10. CASE \E u \in Wrappers, x \in WrapAmounts : Unwrap(u, x) BY <1>10, UnwrapInv
<1>11. CASE LedgerCloses /\ UNCHANGED wrappedOnlyVars
  BY <1>11, WrappedQuiet DEF wrappedOnlyVars, wrapAdminVars, wrapMoneyVars, wrappedBooks
<1>12. CASE UNCHANGED wrappedVars
  BY <1>12, WrappedQuiet DEF wrappedVars, wrappedOnlyVars, wrapAdminVars, wrapMoneyVars, wrappedBooks
<1>13. QED BY <1>1, <1>2, <1>3, <1>4, <1>5, <1>6, <1>7, <1>8, <1>9, <1>10, <1>11, <1>12 DEF WrappedNext

\* The wrapped token starts empty.
LEMMA WrappedStart == WrappedInit => WrappedInv
<1> SUFFICES ASSUME WrappedInit PROVE WrappedInv OBVIOUS
<1>1. /\ tax \in Nat /\ wrapper \in WrapTerms /\ shortBatch = FALSE /\ totalWrapped = 0 /\ reserve = 0
      /\ wrappedBal = [u \in Wrappers |-> 0]
  BY WrappedTokenAssumption DEF WrappedInit
<1>2. shortBatch \in BOOLEAN BY <1>1
<1>3. SumFunctionOnSet(wrappedBal, Wrappers) = 0 BY <1>1, WrappedTokenAssumption, SumOfZeros
<1>4. wrappedBal \in [Wrappers -> Int] BY <1>1
<1>5. QED BY <1>1, <1>2, <1>3, <1>4 DEF WrappedInv, WrappedTyped, WrappedBacked

\* For any users, amounts, batches, fees and limits, every wrapped token is backed by
\* the reserve, until a batch wraps a token that taxes its transfers.
THEOREM WrappedIsBacked == WrappedSpec => []WrappedBacked
<1>1. WrappedInv => WrappedBacked BY DEF WrappedInv
<1>2. QED BY <1>1, WrappedStart, WrappedInduction, PTL DEF WrappedSpec

----
(* Airdrop.                                                                *)

AirSchedules == [total : Nat, released : Nat, start : Nat, duration : Nat]

AirdropTyped ==
    /\ now \in Nat /\ drop \in AirTerms
    /\ dropRoot \in AirTrees \cup {NoRoot} /\ dropClaims \subseteq DropPairs
    /\ schedules \in [DropPairs -> AirSchedules \cup {NoRoot}]
    /\ dropLocked \in [AirTokens -> Int] /\ dropHeld \in [AirTokens -> Int] /\ dropPaid \in [DropPairs -> Int]

\* What the schedules still owe of token t.
Owed(t) == SumFunctionOnSet([c \in Claimants |-> Outstanding(<<c, t>>)], Claimants)

\* TotalLocked is what the schedules owe, and it is there.
LockedIsOwed == \A t \in AirTokens : dropLocked[t] = Owed(t) /\ dropHeld[t] >= dropLocked[t]

\* Nothing was paid or locked for a pair that has not claimed.
UnclaimedUntouched == \A c \in DropPairs \ dropClaims : schedules[c] = NoRoot /\ dropPaid[c] = 0

\* No schedule released more than its total.
ReleasedWithin == \A c \in DropPairs : schedules[c] # NoRoot => schedules[c].released <= schedules[c].total

\* What a claimant got and is still owed is a leaf's amount.
LeavesHonoured ==
    \A c \in DropPairs :
        \/ dropPaid[c] + Outstanding(c) = 0
        \/ \E tree \in AirTrees : <<c[1], c[2], dropPaid[c] + Outstanding(c)>> \in tree

AirdropInv ==
    /\ AirdropTyped
    /\ dropOpen => drop.liquid = NoRoot \/ drop.liquid <= LiquidBase
    /\ LockedIsOwed
    /\ UnclaimedUntouched
    /\ ReleasedWithin
    /\ LeavesHonoured

\* A share of x that is at most the whole, rounded down, is at most x.
LEMMA ShareOfWhole ==
    ASSUME NEW x \in Nat, NEW k \in Int, NEW n \in Nat \ {0}, k <= n
    PROVE  (x * k) \div n \in Int /\ (x * k) \div n <= x /\ (k >= 0 => (x * k) \div n >= 0)
<1> DEFINE p == x * k
           q == p \div n
           r == n - k
<1>1. p \in Int /\ r \in Nat /\ k + r = n /\ x * r \in Nat BY SMT
<1> HIDE DEF r
<1>2. x * n = p + x * r BY <1>1, Distributes
<1>3. x * n \in Int /\ p <= x * n BY <1>1, <1>2
<1>4. k >= 0 => p >= 0 OBVIOUS
<1> HIDE DEF p
<1>5. q \in Int /\ q * n <= p /\ (p >= 0 => q >= 0) BY <1>1
<1> HIDE DEF q
<1>6. q * n <= x * n BY <1>1, <1>3, <1>5
<1>7. q <= x
  <2> SUFFICES ASSUME q > x PROVE FALSE BY <1>5
  <2> DEFINE d == q - x
  <2>1. d \in Nat \ {0} /\ q = x + d BY <1>5
  <2> HIDE DEF d
  <2>2. q * n = x * n + d * n BY <2>1, Distributes
  <2>3. d * n > 0 /\ d * n \in Int BY <2>1
  <2>4. QED BY <1>3, <1>6, <2>2, <2>3
<1>8. QED BY <1>4, <1>5, <1>7 DEF p, q

\* A pair is a claimant and a token.
LEMMA PairFacts ==
    ASSUME NEW c \in DropPairs
    PROVE  c[1] \in Claimants /\ c[2] \in AirTokens /\ c = <<c[1], c[2]>>
BY DEF DropPairs

\* What a pair is owed is a number.
LEMMA OutstandingType ==
    ASSUME AirdropTyped, ReleasedWithin, NEW c \in DropPairs
    PROVE  Outstanding(c) \in Nat
<1>1. schedules[c] \in AirSchedules \cup {NoRoot} BY DEF AirdropTyped
<1>2. CASE schedules[c] = NoRoot BY <1>2 DEF Outstanding
<1>3. CASE schedules[c] # NoRoot
  <2>1. schedules[c].total \in Nat /\ schedules[c].released \in Nat BY <1>1, <1>3 DEF AirSchedules
  <2>2. schedules[c].released <= schedules[c].total BY <1>3 DEF ReleasedWithin
  <2>3. QED BY <1>3, <2>1, <2>2 DEF Outstanding
<1>4. QED BY <1>2, <1>3

\* Parts of a token as a sum over the claimants.
LEMMA PartsFacts ==
    ASSUME NEW t \in AirTokens, NEW f, \A c \in DropPairs : f[c] \in Int
    PROVE  /\ Parts(f, t) \in Int
           /\ \A g, h : (\A c \in DropPairs : g[c] \in Int /\ h[c] = f[c] + g[c]) => Parts(h, t) = Parts(f, t) + Parts(g, t)
           /\ (\A c \in Claimants : f[<<c, t>>] = 0) => Parts(f, t) = 0
<1>0. IsFiniteSet(Claimants) BY AirdropAssumption
<1>1. \A c \in Claimants : <<c, t>> \in DropPairs BY DEF DropPairs
<1> DEFINE F(p) == [c \in Claimants |-> p[<<c, t>>]]
<1>2. \A c \in Claimants : F(f)[c] \in Int BY <1>1
<1>3. Parts(f, t) \in Int
  <2> HIDE DEF F
  <2>1. SumFunctionOnSet(F(f), Claimants) \in Int BY <1>0, <1>2, SumBasics
  <2>2. QED BY <2>1 DEF Parts, F
<1>4. ASSUME NEW g, NEW h, \A c \in DropPairs : g[c] \in Int /\ h[c] = f[c] + g[c] PROVE Parts(h, t) = Parts(f, t) + Parts(g, t)
  <2>1. \A c \in Claimants : F(f)[c] \in Int /\ F(g)[c] \in Int /\ F(h)[c] = F(f)[c] + F(g)[c] BY <1>1, <1>4
  <2> HIDE DEF F
  <2>2. SumFunctionOnSet(F(h), Claimants) = SumFunctionOnSet(F(f), Claimants) + SumFunctionOnSet(F(g), Claimants)
    BY <1>0, <2>1, SumPlus
  <2>3. QED BY <2>2 DEF Parts, F
<1>5. ASSUME \A c \in Claimants : f[<<c, t>>] = 0 PROVE Parts(f, t) = 0
  <2>1. \A c \in Claimants : F(f)[c] = 0 BY <1>5
  <2> HIDE DEF F
  <2>2. SumFunctionOnSet(F(f), Claimants) = 0 BY <1>0, <2>1, SumOfZeros
  <2>3. QED BY <2>2 DEF Parts, F
<1>6. QED BY <1>3, <1>4, <1>5

\* The allocation of a list that passed the checks of a claim.
LEMMA AllocatedFacts ==
    ASSUME AirdropTyped, NEW list \in ClaimLists, ClaimBatch(list), NEW c \in DropPairs
    PROVE  /\ Allocated(list)[c] \in Nat
           /\ Allocated(list)[c] # 0 =>
                /\ c \notin dropClaims
                /\ \E tree \in AirTrees : <<c[1], c[2], Allocated(list)[c]>> \in tree
                /\ \E i \in DOMAIN list : list[i][2] = c[2]
           /\ c \notin dropClaims' => Allocated(list)[c] = 0
<1>0. c = <<c[1], c[2]>> BY PairFacts
<1>1. /\ dropRoot # NoRoot
      /\ \A i \in DOMAIN list : list[i][3] > 0 /\ Pair(list[i]) \notin dropClaims /\ list[i] \in dropRoot
      /\ dropClaims' = dropClaims \cup {Pair(list[i]) : i \in DOMAIN list}
  BY DEF ClaimBatch, ClaimsOpen
<1>2. dropRoot \in AirTrees /\ dropRoot \subseteq Claimants \X AirTokens \X Int
  BY <1>1, AirdropAssumption DEF AirdropTyped
<1>3. CASE \E i \in DOMAIN list : Pair(list[i]) = c
  <2> DEFINE i == CHOOSE j \in DOMAIN list : Pair(list[j]) = c
  <2>1. i \in DOMAIN list /\ Pair(list[i]) = c BY <1>3
  <2>2. Allocated(list)[c] = list[i][3] BY <1>3 DEF Allocated
  <2> HIDE DEF i
  <2>3. list[i] \in dropRoot /\ list[i] \in Claimants \X AirTokens \X Int /\ list[i][3] > 0 /\ c \notin dropClaims BY <1>1, <1>2, <2>1
  <2>4. list[i] = <<list[i][1], list[i][2], list[i][3]>> /\ list[i][3] \in Int BY <2>3
  <2>5. list[i][1] = c[1] /\ list[i][2] = c[2] BY <1>0, <2>1 DEF Pair
  <2>6. <<c[1], c[2], Allocated(list)[c]>> \in dropRoot BY <2>2, <2>3, <2>4, <2>5
  <2>7. c \in dropClaims' BY <1>1, <2>1
  <2>8. QED BY <1>2, <2>1, <2>2, <2>3, <2>4, <2>5, <2>6, <2>7
<1>4. CASE ~\E i \in DOMAIN list : Pair(list[i]) = c
  <2>1. Allocated(list)[c] = 0 BY <1>4 DEF Allocated
  <2>2. QED BY <2>1
<1>5. QED BY <1>3, <1>4

\* Every claim is split into a liquid and a locked part.
LEMMA ClaimBatchInv ==
    ASSUME AirdropInv, NEW list \in ClaimLists, ClaimBatch(list)
    PROVE  AirdropInv'
<1> DEFINE alloc == Allocated(list)
           liquid == [c \in DropPairs |-> LiquidPart(alloc[c])]
           locked == [c \in DropPairs |-> alloc[c] - liquid[c]]
           Fresh(c) == [total |-> locked[c], released |-> 0, start |-> now, duration |-> drop.duration]
<1>0. AirdropTyped /\ LockedIsOwed /\ UnclaimedUntouched /\ ReleasedWithin /\ LeavesHonoured BY DEF AirdropInv
<1>1. /\ schedules' = [c \in DropPairs |-> IF locked[c] = 0 THEN schedules[c] ELSE Fresh(c)]
      /\ dropLocked' = [t \in AirTokens |-> dropLocked[t] + Parts(locked, t)]
      /\ dropHeld' = [t \in AirTokens |-> dropHeld[t] - Parts(liquid, t)]
      /\ dropPaid' = [c \in DropPairs |-> dropPaid[c] + liquid[c]]
  BY DEF ClaimBatch, SettleClaims
<1>2. /\ dropOpen /\ UNCHANGED <<now, drop, dropOpen, dropRoot>>
      /\ \A t \in {list[i][2] : i \in DOMAIN list} : Available(t) >= Parts(alloc, t)
      /\ dropClaims' = dropClaims \cup {Pair(list[i]) : i \in DOMAIN list}
  BY DEF ClaimBatch, ClaimsOpen
<1>3. ASSUME NEW c \in DropPairs
      PROVE  /\ alloc[c] \in Nat
             /\ alloc[c] # 0 => c \notin dropClaims
             /\ alloc[c] # 0 => \E tree \in AirTrees : <<c[1], c[2], alloc[c]>> \in tree
             /\ alloc[c] # 0 => \E i \in DOMAIN list : list[i][2] = c[2]
             /\ c \notin dropClaims' => alloc[c] = 0
  BY <1>0, AllocatedFacts
<1> HIDE DEF alloc
<1>4. drop.duration \in Nat /\ drop.liquid \in Nat \cup {NoRoot} /\ now \in Nat BY <1>0, AirdropAssumption DEF AirdropTyped
<1>5. ASSUME NEW c \in DropPairs
      PROVE  /\ liquid[c] \in Nat /\ locked[c] \in Nat /\ alloc[c] = liquid[c] + locked[c]
             /\ alloc[c] = 0 => liquid[c] = 0 /\ locked[c] = 0
  <2>1. alloc[c] \in Nat /\ liquid[c] = LiquidPart(alloc[c]) /\ locked[c] = alloc[c] - liquid[c] BY <1>3
  <2>2. liquid[c] \in Nat /\ liquid[c] <= alloc[c]
    <3>1. CASE drop.liquid = NoRoot BY <2>1, <3>1 DEF LiquidPart
    <3>2. CASE drop.liquid # NoRoot
      <4>1. drop.liquid \in Nat /\ drop.liquid <= LiquidBase BY <1>2, <1>4, <3>2 DEF AirdropInv
      <4>2. LiquidBase \in Nat \ {0} BY AirdropAssumption
      <4>3. /\ (alloc[c] * drop.liquid) \div LiquidBase \in Int
            /\ (alloc[c] * drop.liquid) \div LiquidBase <= alloc[c]
            /\ (alloc[c] * drop.liquid) \div LiquidBase >= 0
        BY <2>1, <4>1, <4>2, ShareOfWhole
      <4>4. QED BY <2>1, <3>2, <4>3 DEF LiquidPart
    <3>3. QED BY <3>1, <3>2
  <2> HIDE DEF liquid, locked
  <2>3. QED BY <2>1, <2>2
<1> HIDE DEF liquid, locked
<1>6. schedules \in [DropPairs -> AirSchedules \cup {NoRoot}] /\ dropPaid \in [DropPairs -> Int]
      /\ dropLocked \in [AirTokens -> Int] /\ dropHeld \in [AirTokens -> Int]
  BY <1>0 DEF AirdropTyped
<1>7. ASSUME NEW c \in DropPairs
      PROVE  /\ Fresh(c) \in AirSchedules /\ Fresh(c) # NoRoot /\ Fresh(c).total = locked[c] /\ Fresh(c).released = 0
  <2>1. Fresh(c) \in AirSchedules BY <1>4, <1>5 DEF AirSchedules
  <2>2. QED BY <2>1, AirdropAssumption DEF AirSchedules
<1>8. \A c \in DropPairs : schedules'[c] = IF locked[c] = 0 THEN schedules[c] ELSE Fresh(c) BY <1>1
<1> HIDE DEF Fresh
<1>9. schedules' \in [DropPairs -> AirSchedules \cup {NoRoot}] BY <1>1, <1>6, <1>7
<1>10. ReleasedWithin'
  <2>1. ASSUME NEW c \in DropPairs, schedules'[c] # NoRoot PROVE schedules'[c].released <= schedules'[c].total
    <3>1. CASE locked[c] = 0 BY <1>0, <1>8, <2>1, <3>1 DEF ReleasedWithin
    <3>2. CASE locked[c] # 0 BY <1>5, <1>7, <1>8, <3>2
    <3>3. QED BY <3>1, <3>2
  <2>2. QED BY <2>1 DEF ReleasedWithin
<1>11. ASSUME NEW c \in DropPairs
       PROVE  Outstanding(c) \in Nat /\ Outstanding(c)' = Outstanding(c) + locked[c] /\ (alloc[c] # 0 => Outstanding(c) = 0 /\ dropPaid[c] = 0)
  <2>1. Outstanding(c) \in Nat BY <1>0, OutstandingType
  <2>2. alloc[c] # 0 => Outstanding(c) = 0 /\ dropPaid[c] = 0 BY <1>0, <1>3 DEF UnclaimedUntouched, Outstanding
  <2>3. CASE locked[c] = 0
    <3>1. Outstanding(c)' = Outstanding(c) BY <1>8, <2>3 DEF Outstanding
    <3>2. QED BY <2>1, <2>2, <2>3, <3>1
  <2>4. CASE locked[c] # 0
    <3>1. alloc[c] # 0 BY <1>5, <2>4
    <3>2. Outstanding(c)' = locked[c] - 0 BY <1>7, <1>8, <2>4 DEF Outstanding
    <3>3. QED BY <1>5, <2>1, <2>2, <3>1, <3>2
  <2>5. QED BY <2>3, <2>4
<1>12. UnclaimedUntouched'
  <2>1. ASSUME NEW c \in DropPairs \ dropClaims' PROVE schedules'[c] = NoRoot /\ dropPaid'[c] = 0
    <3>1. alloc[c] = 0 /\ c \notin dropClaims BY <1>2, <1>3
    <3>2. liquid[c] = 0 /\ locked[c] = 0 BY <1>5, <3>1
    <3>3. schedules[c] = NoRoot /\ dropPaid[c] = 0 BY <1>0, <3>1 DEF UnclaimedUntouched
    <3>4. QED BY <1>1, <1>8, <3>2, <3>3
  <2>2. QED BY <2>1 DEF UnclaimedUntouched
<1>13. LeavesHonoured'
  <2>1. ASSUME NEW c \in DropPairs
        PROVE  \/ dropPaid'[c] + Outstanding(c)' = 0
               \/ \E tree \in AirTrees : <<c[1], c[2], dropPaid'[c] + Outstanding(c)'>> \in tree
    <3>0. dropPaid[c] \in Int /\ dropPaid'[c] = dropPaid[c] + liquid[c] BY <1>1, <1>6
    <3>1. CASE alloc[c] = 0
      <4>1. liquid[c] = 0 /\ locked[c] = 0 BY <1>5, <3>1
      <4>2. dropPaid'[c] = dropPaid[c] /\ Outstanding(c)' = Outstanding(c) BY <1>11, <3>0, <4>1
      <4>3. QED BY <1>0, <4>2 DEF LeavesHonoured
    <3>2. CASE alloc[c] # 0
      <4>1. dropPaid'[c] + Outstanding(c)' = alloc[c] BY <1>5, <1>11, <3>0, <3>2
      <4>2. QED BY <1>3, <3>2, <4>1
    <3>3. QED BY <3>1, <3>2
  <2>2. QED BY <2>1 DEF LeavesHonoured
<1>14. ASSUME NEW t \in AirTokens
       PROVE  /\ dropLocked'[t] \in Int /\ dropHeld'[t] \in Int
              /\ dropLocked'[t] = Owed(t)' /\ dropHeld'[t] >= dropLocked'[t]
  <2>1. Parts(liquid, t) \in Int /\ Parts(locked, t) \in Int
    <3>1. (\A c \in DropPairs : liquid[c] \in Int) /\ (\A c \in DropPairs : locked[c] \in Int) BY <1>5
    <3>2. QED BY <3>1, PartsFacts
  <2>2. Parts(alloc, t) = Parts(liquid, t) + Parts(locked, t)
    <3>1. (\A c \in DropPairs : liquid[c] \in Int) /\ (\A c \in DropPairs : locked[c] \in Int /\ alloc[c] = liquid[c] + locked[c]) BY <1>5
    <3>2. QED BY <3>1, PartsFacts
  <2> DEFINE o == [c \in DropPairs |-> Outstanding(c)]
             n == [c \in DropPairs |-> Outstanding(c)']
  <2>3. (\A c \in DropPairs : o[c] \in Int) /\ (\A c \in DropPairs : locked[c] \in Int /\ n[c] = o[c] + locked[c]) BY <1>5, <1>11
  <2>4. Owed(t) = Parts(o, t)
    <3>1. \A c \in Claimants : <<c, t>> \in DropPairs BY DEF DropPairs
    <3>2. [c \in Claimants |-> o[<<c, t>>]] = [c \in Claimants |-> Outstanding(<<c, t>>)] BY <3>1
    <3>3. QED BY <3>2 DEF Owed, Parts
  <2>5. Owed(t)' = Parts(n, t)
    <3>1. \A c \in Claimants : <<c, t>> \in DropPairs BY DEF DropPairs
    <3>2. [c \in Claimants |-> n[<<c, t>>]] = [c \in Claimants |-> Outstanding(<<c, t>>)'] BY <3>1
    <3>3. Owed(t)' = SumFunctionOnSet([c \in Claimants |-> Outstanding(<<c, t>>)'], Claimants) BY DEF Owed
    <3>4. QED BY <3>2, <3>3 DEF Parts
  <2> HIDE DEF o, n
  <2>6. Parts(n, t) = Parts(o, t) + Parts(locked, t) BY <2>3, PartsFacts
  <2>7. dropLocked[t] = Owed(t) /\ dropHeld[t] >= dropLocked[t] /\ dropLocked[t] \in Int /\ dropHeld[t] \in Int
    BY <1>0, <1>6 DEF LockedIsOwed
  <2>8. dropLocked'[t] = dropLocked[t] + Parts(locked, t) /\ dropHeld'[t] = dropHeld[t] - Parts(liquid, t) BY <1>1
  <2>9. dropHeld[t] - dropLocked[t] >= Parts(alloc, t)
    <3>1. CASE \E i \in DOMAIN list : list[i][2] = t
      <4>1. Available(t) >= Parts(alloc, t) BY <1>2, <3>1
      <4>2. QED BY <4>1 DEF Available
    <3>2. CASE ~\E i \in DOMAIN list : list[i][2] = t
      <4>1. \A c \in Claimants : <<c, t>> \in DropPairs /\ <<c, t>>[2] = t BY DEF DropPairs
      <4>2. \A c \in Claimants : alloc[<<c, t>>] = 0 BY <1>3, <3>2, <4>1
      <4>3. \A c \in DropPairs : alloc[c] \in Int
        <5>1. ASSUME NEW c \in DropPairs PROVE alloc[c] \in Nat BY <1>3
        <5>2. \A c \in DropPairs : alloc[c] \in Nat BY <5>1
        <5>3. QED BY <5>2
      <4>4. Parts(alloc, t) = 0 BY <4>2, <4>3, PartsFacts
      <4>5. QED BY <2>7, <4>4
    <3>3. QED BY <3>1, <3>2
  <2>10. QED BY <2>1, <2>2, <2>4, <2>5, <2>6, <2>7, <2>8, <2>9
<1>15. LockedIsOwed' BY <1>14 DEF LockedIsOwed
<1>16. AirdropTyped'
  <2>1. dropPaid' \in [DropPairs -> Int] BY <1>1, <1>5, <1>6
  <2>2. dropLocked' \in [AirTokens -> Int] /\ dropHeld' \in [AirTokens -> Int] BY <1>1, <1>14
  <2>3. dropClaims' \subseteq DropPairs
    <3>1. ASSUME NEW i \in DOMAIN list PROVE Pair(list[i]) \in DropPairs
      <4>1. list[i] \in dropRoot /\ dropRoot # NoRoot BY DEF ClaimBatch, ClaimsOpen
      <4>2. list[i] \in Claimants \X AirTokens \X Int BY <1>0, <4>1, AirdropAssumption DEF AirdropTyped
      <4>3. QED BY <4>2 DEF Pair, DropPairs
    <3>2. QED BY <1>0, <1>2, <3>1 DEF AirdropTyped
  <2>4. QED BY <1>0, <1>2, <1>9, <2>1, <2>2, <2>3 DEF AirdropTyped
<1>17. QED BY <1>2, <1>10, <1>12, <1>13, <1>15, <1>16 DEF AirdropInv

\* A release moves what has vested from the schedule to the claimant.
LEMMA ReleaseVestedInv ==
    ASSUME AirdropInv, NEW c \in DropPairs, ReleaseVested(c)
    PROVE  AirdropInv'
<1> DEFINE sch == schedules[c]
           x == VestedAmount(sch) - sch.released
           t == c[2]
           new == [sch EXCEPT !.released = @ + x]
<1>0. AirdropTyped /\ LockedIsOwed /\ UnclaimedUntouched /\ ReleasedWithin /\ LeavesHonoured BY DEF AirdropInv
<1>1. /\ sch # NoRoot /\ x > 0 /\ dropHeld[t] >= x
      /\ schedules' = [schedules EXCEPT ![c].released = @ + x]
      /\ dropLocked' = [dropLocked EXCEPT ![t] = @ - x] /\ dropHeld' = [dropHeld EXCEPT ![t] = @ - x]
      /\ dropPaid' = [dropPaid EXCEPT ![c] = @ + x]
      /\ UNCHANGED <<now, drop, dropOpen, dropRoot, dropClaims>>
  BY DEF ReleaseVested
<1>2. schedules \in [DropPairs -> AirSchedules \cup {NoRoot}] /\ dropPaid \in [DropPairs -> Int] /\ now \in Nat
      /\ dropLocked \in [AirTokens -> Int] /\ dropHeld \in [AirTokens -> Int]
  BY <1>0 DEF AirdropTyped
<1>3. sch \in AirSchedules BY <1>1, <1>2
<1>4. sch.total \in Nat /\ sch.released \in Nat /\ sch.start \in Nat /\ sch.duration \in Nat /\ sch.released <= sch.total
  BY <1>0, <1>1, <1>3 DEF AirSchedules, ReleasedWithin
<1>5. t \in AirTokens /\ c[1] \in Claimants /\ c = <<c[1], t>> BY PairFacts
<1>6. VestedAmount(sch) \in Int /\ VestedAmount(sch) <= sch.total
  <2>1. CASE sch.duration = 0 \/ now - sch.start >= sch.duration BY <1>4, <2>1 DEF VestedAmount
  <2>2. CASE ~(sch.duration = 0 \/ now - sch.start >= sch.duration)
    <3> DEFINE k == now - sch.start
    <3>1. k \in Int /\ k <= sch.duration /\ sch.duration \in Nat \ {0} BY <1>2, <1>4, <2>2
    <3>2. VestedAmount(sch) = (sch.total * k) \div sch.duration BY <2>2 DEF VestedAmount
    <3> HIDE DEF k
    <3>3. QED BY <1>4, <3>1, <3>2, ShareOfWhole
  <2>3. QED BY <2>1, <2>2
<1>7. x \in Nat /\ sch.released + x <= sch.total /\ sch.released + x \in Nat BY <1>1, <1>4, <1>6
<1>8. new \in AirSchedules /\ new.total = sch.total /\ new.released = sch.released + x /\ new # NoRoot
  <2>1. new \in AirSchedules /\ new.total = sch.total /\ new.released = sch.released + x BY <1>3, <1>7 DEF AirSchedules
  <2>2. QED BY <2>1, AirdropAssumption DEF AirSchedules
<1>9. schedules' = [schedules EXCEPT ![c] = new] BY <1>1, <1>2
<1> HIDE DEF x, new
<1>10. /\ schedules' \in [DropPairs -> AirSchedules \cup {NoRoot}] /\ schedules'[c] = new
       /\ \A d \in DropPairs : d # c => schedules'[d] = schedules[d]
  BY <1>2, <1>8, <1>9
<1>11. /\ dropPaid' \in [DropPairs -> Int] /\ dropPaid'[c] = dropPaid[c] + x
       /\ \A d \in DropPairs : d # c => dropPaid'[d] = dropPaid[d]
  BY <1>1, <1>2, <1>7
<1>12. Outstanding(c) = sch.total - sch.released /\ Outstanding(c)' = sch.total - (sch.released + x)
       /\ \A d \in DropPairs : d # c => Outstanding(d)' = Outstanding(d)
  BY <1>1, <1>8, <1>10 DEF Outstanding
<1>13. ReleasedWithin' BY <1>0, <1>7, <1>8, <1>10 DEF ReleasedWithin
<1>14. UnclaimedUntouched'
  <2>1. c \in dropClaims BY <1>0, <1>1 DEF UnclaimedUntouched
  <2>2. QED BY <1>0, <1>1, <1>10, <1>11, <2>1 DEF UnclaimedUntouched
<1>15. LeavesHonoured'
  <2>1. dropPaid[c] \in Int BY <1>2
  <2>2. dropPaid'[c] + Outstanding(c)' = dropPaid[c] + Outstanding(c) BY <1>4, <1>7, <1>11, <1>12, <2>1
  <2>3. \A d \in DropPairs : dropPaid'[d] + Outstanding(d)' = dropPaid[d] + Outstanding(d) BY <1>11, <1>12, <2>2
  <2>4. QED BY <1>0, <2>3 DEF LeavesHonoured
<1>16. dropLocked' \in [AirTokens -> Int] /\ dropHeld' \in [AirTokens -> Int]
       /\ dropLocked'[t] = dropLocked[t] - x /\ dropHeld'[t] = dropHeld[t] - x
       /\ \A u \in AirTokens : u # t => dropLocked'[u] = dropLocked[u] /\ dropHeld'[u] = dropHeld[u]
  BY <1>1, <1>2, <1>5, <1>7
<1>17. ASSUME NEW u \in AirTokens PROVE dropLocked'[u] = Owed(u)' /\ dropHeld'[u] >= dropLocked'[u]
  <2> DEFINE f == [d \in Claimants |-> Outstanding(<<d, u>>)]
             g == [d \in Claimants |-> Outstanding(<<d, u>>)']
  <2>0. IsFiniteSet(Claimants) BY AirdropAssumption
  <2>1. \A d \in Claimants : <<d, u>> \in DropPairs BY DEF DropPairs
  <2>2. \A d \in Claimants : f[d] \in Int
    <3>1. ASSUME NEW d \in Claimants PROVE Outstanding(<<d, u>>) \in Nat BY <1>0, <2>1, OutstandingType
    <3>2. QED BY <3>1
  <2>3. Owed(u)' = SumFunctionOnSet(g, Claimants) /\ Owed(u) = SumFunctionOnSet(f, Claimants) BY DEF Owed
  <2>4. dropLocked[u] = Owed(u) /\ dropHeld[u] >= dropLocked[u] /\ dropLocked[u] \in Int /\ dropHeld[u] \in Int
    BY <1>0, <1>2 DEF LockedIsOwed
  <2>5. CASE u # t
    <3>1. \A d \in Claimants : <<d, u>> # c BY <1>5, <2>5
    <3>2. \A d \in Claimants : g[d] = f[d] BY <1>12, <2>1, <3>1
    <3> HIDE DEF f, g
    <3>3. SumFunctionOnSet(g, Claimants) = SumFunctionOnSet(f, Claimants) BY <2>0, <2>2, <3>2, SumBasics
    <3>4. QED BY <1>16, <2>3, <2>4, <2>5, <3>3
  <2>6. CASE u = t
    <3> DEFINE a == c[1]
               m == -x
    <3>1. <<a, u>> = c /\ a \in Claimants /\ \A d \in Claimants : d # a => <<d, u>> # c BY <1>5, <2>6
    <3>2. m \in Int /\ Outstanding(c)' = Outstanding(c) + m BY <1>4, <1>7, <1>12
    <3>3. g[a] = f[a] + m BY <3>1, <3>2
    <3>4. \A d \in Claimants : d # a => g[d] = f[d] BY <1>12, <2>1, <3>1
    <3> HIDE DEF f, g, m, a
    <3>5. SumFunctionOnSet(g, Claimants) = SumFunctionOnSet(f, Claimants) + m BY <2>0, <2>2, <3>1, <3>2, <3>3, <3>4, SumBump
    <3>6. QED BY <1>7, <1>16, <2>3, <2>4, <2>6, <3>5 DEF m
  <2>7. QED BY <2>5, <2>6
<1>18. LockedIsOwed' BY <1>17 DEF LockedIsOwed
<1>19. AirdropTyped' BY <1>0, <1>1, <1>10, <1>11, <1>16 DEF AirdropTyped
<1>20. QED BY <1>1, <1>13, <1>14, <1>15, <1>18, <1>19 DEF AirdropInv

\* Steps that leave claims and money alone, but for a deposit.
LEMMA AirdropQuiet ==
    ASSUME AirdropInv, UNCHANGED <<drop, dropClaims, schedules, dropLocked, dropPaid>>, now' \in Nat,
           dropRoot' \in AirTrees \cup {NoRoot}, dropHeld' \in [AirTokens -> Int],
           \A t \in AirTokens : dropHeld'[t] >= dropHeld[t],
           dropOpen' => drop.liquid = NoRoot \/ drop.liquid <= LiquidBase
    PROVE  AirdropInv'
<1>0. AirdropTyped /\ LockedIsOwed /\ UnclaimedUntouched /\ ReleasedWithin /\ LeavesHonoured BY DEF AirdropInv
<1>1. AirdropTyped' BY <1>0 DEF AirdropTyped
<1>2. UnclaimedUntouched' /\ ReleasedWithin' BY <1>0 DEF UnclaimedUntouched, ReleasedWithin
<1>3. LeavesHonoured' BY <1>0 DEF LeavesHonoured, Outstanding
<1>4. LockedIsOwed'
  <2>1. ASSUME NEW t \in AirTokens PROVE dropLocked'[t] = Owed(t)' /\ dropHeld'[t] >= dropLocked'[t]
    <3>1. Owed(t)' = Owed(t) BY DEF Owed, Outstanding
    <3>2. dropLocked[t] = Owed(t) /\ dropHeld[t] >= dropLocked[t] /\ dropLocked[t] \in Int /\ dropHeld[t] \in Int /\ dropHeld'[t] \in Int
      BY <1>0 DEF LockedIsOwed, AirdropTyped
    <3>3. QED BY <3>1, <3>2
  <2>2. QED BY <2>1 DEF LockedIsOwed
<1>5. QED BY <1>1, <1>2, <1>3, <1>4 DEF AirdropInv

\* Every step of the airdrop keeps the invariant.
LEMMA AirdropInduction == AirdropInv /\ [AirdropNext]_airdropVars => AirdropInv'
<1> SUFFICES ASSUME AirdropInv, [AirdropNext]_airdropVars PROVE AirdropInv' OBVIOUS
<1>0. /\ now \in Nat /\ dropRoot \in AirTrees \cup {NoRoot} /\ dropHeld \in [AirTokens -> Int]
      /\ \A t \in AirTokens : dropHeld[t] \in Int
      /\ drop.liquid \in Nat \cup {NoRoot}
      /\ (dropOpen => drop.liquid = NoRoot \/ drop.liquid <= LiquidBase)
  BY AirdropAssumption DEF AirdropInv, AirdropTyped
<1>1. \A t \in AirTokens : dropHeld[t] >= dropHeld[t] BY <1>0
<1>2. CASE InitializeAirdrop
  <2>1. drop.liquid = NoRoot \/ drop.liquid <= LiquidBase BY <1>0, <1>2, AirdropAssumption DEF InitializeAirdrop
  <2>2. UNCHANGED <<now, drop, dropRoot, dropClaims, schedules, dropLocked, dropHeld, dropPaid>> BY <1>2 DEF InitializeAirdrop
  <2>3. QED BY <1>0, <1>1, <2>1, <2>2, AirdropQuiet
<1>3. CASE \E tree \in AirTrees : SetRoot(tree) BY <1>0, <1>1, <1>3, AirdropQuiet DEF SetRoot
<1>4. CASE \E t \in AirTokens, x \in AirFunding : FundAirdrop(t, x)
  <2>1. PICK t \in AirTokens, x \in AirFunding : FundAirdrop(t, x) BY <1>4
  <2>2. x \in Nat BY AirdropAssumption
  <2>3. dropHeld' = [dropHeld EXCEPT ![t] = @ + x] /\ UNCHANGED <<now, drop, dropOpen, dropRoot, dropClaims, schedules, dropLocked, dropPaid>>
    BY <2>1 DEF FundAirdrop
  <2>4. dropHeld' \in [AirTokens -> Int] /\ \A u \in AirTokens : dropHeld'[u] >= dropHeld[u] BY <1>0, <2>2, <2>3
  <2>5. QED BY <1>0, <2>3, <2>4, AirdropQuiet
<1>5. CASE \E l \in ClaimLists : ClaimBatch(l) BY <1>5, ClaimBatchInv
<1>6. CASE \E c \in DropPairs : ReleaseVested(c) BY <1>6, ReleaseVestedInv
<1>7. CASE LedgerCloses /\ UNCHANGED airdropOnlyVars BY <1>0, <1>1, <1>7, AirdropQuiet DEF LedgerCloses, airdropOnlyVars
<1>8. CASE UNCHANGED airdropVars BY <1>0, <1>1, <1>8, AirdropQuiet DEF airdropVars, airdropOnlyVars
<1>9. QED BY <1>2, <1>3, <1>4, <1>5, <1>6, <1>7, <1>8 DEF AirdropNext

\* The airdrop starts unclaimed.
LEMMA AirdropStart == AirdropInit => AirdropInv
<1> SUFFICES ASSUME AirdropInit PROVE AirdropInv OBVIOUS
<1>1. /\ now = 0 /\ drop \in AirTerms /\ dropOpen = FALSE /\ dropRoot = NoRoot /\ dropClaims = {}
      /\ schedules = [c \in DropPairs |-> NoRoot] /\ dropPaid = [c \in DropPairs |-> 0]
      /\ dropLocked = [t \in AirTokens |-> 0] /\ dropHeld = [t \in AirTokens |-> 0]
  BY DEF AirdropInit
<1>2. AirdropTyped BY <1>1 DEF AirdropTyped
<1>3. UnclaimedUntouched /\ ReleasedWithin BY <1>1 DEF UnclaimedUntouched, ReleasedWithin
<1>4. \A c \in DropPairs : Outstanding(c) = 0 BY <1>1 DEF Outstanding
<1>5. LeavesHonoured BY <1>1, <1>4 DEF LeavesHonoured
<1>6. LockedIsOwed
  <2>1. ASSUME NEW t \in AirTokens PROVE dropLocked[t] = Owed(t) /\ dropHeld[t] >= dropLocked[t]
    <3> DEFINE f == [c \in Claimants |-> Outstanding(<<c, t>>)]
    <3>1. \A c \in Claimants : f[c] = 0 BY <1>4 DEF DropPairs
    <3> HIDE DEF f
    <3>2. SumFunctionOnSet(f, Claimants) = 0 BY <3>1, AirdropAssumption, SumOfZeros
    <3>3. Owed(t) = 0 BY <3>2 DEF Owed, f
    <3>4. QED BY <1>1, <3>3
  <2>2. QED BY <2>1 DEF LockedIsOwed
<1>7. QED BY <1>1, <1>2, <1>3, <1>5, <1>6 DEF AirdropInv

\* The invariant says of every pair what the property asks.
LEMMA HonouredFromInv == AirdropInv => AllocationsHonoured
<1> SUFFICES ASSUME AirdropInv PROVE AllocationsHonoured OBVIOUS
<1>1. ASSUME NEW t \in AirTokens PROVE dropHeld[t] >= Owed(t)
  <2>1. dropLocked[t] = Owed(t) /\ dropHeld[t] >= dropLocked[t] BY DEF AirdropInv, LockedIsOwed
  <2>2. QED BY <2>1
<1>2. LeavesHonoured BY DEF AirdropInv
<1>3. QED BY <1>1, <1>2 DEF AllocationsHonoured, LeavesHonoured, Owed

\* For any trees, lists, terms and deposits, what the schedules owe is there, and a
\* claimant gets one leaf's amount in all.
THEOREM AllocationsAreHonoured == AirdropSpec => []AllocationsHonoured
BY AirdropStart, AirdropInduction, HonouredFromInv, PTL DEF AirdropSpec

----
(* Subscriptions.                                                          *)

PlanRecords == [amount : Nat \ {0}, interval : Nat \ {0}, discount : Nat, active : BOOLEAN]
Purses == [Subscribers -> Int]
Registers == [Subscribers -> [PlanIds -> Infos \cup {NoPlan}]]
Places == Subscribers \X PlanIds

SubscriptionTyped ==
    /\ now \in Nat /\ plans \in [PlanIds -> PlanRecords \cup {NoPlan}] /\ subs \in Registers
    /\ subBal \in Purses /\ subAllow \in Purses /\ received \in Purses
    /\ prepaidPot \in Int /\ replacedPrepaid \in Int

\* A delinquency is of the current interval, and none starts in a trial.
Current(info) ==
    info # NoPlan => /\ info.since # NoPlan => info.since >= info.last + info.interval /\ info.trialDone
                     /\ info.suspended => info.since # NoPlan

AllCurrent == \A s \in Subscribers, p \in PlanIds : Current(subs[s][p])

SubscriptionInv == SubscriptionTyped /\ PrepaidAccounted /\ AllCurrent

\* A record is not the mark of an absent one.
LEMMA InfoIsNotAbsent == \A info \in Infos : info # NoPlan /\ Left(info) = info.prepaid /\ Left(info) \in Int
<1>1. NoPlan \notin Infos BY SubscriptionAssumption
<1>2. SUFFICES ASSUME NEW info \in Infos PROVE info # NoPlan /\ Left(info) = info.prepaid /\ Left(info) \in Int OBVIOUS
<1>3. info # NoPlan BY <1>1
<1>4. info.prepaid \in Int BY DEF Infos
<1>5. QED BY <1>3, <1>4 DEF Left

\* The end of a trial, a payment and a missed payment: the record stays a record,
\* its prepaid money is the same and its delinquency is of the current interval.
LEMMA TrialEnds ==
    ASSUME NEW info \in Infos, Current(info), now \in Nat, ~info.trialDone
    PROVE  LET i == [info EXCEPT !.trialDone = TRUE, !.last = now]
           IN  i \in Infos /\ Current(i) /\ i.prepaid = info.prepaid
<1> DEFINE i == [info EXCEPT !.trialDone = TRUE, !.last = now]
<1>1. info.since = NoPlan /\ ~info.suspended BY InfoIsNotAbsent DEF Current
<1>2. /\ i \in Infos /\ i.prepaid = info.prepaid
      /\ i.since = info.since /\ ~i.suspended
  <2>0. now \in Int OBVIOUS
  <2>1. i \in Infos
    <3>1. PICK t \in BOOLEAN : t = TRUE BY Zenon
    <3>2. [info EXCEPT !.trialDone = t, !.last = now] \in Infos BY <2>0 DEF Infos
    <3>3. QED BY <3>1, <3>2, Zenon
  <2>2. i.prepaid = info.prepaid /\ i.since = info.since BY DEF Infos
  <2>3. ~i.suspended BY <1>1 DEF Infos
  <2>4. QED BY <2>1, <2>2, <2>3
<1>3. Current(i)
  <2> HIDE DEF i
  <2>1. QED BY <1>1, <1>2 DEF Current
<1>4. QED BY <1>2, <1>3

\* A payment moves the due date on and ends the delinquency.
LEMMA PaymentSettles ==
    ASSUME NEW info \in Infos, Current(info), now \in Nat, Due(info)
    PROVE  Settled(info) \in Infos /\ Current(Settled(info)) /\ Settled(info).prepaid = info.prepaid
<1> DEFINE i == Settled(info)
<1>1. ~info.suspended BY DEF Due
<1>2. i \in Infos /\ i.prepaid = info.prepaid /\ i.since = NoPlan /\ ~i.suspended
  <2>0. now \in Int /\ NoPlan \in Int \cup {NoPlan} OBVIOUS
  <2>1. i \in Infos BY <2>0 DEF Infos, Settled
  <2>2. i.prepaid = info.prepaid /\ i.since = NoPlan BY DEF Infos, Settled
  <2>3. ~i.suspended BY <1>1 DEF Infos, Settled
  <2>4. QED BY <2>1, <2>2, <2>3
<1>3. Current(i)
  <2> HIDE DEF i
  <2>1. QED BY <1>1, <1>2 DEF Current
<1>4. QED BY <1>2, <1>3

\* The negation of a Boolean is one.
LEMMA Negated ==
    ASSUME NEW o \in BOOLEAN
    PROVE  \E a \in BOOLEAN : a = ~o
<1>1. CASE o BY <1>1, Zenon
<1>2. CASE ~o BY <1>2, Zenon
<1>3. QED BY <1>1, <1>2

\* A missed payment starts a delinquency of the interval that is due.
LEMMA MissedIsCurrent ==
    ASSUME NEW info \in Infos, Current(info), now \in Nat, Due(info), info.trialDone
    PROVE  Missed(info) \in Infos /\ Current(Missed(info)) /\ Missed(info).prepaid = info.prepaid
<1> DEFINE since == IF info.since = NoPlan THEN now ELSE info.since
           over == now >= since + grace
<1>1. NoPlan \notin Int BY SubscriptionAssumption
<1>2. since \in Int /\ since # NoPlan BY <1>1 DEF Infos
<1>3. since >= info.last + info.interval
  <2>1. CASE info.since = NoPlan BY <2>1, InfoIsNotAbsent DEF Due, Infos
  <2>2. CASE info.since # NoPlan BY <2>2, InfoIsNotAbsent DEF Current
  <2>3. QED BY <2>1, <2>2
<1>4. PICK o \in BOOLEAN : o = over
  <2>1. over \in BOOLEAN OBVIOUS
  <2> HIDE DEF over
  <2>2. QED BY <2>1, Zenon
<1>5. Missed(info) = [info EXCEPT !.since = since, !.active = ~o, !.suspended = o] BY <1>4 DEF Missed
<1> HIDE DEF since, over
<1>7. PICK a \in BOOLEAN : a = ~o BY Negated
<1>8. Missed(info) = [info EXCEPT !.since = since, !.active = a, !.suspended = o] BY <1>5, <1>7
<1>9. /\ Missed(info).since = since /\ Missed(info).last = info.last /\ Missed(info).interval = info.interval
      /\ Missed(info).trialDone = info.trialDone /\ Missed(info).prepaid = info.prepaid /\ Missed(info) \in Infos
  BY <1>2, <1>8 DEF Infos
<1>10. Current(Missed(info)) BY <1>2, <1>3, <1>9 DEF Current
<1>11. QED BY <1>9, <1>10

\* What charges work on, with the prepaid money of the register r.
ChargeStates == [subs : Registers, bal : Purses, allow : Purses, got : Purses]
Charged(r) ==
    {x \in ChargeStates : \A s \in Subscribers, p \in PlanIds :
                              Left(x.subs[s][p]) = Left(r[s][p]) /\ Current(x.subs[s][p])}

\* A charge that writes one record and the books of the token.
LEMMA ChargeWrites ==
    ASSUME NEW r, NEW x \in Charged(r), NEW s \in Subscribers, NEW p \in PlanIds, NEW i \in Infos, Current(i),
           Left(i) = Left(x.subs[s][p]), NEW b \in Purses, NEW a \in Purses, NEW g \in Purses,
           NEW y, y.subs = [x.subs EXCEPT ![s][p] = i], y.bal = b, y.allow = a, y.got = g,
           y = [subs |-> y.subs, bal |-> y.bal, allow |-> y.allow, got |-> y.got]
    PROVE  y \in Charged(r)
<1>1. x.subs \in Registers BY DEF Charged, ChargeStates
<1>2. y.subs \in Registers BY <1>1 DEF Registers
<1>3. y \in ChargeStates BY <1>2 DEF ChargeStates
<1>4. ASSUME NEW t \in Subscribers, NEW q \in PlanIds
      PROVE  Left(y.subs[t][q]) = Left(r[t][q]) /\ Current(y.subs[t][q])
  <2>0. Left(x.subs[t][q]) = Left(r[t][q]) /\ Current(x.subs[t][q]) BY DEF Charged
  <2>1. CASE t = s /\ q = p
    <3>1. y.subs[t][q] = i BY <1>1, <2>1 DEF Registers
    <3>2. QED BY <2>0, <2>1, <3>1
  <2>2. CASE ~(t = s /\ q = p)
    <3>1. y.subs[t][q] = x.subs[t][q] BY <1>1, <2>2 DEF Registers
    <3>2. QED BY <2>0, <3>1
  <2>3. QED BY <2>1, <2>2
<1>5. QED BY <1>3, <1>4 DEF Charged

\* One charge keeps every record current and what it says was prepaid.
LEMMA ChargeOneStays ==
    ASSUME now \in Nat, NEW r, NEW x \in Charged(r), NEW s \in Subscribers, NEW p \in PlanIds
    PROVE  ChargeOne(x, s, p) \in Charged(r)
<1> DEFINE info == x.subs[s][p]
           paid == x.bal[s] >= info.amount /\ x.allow[s] >= info.amount
           y == ChargeOne(x, s, p)
<1>1. /\ x.subs \in Registers /\ x.bal \in Purses /\ x.allow \in Purses /\ x.got \in Purses
      /\ x = [subs |-> x.subs, bal |-> x.bal, allow |-> x.allow, got |-> x.got] /\ Current(info)
  BY DEF Charged, ChargeStates
<1>2. info \in Infos \cup {NoPlan} BY <1>1 DEF Registers
<1>3. Due(info) => info \in Infos BY <1>2 DEF Due
<1>4. CASE ~Due(info)
  <2>1. y = x BY <1>4 DEF ChargeOne
  <2>2. QED BY <2>1
<1>5. CASE Due(info) /\ ~info.trialDone
  <2> DEFINE i == [info EXCEPT !.trialDone = TRUE, !.last = now]
  <2>1. i \in Infos /\ Current(i) /\ i.prepaid = info.prepaid BY <1>1, <1>3, <1>5, TrialEnds
  <2>2. Left(i) = Left(info) BY <1>3, <1>5, <2>1, InfoIsNotAbsent
  <2>3. y = [x EXCEPT !.subs[s][p] = i] BY <1>5 DEF ChargeOne
  <2> HIDE DEF i
  <2>4. /\ y.subs = [x.subs EXCEPT ![s][p] = i] /\ y.bal = x.bal /\ y.allow = x.allow /\ y.got = x.got
        /\ y = [subs |-> y.subs, bal |-> y.bal, allow |-> y.allow, got |-> y.got]
    BY <1>1, <2>3
  <2> HIDE DEF y
  <2>5. y \in Charged(r) BY <1>1, <2>1, <2>2, <2>4, ChargeWrites
  <2>6. QED BY <2>5 DEF y
<1>6. CASE Due(info) /\ info.trialDone /\ paid
  <2> DEFINE i == Settled(info)
             c == info.amount
             b == [x.bal EXCEPT ![s] = @ - c]
             a == [x.allow EXCEPT ![s] = @ - c]
             g == [x.got EXCEPT ![s] = @ + c]
  <2>0. c \in Int BY <1>3, <1>6 DEF Infos
  <2>1. i \in Infos /\ Current(i) /\ i.prepaid = info.prepaid BY <1>1, <1>3, <1>6, PaymentSettles
  <2>2. Left(i) = Left(info) BY <1>3, <1>6, <2>1, InfoIsNotAbsent
  <2>3. y = [x EXCEPT !.subs[s][p] = i, !.bal[s] = @ - c, !.allow[s] = @ - c, !.got[s] = @ + c]
    BY <1>6 DEF ChargeOne
  <2>4. b \in Purses /\ a \in Purses /\ g \in Purses BY <1>1, <2>0 DEF Purses
  <2> HIDE DEF i, c
  <2>5. /\ y.subs = [x.subs EXCEPT ![s][p] = i] /\ y.bal = b /\ y.allow = a /\ y.got = g
        /\ y = [subs |-> y.subs, bal |-> y.bal, allow |-> y.allow, got |-> y.got]
    BY <1>1, <2>3
  <2> HIDE DEF y, a, b, g
  <2>6. y \in Charged(r) BY <1>1, <2>1, <2>2, <2>4, <2>5, ChargeWrites
  <2>7. QED BY <2>6 DEF y
<1>7. CASE Due(info) /\ info.trialDone /\ ~paid
  <2> DEFINE i == Missed(info)
  <2>1. i \in Infos /\ Current(i) /\ i.prepaid = info.prepaid BY <1>1, <1>3, <1>7, MissedIsCurrent
  <2>2. Left(i) = Left(info) BY <1>3, <1>7, <2>1, InfoIsNotAbsent
  <2>3. y = [x EXCEPT !.subs[s][p] = i] BY <1>7 DEF ChargeOne
  <2> HIDE DEF i
  <2>4. /\ y.subs = [x.subs EXCEPT ![s][p] = i] /\ y.bal = x.bal /\ y.allow = x.allow /\ y.got = x.got
        /\ y = [subs |-> y.subs, bal |-> y.bal, allow |-> y.allow, got |-> y.got]
    BY <1>1, <2>3
  <2> HIDE DEF y
  <2>5. y \in Charged(r) BY <1>1, <2>1, <2>2, <2>4, ChargeWrites
  <2>6. QED BY <2>5 DEF y
<1>8. QED BY <1>4, <1>5, <1>6, <1>7

\* A batch is a fold of single charges, so it stays within any set they do not leave.
LEMMA ChargesStay ==
    ASSUME NEW X, NEW st \in X, NEW list \in Seq(Places),
           \A e \in Places : \A x \in X : ChargeOne(x, e[1], e[2]) \in X
    PROVE  FoldLeft(LAMBDA acc, e : ChargeOne(acc, e[1], e[2]), st, list) \in X
<1> DEFINE S == DOMAIN list
           Step(g) == [T \in SUBSET S |->
                         IF T = {} THEN st
                         ELSE ChargeOne(g[T \ {Max(T)}], list[Max(T)][1], list[Max(T)][2])]
           G == CHOOSE g : g = Step(g)
           pick == [T \in SUBSET S |-> Max(T)]
           step == [z \in S |-> [x \in X |-> ChargeOne(x, list[z][1], list[z][2])]]
<1>1. S \in SUBSET Int /\ IsFiniteSet(S)
  <2>1. Len(list) \in Nat /\ S = 1 .. Len(list) OBVIOUS
  <2>2. QED BY <2>1, FS_Interval
<1>2. \A T \in SUBSET S : T # {} => Max(T) \in T
  <2>1. SUFFICES ASSUME NEW T \in SUBSET S, T # {} PROVE Max(T) \in T OBVIOUS
  <2> HIDE DEF S
  <2>2. \E x \in T : \A y \in T : x >= y BY <1>1, <2>1, TopExists
  <2>3. QED BY <2>2 DEF Max
<1>3. \A z \in S : list[z] \in Places OBVIOUS
<1>4. \A z \in S : \A x \in X : step[z][x] = ChargeOne(x, list[z][1], list[z][2]) /\ step[z][x] \in X BY <1>3
<1>5. \A T \in SUBSET S : pick[T] = Max(T) OBVIOUS
<1>6. \E F : F = Step(F)
  <2>1. \A T \in SUBSET S : T # {} => pick[T] \in T BY <1>2, <1>5
  <2>0. \A z \in S : \A x \in X : step[z][x] \in X BY <1>4
  <2> HIDE DEF S, pick, step, Step, G
  <2> DEFINE Y == [T \in SUBSET S |-> X]
  <2>b. /\ st \in Y[{}]
        /\ \A T \in SUBSET S : T # {} => \A x \in Y[T \ {pick[T]}] : step[pick[T]][x] \in Y[T]
    <3>1. \A T \in SUBSET S : Y[T] = X /\ T \ {pick[T]} \in SUBSET S OBVIOUS
    <3> HIDE DEF Y
    <3>2. QED BY <2>0, <2>1, <3>1
  <2> HIDE DEF Y
  <2>a. PICK F : IsFold(F, S, Y, st, pick, step) BY <1>1, <2>b, <2>1, FoldTableExists
  <2>2. /\ F = [T \in SUBSET S |-> F[T]] /\ \A T \in SUBSET S : F[T] \in X
        /\ \A T \in SUBSET S : F[T] = IF T = {} THEN st ELSE step[pick[T]][F[T \ {pick[T]}]]
    BY <2>a DEF IsFold, Y
  <2>3. ASSUME NEW T \in SUBSET S
        PROVE  F[T] = IF T = {} THEN st ELSE ChargeOne(F[T \ {Max(T)}], list[Max(T)][1], list[Max(T)][2])
    <3>1. CASE T = {} BY <2>2, <3>1
    <3>2. CASE T # {}
      <4>1. Max(T) \in S /\ T \ {Max(T)} \in SUBSET S BY <1>2, <3>2
      <4>2. F[T \ {Max(T)}] \in X BY <2>2, <4>1
      <4>3. F[T] = step[Max(T)][F[T \ {Max(T)}]] BY <1>5, <2>2, <3>2
      <4>4. QED BY <1>4, <3>2, <4>1, <4>2, <4>3
    <3>3. QED BY <3>1, <3>2
  <2>5. F = Step(F) BY <2>2, <2>3 DEF Step
  <2>6. QED BY <2>5
<1>7. G = Step(G)
  <2> HIDE DEF Step
  <2>1. QED BY <1>6
<1>8. FoldLeft(LAMBDA acc, e : ChargeOne(acc, e[1], e[2]), st, list) = G[S] BY DEF FoldLeft, MapThenFoldSet
<1> DEFINE D == {T \in SUBSET S : G[T] \in X}
<1>9. ASSUME NEW T \in SUBSET S, \A U \in SUBSET T : U # T => U \in D PROVE T \in D
  <2> HIDE DEF G, S
  <2>1. CASE T = {} BY <1>7, <2>1
  <2>2. CASE T # {}
    <3>1. Max(T) \in T BY <1>2, <2>2
    <3>2. G[T] = ChargeOne(G[T \ {Max(T)}], list[Max(T)][1], list[Max(T)][2]) BY <1>7, <2>2
    <3>3. G[T \ {Max(T)}] \in X BY <1>9, <3>1
    <3>4. list[Max(T)] \in Places BY <1>3, <3>1
    <3>5. QED BY <3>2, <3>3, <3>4
  <2>3. QED BY <2>1, <2>2
<1>10. S \in D
  <2> HIDE DEF D, S, G
  <2>1. QED BY <1>1, <1>9, SubsetInduction
<1>11. QED BY <1>8, <1>10

\* What a record says was prepaid is a number.
LEMMA PrepaidTyped ==
    ASSUME NEW r \in Registers
    PROVE  \A s \in Subscribers, p \in PlanIds : Left(r[s][p]) \in Int
<1>1. \A s \in Subscribers, p \in PlanIds : r[s][p] \in Infos \cup {NoPlan} BY DEF Registers
<1>2. Left(NoPlan) \in Int BY DEF Left
<1>3. QED BY <1>1, <1>2, InfoIsNotAbsent

\* Only one place's prepaid money changes, by d.
LEMMA PrepaidChange ==
    ASSUME subs \in Registers, subs' \in Registers, NEW s \in Subscribers, NEW p \in PlanIds, NEW d \in Int,
           Left(subs'[s][p]) = Left(subs[s][p]) + d,
           \A t \in Subscribers, q \in PlanIds : (t # s \/ q # p) => Left(subs'[t][q]) = Left(subs[t][q])
    PROVE  SumFunctionOnSet(PrepaidOn', Places) = SumFunctionOnSet(PrepaidOn, Places) + d
<1> DEFINE f == PrepaidOn
           g == PrepaidOn'
           e == <<s, p>>
<1>1. IsFiniteSet(Places)
  <2>1. IsFiniteSet(Subscribers) /\ IsFiniteSet(PlanIds) BY SubscriptionAssumption
  <2>2. QED BY <2>1, FS_Product DEF Places
<1>2. \A z \in Places : f[z] = Left(subs[z[1]][z[2]]) /\ g[z] = Left(subs'[z[1]][z[2]]) /\ f[z] \in Int
  BY PrepaidTyped DEF PrepaidOn, Places
<1>3. e \in Places /\ g[e] = f[e] + d BY <1>2 DEF Places
<1>4. ASSUME NEW z \in Places, z # e PROVE g[z] = f[z]
  <2>1. PICK t \in Subscribers, q \in PlanIds : z = <<t, q>> BY DEF Places
  <2>2. t # s \/ q # p BY <1>4, <2>1
  <2>3. g[z] = Left(subs'[t][q]) /\ f[z] = Left(subs[t][q]) BY <1>2, <2>1
  <2>4. QED BY <2>2, <2>3
<1> HIDE DEF f, g, e
<1>5. SumFunctionOnSet(g, Places) = SumFunctionOnSet(f, Places) + d
  BY <1>1, <1>2, <1>3, <1>4, SumBump
<1>6. QED BY <1>5 DEF f, g

\* No place's prepaid money changes.
LEMMA PrepaidSame ==
    ASSUME \A t \in Subscribers, q \in PlanIds : Left(subs'[t][q]) = Left(subs[t][q])
    PROVE  PrepaidOn' = PrepaidOn
<1>1. \A z \in Places : z[1] \in Subscribers /\ z[2] \in PlanIds BY DEF Places
<1>2. QED BY <1>1 DEF PrepaidOn, Places

\* So is the sum over the records.
LEMMA PrepaidSumTyped ==
    ASSUME subs \in Registers
    PROVE  SumFunctionOnSet(PrepaidOn, Places) \in Int
<1>1. IsFiniteSet(Places)
  <2>1. IsFiniteSet(Subscribers) /\ IsFiniteSet(PlanIds) BY SubscriptionAssumption
  <2>2. QED BY <2>1, FS_Product DEF Places
<1>2. \A z \in Places : PrepaidOn[z] \in Int BY PrepaidTyped DEF PrepaidOn, Places
<1>3. QED BY <1>1, <1>2, SumBasics

\* The contract starts without records.
LEMMA SubscriptionStarts == SubscriptionInit => SubscriptionInv
<1> SUFFICES ASSUME SubscriptionInit PROVE SubscriptionInv OBVIOUS
<1>0. SubscriberFunds \in Int BY SubscriptionAssumption
<1>1. SubscriptionTyped BY <1>0 DEF SubscriptionInit, SubscriptionTyped, Registers, Purses
<1>2. AllCurrent BY DEF SubscriptionInit, AllCurrent, Current
<1>3. PrepaidAccounted
  <2>1. IsFiniteSet(Places)
    <3>1. IsFiniteSet(Subscribers) /\ IsFiniteSet(PlanIds) BY SubscriptionAssumption
    <3>2. QED BY <3>1, FS_Product DEF Places
  <2>2. \A z \in Places : PrepaidOn[z] = 0 BY DEF PrepaidOn, Places, SubscriptionInit, Left
  <2>3. SumFunctionOnSet(PrepaidOn, Places) = 0 BY <2>1, <2>2, SumOfZeros
  <2>4. QED BY <2>3 DEF PrepaidAccounted, SubscriptionInit, Places
<1>4. QED BY <1>1, <1>2, <1>3 DEF SubscriptionInv

\* A record is written at one place, and d is what it changes of the prepaid money.
LEMMA RecordWritten ==
    ASSUME SubscriptionInv, NEW s \in Subscribers, NEW p \in PlanIds, NEW i \in Infos, Current(i),
           subs' = [subs EXCEPT ![s][p] = i], NEW d \in Int, d = i.prepaid - Left(subs[s][p])
    PROVE  /\ subs' \in Registers /\ AllCurrent'
           /\ SumFunctionOnSet(PrepaidOn', Places) = SumFunctionOnSet(PrepaidOn, Places) + d
<1>1. subs \in Registers BY DEF SubscriptionInv, SubscriptionTyped
<1>2. subs' \in Registers BY <1>1 DEF Registers
<1>3. subs'[s][p] = i BY <1>1 DEF Registers
<1>4. \A t \in Subscribers, q \in PlanIds : (t # s \/ q # p) => subs'[t][q] = subs[t][q] BY <1>1 DEF Registers
<1>5. AllCurrent' BY <1>3, <1>4 DEF AllCurrent, SubscriptionInv
<1>6. Left(subs'[s][p]) = i.prepaid /\ i.prepaid \in Int BY <1>3, InfoIsNotAbsent
<1>7. Left(subs[s][p]) \in Int BY <1>1, PrepaidTyped
<1>8. Left(subs'[s][p]) = Left(subs[s][p]) + d BY <1>6, <1>7
<1>9. \A t \in Subscribers, q \in PlanIds : (t # s \/ q # p) => Left(subs'[t][q]) = Left(subs[t][q]) BY <1>4
<1>10. SumFunctionOnSet(PrepaidOn', Places) = SumFunctionOnSet(PrepaidOn, Places) + d
  BY <1>1, <1>2, <1>8, <1>9, PrepaidChange
<1>11. QED BY <1>2, <1>5, <1>10

\* A new record has no delinquency.
LEMMA NewRecord ==
    ASSUME SubscriptionTyped, NEW p \in PlanIds, plans[p] # NoPlan, NEW trial \in Nat, NEW done \in BOOLEAN,
           NEW last \in Int, NEW prepaid \in Int
    PROVE  LET i == NewSubscription(p, trial, done, last, prepaid)
           IN  i \in Infos /\ Current(i) /\ i.prepaid = prepaid
<1> DEFINE i == NewSubscription(p, trial, done, last, prepaid)
<1>1. plans[p] \in PlanRecords BY DEF SubscriptionTyped
<1>2. plans[p].amount \in Int /\ plans[p].interval \in Nat \ {0} BY <1>1 DEF PlanRecords
<1>3. PICK t \in BOOLEAN, f \in BOOLEAN : t = TRUE /\ f = FALSE BY Zenon
<1> DEFINE j == [amount |-> plans[p].amount, interval |-> plans[p].interval, prepaid |-> prepaid, trial |-> trial,
                 trialDone |-> done, last |-> last, active |-> t, suspended |-> f, since |-> NoPlan]
<1>4. i = j BY <1>3, Zenon DEF NewSubscription
<1>5. j \in Infos BY <1>2 DEF Infos
<1>6. j.prepaid = prepaid /\ j.since = NoPlan OBVIOUS
<1>7. ~j.suspended
  <2>1. j.suspended = f OBVIOUS
  <2>2. QED BY <1>3, <2>1
<1> HIDE DEF i, j
<1>8. Current(j) BY <1>6, <1>7 DEF Current
<1>9. QED BY <1>4, <1>5, <1>6, <1>8 DEF i

\* subscribe takes the prepayment and may replace a record.
LEMMA SubscribeKeeps ==
    ASSUME SubscriptionInv, NEW s \in Subscribers, NEW p \in PlanIds, NEW trial \in Trials, NEW n \in Prepays,
           Subscribe(s, p, trial, n)
    PROVE  SubscriptionInv'
<1> DEFINE cost == PrepayCost(plans[p].amount, n, plans[p].discount)
           i == NewSubscription(p, trial, trial = 0, now, cost)
           d == cost - Left(subs[s][p])
<1>0. SubscriptionTyped BY DEF SubscriptionInv
<1>1. plans[p] # NoPlan /\ plans[p] \in PlanRecords BY <1>0 DEF Subscribe, SubscriptionTyped
<1>2. trial \in Nat /\ n \in Nat /\ BpsDenominator \in Nat \ {0} BY SubscriptionAssumption
<1>3. cost \in Int
  <2>1. plans[p].amount \in Int /\ plans[p].discount \in Int BY <1>1 DEF PlanRecords
  <2>2. plans[p].amount * n \in Int BY <1>2, <2>1
  <2>3. (BpsDenominator - plans[p].discount) \in Int BY <1>2, <2>1
  <2>4. plans[p].amount * n * (BpsDenominator - plans[p].discount) \in Int BY <2>2, <2>3
  <2>5. \A a \in Int, b \in Nat \ {0} : a \div b \in Int OBVIOUS
  <2>6. QED BY <1>2, <2>4, <2>5 DEF PrepayCost
<1>4. now \in Int /\ prepaidPot \in Int /\ replacedPrepaid \in Int /\ subs \in Registers /\ subBal \in Purses
  BY <1>0 DEF SubscriptionTyped
<1>5. PICK done \in BOOLEAN : done = (trial = 0)
  <2>1. CASE trial = 0 BY <2>1
  <2>2. CASE trial # 0 BY <2>2
  <2>3. QED BY <2>1, <2>2
<1>6. i = NewSubscription(p, trial, done, now, cost) BY <1>5
<1>7. i \in Infos /\ Current(i) /\ i.prepaid = cost
  <2> HIDE DEF cost, i
  <2>1. QED BY <1>0, <1>1, <1>2, <1>3, <1>4, <1>6, NewRecord
<1>8. Left(subs[s][p]) \in Int BY <1>4, PrepaidTyped
<1>9. d \in Int /\ d = i.prepaid - Left(subs[s][p]) BY <1>3, <1>7, <1>8
<1>10. /\ subs' = [subs EXCEPT ![s][p] = i] /\ prepaidPot' = prepaidPot + cost
       /\ replacedPrepaid' = replacedPrepaid + Left(subs[s][p]) /\ subBal' = [subBal EXCEPT ![s] = @ - cost]
       /\ UNCHANGED <<now, plans, subAllow, received>>
  BY DEF Subscribe
<1> HIDE DEF cost, i
<1>11. /\ subs' \in Registers /\ AllCurrent'
       /\ SumFunctionOnSet(PrepaidOn', Places) = SumFunctionOnSet(PrepaidOn, Places) + d
  <2> HIDE DEF d
  <2>1. QED BY <1>7, <1>9, <1>10, RecordWritten
<1>12. prepaidPot = replacedPrepaid + SumFunctionOnSet(PrepaidOn, Places)
  BY DEF SubscriptionInv, PrepaidAccounted, Places
<1>13. SumFunctionOnSet(PrepaidOn, Places) \in Int BY <1>4, PrepaidSumTyped
<1>14. prepaidPot' = replacedPrepaid' + SumFunctionOnSet(PrepaidOn', Places)
  BY <1>3, <1>4, <1>8, <1>10, <1>11, <1>12, <1>13
<1>15. PrepaidAccounted' BY <1>14 DEF PrepaidAccounted, Places
<1>16. SubscriptionTyped'
  <2>1. subBal' \in Purses BY <1>3, <1>4, <1>10 DEF Purses
  <2>2. prepaidPot' \in Int /\ replacedPrepaid' \in Int BY <1>3, <1>4, <1>8, <1>10
  <2>3. QED BY <1>0, <1>10, <1>11, <2>1, <2>2 DEF SubscriptionTyped
<1>17. QED BY <1>11, <1>15, <1>16 DEF SubscriptionInv

\* A batch of charges is a fold of single ones.
LEMMA ChargeBatchKeeps ==
    ASSUME SubscriptionInv, NEW list \in ChargeLists, ChargeBatch(list)
    PROVE  SubscriptionInv'
<1> DEFINE st == [subs |-> subs, bal |-> subBal, allow |-> subAllow, got |-> received]
           end == FoldLeft(LAMBDA acc, e : ChargeOne(acc, e[1], e[2]), st, list)
           X == Charged(subs)
<1>0. SubscriptionTyped /\ AllCurrent BY DEF SubscriptionInv
<1>1. now \in Nat /\ subs \in Registers /\ subBal \in Purses /\ subAllow \in Purses /\ received \in Purses
  BY <1>0 DEF SubscriptionTyped
<1>2. st \in X BY <1>0, <1>1 DEF Charged, ChargeStates, AllCurrent
<1>3. \A e \in Places : \A x \in X : ChargeOne(x, e[1], e[2]) \in X
  <2>1. SUFFICES ASSUME NEW e \in Places, NEW x \in X PROVE ChargeOne(x, e[1], e[2]) \in X OBVIOUS
  <2>2. e[1] \in Subscribers /\ e[2] \in PlanIds BY DEF Places
  <2> HIDE DEF st, end
  <2>3. QED BY <1>1, <2>2, ChargeOneStays
<1>4. list \in Seq(Places) BY SubscriptionAssumption DEF Places
<1>5. end \in X
  <2> HIDE DEF st, X
  <2>1. QED BY <1>2, <1>3, <1>4, ChargesStay
<1>6. /\ subs' = end.subs /\ subBal' = end.bal /\ subAllow' = end.allow /\ received' = end.got
      /\ UNCHANGED <<now, plans, prepaidPot, replacedPrepaid>>
  BY DEF ChargeBatch
<1> HIDE DEF end
<1>7. /\ subs' \in Registers /\ subBal' \in Purses /\ subAllow' \in Purses /\ received' \in Purses
      /\ \A s \in Subscribers, p \in PlanIds : Left(subs'[s][p]) = Left(subs[s][p]) /\ Current(subs'[s][p])
  BY <1>5, <1>6 DEF Charged, ChargeStates
<1>8. SubscriptionTyped' BY <1>0, <1>6, <1>7 DEF SubscriptionTyped
<1>9. AllCurrent' BY <1>7 DEF AllCurrent
<1>10. PrepaidOn' = PrepaidOn BY <1>7, PrepaidSame
<1>11. PrepaidAccounted' BY <1>6, <1>10 DEF SubscriptionInv, PrepaidAccounted
<1>12. QED BY <1>8, <1>9, <1>11 DEF SubscriptionInv

\* cancel refunds what the record says is left.
LEMMA CancelKeeps ==
    ASSUME SubscriptionInv, NEW s \in Subscribers, NEW p \in PlanIds, CancelSubscription(s, p)
    PROVE  SubscriptionInv'
<1> DEFINE info == subs[s][p]
           i == Emptied(info)
           d == -info.prepaid
<1>0. SubscriptionTyped /\ AllCurrent BY DEF SubscriptionInv
<1>1. prepaidPot \in Int /\ replacedPrepaid \in Int /\ subs \in Registers /\ subBal \in Purses
  BY <1>0 DEF SubscriptionTyped
<1>2. info \in Infos BY <1>1 DEF CancelSubscription, Holds, Registers
<1>3. Left(info) = info.prepaid /\ info.prepaid \in Int /\ info # NoPlan BY <1>2, InfoIsNotAbsent
<1>4. Current(info) BY <1>0 DEF AllCurrent
<1>5. i \in Infos /\ i.prepaid = 0 /\ Current(i)
  <2>1. PICK f \in BOOLEAN : f = FALSE BY Zenon
  <2> DEFINE j == [info EXCEPT !.active = f, !.prepaid = 0]
  <2>0. 0 \in Int OBVIOUS
  <2>2. j \in Infos /\ j.prepaid = 0
    <3> HIDE DEF info
    <3>1. j \in Infos BY <1>2, <2>0 DEF Infos
    <3>2. j.prepaid = 0 BY <1>2 DEF Infos
    <3>3. QED BY <3>1, <3>2
  <2>3. j.since = info.since /\ j.last = info.last /\ j.interval = info.interval BY <1>2 DEF Infos
  <2>4. j.trialDone <=> info.trialDone BY <1>2 DEF Infos
  <2>5. j.suspended <=> info.suspended BY <1>2 DEF Infos
  <2>6. i = j BY <2>1, Zenon DEF Emptied
  <2> HIDE DEF i, j, info
  <2>7. Current(j) BY <1>3, <1>4, <2>3, <2>4, <2>5 DEF Current
  <2>8. QED BY <2>2, <2>6, <2>7
<1>6. d \in Int /\ d = i.prepaid - Left(info) BY <1>3, <1>5
<1>7. subs' = [subs EXCEPT ![s][p] = i]
  <2>1. subs' = [subs EXCEPT ![s][p] = Emptied(@)] BY DEF CancelSubscription
  <2>2. QED BY <2>1, <1>1 DEF Registers
<1>8. /\ prepaidPot' = prepaidPot - info.prepaid /\ subBal' = [subBal EXCEPT ![s] = @ + info.prepaid]
      /\ UNCHANGED <<now, plans, subAllow, received, replacedPrepaid>>
  BY DEF CancelSubscription
<1> HIDE DEF i
<1>9. /\ subs' \in Registers /\ AllCurrent'
      /\ SumFunctionOnSet(PrepaidOn', Places) = SumFunctionOnSet(PrepaidOn, Places) + d
  <2> HIDE DEF d
  <2>1. QED BY <1>5, <1>6, <1>7, RecordWritten
<1>10. prepaidPot = replacedPrepaid + SumFunctionOnSet(PrepaidOn, Places)
  BY DEF SubscriptionInv, PrepaidAccounted, Places
<1>11. SumFunctionOnSet(PrepaidOn, Places) \in Int BY <1>1, PrepaidSumTyped
<1> HIDE DEF info
<1>12. prepaidPot' = replacedPrepaid' + SumFunctionOnSet(PrepaidOn', Places)
  BY <1>1, <1>3, <1>8, <1>9, <1>10, <1>11
<1>13. PrepaidAccounted' BY <1>12 DEF PrepaidAccounted, Places
<1>14. SubscriptionTyped'
  <2>1. subBal' \in Purses BY <1>1, <1>3, <1>8 DEF Purses
  <2>2. prepaidPot' \in Int /\ replacedPrepaid' \in Int BY <1>1, <1>3, <1>8
  <2>3. QED BY <1>0, <1>8, <1>9, <2>1, <2>2 DEF SubscriptionTyped
<1>15. QED BY <1>9, <1>13, <1>14 DEF SubscriptionInv

\* What a switch costs, and where it starts the new interval, are numbers.
LEMMA SwitchTyped ==
    ASSUME SubscriptionTyped, NEW s \in Subscribers, NEW p \in PlanIds, NEW q \in PlanIds,
           subs[s][p] \in Infos, plans[q] # NoPlan
    PROVE  LET old == subs[s][p]
               credit == IF old.trialDone THEN Credit(old) ELSE 0
           IN  /\ (IF old.trialDone /\ credit < plans[q].amount THEN plans[q].amount - credit ELSE 0) \in Int
               /\ (IF old.trialDone THEN SwitchedFrom(credit, plans[q]) ELSE old.last) \in Int
<1> DEFINE old == subs[s][p]
           credit == IF old.trialDone THEN Credit(old) ELSE 0
<1>0. \A a \in Int, b \in Nat \ {0} : a \div b \in Int OBVIOUS
<1>a. \A a, b \in Int : a * b \in Int OBVIOUS
<1>1. old.amount \in Int /\ old.last \in Int /\ old.interval \in Nat \ {0} BY DEF Infos
<1>2. now \in Nat /\ plans[q] \in PlanRecords BY DEF SubscriptionTyped
<1>3. plans[q].amount \in Nat \ {0} /\ plans[q].interval \in Nat \ {0} BY <1>2 DEF PlanRecords
<1>4. Credit(old) \in Int
  <2>1. old.last + old.interval - now \in Int BY <1>1, <1>2
  <2>2. old.amount * (old.last + old.interval - now) \in Int BY <1>1, <1>a, <2>1
  <2>3. QED BY <1>0, <1>1, <2>2 DEF Credit
<1>5. credit \in Int BY <1>4
<1> HIDE DEF credit, old
<1>6. SwitchedFrom(credit, plans[q]) \in Int
  <2> DEFINE bought == (credit * plans[q].interval) \div plans[q].amount
  <2>1. credit * plans[q].interval \in Int BY <1>3, <1>5, <1>a
  <2>2. bought \in Int BY <1>0, <1>3, <2>1
  <2> HIDE DEF bought
  <2>3. now + (IF bought > plans[q].interval THEN bought - plans[q].interval ELSE 0) \in Int BY <1>2, <1>3, <2>2
  <2>4. QED BY <1>2, <2>3 DEF SwitchedFrom, bought
<1>7. (IF old.trialDone /\ credit < plans[q].amount THEN plans[q].amount - credit ELSE 0) \in Int BY <1>3, <1>5
<1>8. QED BY <1>1, <1>6, <1>7 DEF old, credit

\* change_plan carries the record over to the other plan.
LEMMA ChangePlanKeeps ==
    ASSUME SubscriptionInv, NEW s \in Subscribers, NEW p \in PlanIds, NEW q \in PlanIds, ChangePlan(s, p, q)
    PROVE  SubscriptionInv'
<1> DEFINE old == subs[s][p]
           credit == IF old.trialDone THEN Credit(old) ELSE 0
           charge == IF old.trialDone /\ credit < plans[q].amount THEN plans[q].amount - credit ELSE 0
           last == IF old.trialDone THEN SwitchedFrom(credit, plans[q]) ELSE old.last
           i == NewSubscription(q, old.trial, old.trialDone, last, 0)
           d == -Left(subs[s][q])
<1>0. SubscriptionTyped /\ AllCurrent BY DEF SubscriptionInv
<1>1. /\ prepaidPot \in Int /\ replacedPrepaid \in Int /\ subs \in Registers
      /\ subBal \in Purses /\ subAllow \in Purses /\ received \in Purses
  BY <1>0 DEF SubscriptionTyped
<1>2. old \in Infos /\ p # q /\ plans[q] # NoPlan BY <1>1 DEF ChangePlan, Holds, Registers
<1>3. charge \in Int /\ last \in Int BY <1>0, <1>2, SwitchTyped
<1>4. old.trial \in Nat /\ old.trialDone \in BOOLEAN BY <1>2 DEF Infos
<1>5. /\ subs' = [subs EXCEPT ![s][p].active = FALSE, ![s][q] = i]
      /\ replacedPrepaid' = replacedPrepaid + Left(subs[s][q])
      /\ subBal' = [subBal EXCEPT ![s] = @ - charge] /\ subAllow' = [subAllow EXCEPT ![s] = @ - charge]
      /\ received' = [received EXCEPT ![s] = @ + charge]
      /\ UNCHANGED <<now, plans, prepaidPot>>
  BY DEF ChangePlan
<1>6. i \in Infos /\ Current(i) /\ i.prepaid = 0
  <2> HIDE DEF last, old
  <2>0. 0 \in Int OBVIOUS
  <2>1. QED BY <1>0, <1>2, <1>3, <1>4, <2>0, NewRecord
<1> HIDE DEF i, charge, last, credit
<1>7. PICK f \in BOOLEAN : f = FALSE BY Zenon
<1> DEFINE j == [old EXCEPT !.active = f]
<1>8. j \in Infos /\ Current(j) /\ j.prepaid = old.prepaid
  <2>1. Current(old) /\ old # NoPlan BY <1>0, <1>2, InfoIsNotAbsent DEF AllCurrent
  <2>2. j \in Infos /\ j.prepaid = old.prepaid BY <1>2 DEF Infos
  <2>3. j.since = old.since /\ j.last = old.last /\ j.interval = old.interval BY <1>2 DEF Infos
  <2>4. j.trialDone <=> old.trialDone BY <1>2 DEF Infos
  <2>5. j.suspended <=> old.suspended BY <1>2 DEF Infos
  <2> HIDE DEF j, old
  <2>6. Current(j) BY <2>1, <2>3, <2>4, <2>5 DEF Current
  <2>7. QED BY <2>2, <2>6
<1>9. subs' = [subs EXCEPT ![s] = [subs[s] EXCEPT ![p] = j, ![q] = i]]
  <2>1. subs' = [subs EXCEPT ![s][p].active = f, ![s][q] = i] BY <1>5, <1>7, Zenon
  <2>2. QED BY <1>1, <2>1 DEF Registers
<1> HIDE DEF j
<1>10. subs' \in Registers BY <1>1, <1>6, <1>8, <1>9 DEF Registers
<1>11. subs'[s][p] = j /\ subs'[s][q] = i BY <1>1, <1>2, <1>9 DEF Registers
<1>12. ASSUME NEW t \in Subscribers, NEW v \in PlanIds, t # s \/ (v # p /\ v # q) PROVE subs'[t][v] = subs[t][v]
  BY <1>1, <1>9, <1>12 DEF Registers
<1>13. AllCurrent'
  <2>1. ASSUME NEW t \in Subscribers, NEW v \in PlanIds PROVE Current(subs'[t][v])
    <3>1. CASE t # s \/ (v # p /\ v # q) BY <1>0, <1>12, <3>1 DEF AllCurrent
    <3>2. CASE t = s /\ v = p BY <1>8, <1>11, <3>2
    <3>3. CASE t = s /\ v = q BY <1>6, <1>11, <3>3
    <3>4. QED BY <3>1, <3>2, <3>3
  <2>2. QED BY <2>1 DEF AllCurrent
<1>14. Left(subs[s][q]) \in Int BY <1>1, PrepaidTyped
<1>15. d \in Int /\ Left(subs'[s][q]) = Left(subs[s][q]) + d
  <2>1. Left(subs'[s][q]) = 0 BY <1>6, <1>11, InfoIsNotAbsent
  <2>2. QED BY <1>14, <2>1
<1>16. ASSUME NEW t \in Subscribers, NEW v \in PlanIds, t # s \/ v # q PROVE Left(subs'[t][v]) = Left(subs[t][v])
  <2>1. CASE t # s \/ (v # p /\ v # q) BY <1>12, <2>1
  <2>2. CASE t = s /\ v = p BY <1>2, <1>8, <1>11, <2>2, InfoIsNotAbsent
  <2>3. QED BY <1>16, <2>1, <2>2
<1>17. SumFunctionOnSet(PrepaidOn', Places) = SumFunctionOnSet(PrepaidOn, Places) + d
  <2> HIDE DEF d
  <2>1. QED BY <1>1, <1>10, <1>15, <1>16, PrepaidChange
<1>18. prepaidPot = replacedPrepaid + SumFunctionOnSet(PrepaidOn, Places)
  BY DEF SubscriptionInv, PrepaidAccounted, Places
<1>19. SumFunctionOnSet(PrepaidOn, Places) \in Int BY <1>1, PrepaidSumTyped
<1>20. prepaidPot' = replacedPrepaid' + SumFunctionOnSet(PrepaidOn', Places)
  BY <1>1, <1>5, <1>14, <1>17, <1>18, <1>19
<1>21. PrepaidAccounted' BY <1>20 DEF PrepaidAccounted, Places
<1>22. SubscriptionTyped'
  <2>1. subBal' \in Purses /\ subAllow' \in Purses /\ received' \in Purses BY <1>1, <1>3, <1>5 DEF Purses
  <2>2. prepaidPot' \in Int /\ replacedPrepaid' \in Int BY <1>1, <1>5, <1>14
  <2>3. QED BY <1>0, <1>5, <1>10, <2>1, <2>2 DEF SubscriptionTyped
<1>23. QED BY <1>13, <1>21, <1>22 DEF SubscriptionInv

\* Every step of the subscription keeps the invariant.
LEMMA SubscriptionKeeps == SubscriptionInv /\ [SubscriptionNext]_subscriptionVars => SubscriptionInv'
<1> SUFFICES ASSUME SubscriptionInv, [SubscriptionNext]_subscriptionVars PROVE SubscriptionInv' OBVIOUS
<1>0. SubscriptionTyped /\ PrepaidAccounted /\ AllCurrent BY DEF SubscriptionInv
\* Actions that leave the records and the money they hold alone.
<1>a. ASSUME UNCHANGED <<subs, received, subBal, prepaidPot, replacedPrepaid>>, now' \in Nat,
             plans' \in [PlanIds -> PlanRecords \cup {NoPlan}], subAllow' \in Purses
      PROVE  SubscriptionInv'
  <2>1. SubscriptionTyped' BY <1>0, <1>a DEF SubscriptionTyped
  <2>2. AllCurrent' BY <1>0, <1>a DEF AllCurrent
  <2>3. PrepaidOn' = PrepaidOn BY <1>a DEF PrepaidOn
  <2>4. PrepaidAccounted' BY <1>0, <1>a, <2>3 DEF PrepaidAccounted
  <2>5. QED BY <2>1, <2>2, <2>4 DEF SubscriptionInv
<1>1. now \in Nat /\ plans \in [PlanIds -> PlanRecords \cup {NoPlan}] /\ subAllow \in Purses
  BY <1>0 DEF SubscriptionTyped
<1>2. CASE InitializeSubscription BY <1>1, <1>2, <1>a DEF InitializeSubscription
<1>3. CASE \E g \in GracePeriods : SetGracePeriod(g) BY <1>1, <1>3, <1>a DEF SetGracePeriod
<1>4. ASSUME NEW t \in PlanTerms, RegisterPlan(t) PROVE SubscriptionInv'
  <2>1. t.id \in PlanIds /\ t.amount \in Int /\ {t.interval, t.discount} \subseteq Nat BY SubscriptionAssumption
  <2>2. t.amount \in Nat \ {0} /\ t.interval \in Nat \ {0} /\ t.discount \in Nat BY <1>4, <2>1 DEF RegisterPlan
  <2>3. PICK on \in BOOLEAN : on = TRUE BY Zenon
  <2> DEFINE rec == [amount |-> t.amount, interval |-> t.interval, discount |-> t.discount, active |-> on]
  <2>4. rec \in PlanRecords BY <2>2 DEF PlanRecords
  <2>5. plans' = [plans EXCEPT ![t.id] = rec] BY <1>4, <2>3, Zenon DEF RegisterPlan
  <2> HIDE DEF rec
  <2>6. plans' \in [PlanIds -> PlanRecords \cup {NoPlan}] BY <1>1, <2>1, <2>4, <2>5
  <2>7. QED BY <1>1, <1>4, <1>a, <2>6 DEF RegisterPlan
<1>5. ASSUME NEW p \in PlanIds, NEW on \in BOOLEAN, SetPlanActive(p, on) PROVE SubscriptionInv'
  <2>1. plans[p] \in PlanRecords BY <1>1, <1>5 DEF SetPlanActive
  <2>2. [plans[p] EXCEPT !.active = on] \in PlanRecords BY <2>1 DEF PlanRecords
  <2>3. plans' = [plans EXCEPT ![p] = [plans[p] EXCEPT !.active = on]] BY <1>1, <1>5 DEF SetPlanActive
  <2>4. plans' \in [PlanIds -> PlanRecords \cup {NoPlan}] BY <1>1, <2>2, <2>3
  <2>5. QED BY <1>1, <1>5, <1>a, <2>4 DEF SetPlanActive
<1>6. ASSUME NEW s \in Subscribers, NEW x \in Approvals, Approve(s, x) PROVE SubscriptionInv'
  <2>1. x \in Int BY SubscriptionAssumption
  <2>2. subAllow' \in Purses BY <1>1, <1>6, <2>1 DEF Approve, Purses
  <2>3. QED BY <1>1, <1>6, <1>a, <2>2 DEF Approve
<1>7. ASSUME NEW s \in Subscribers, NEW p \in PlanIds, NEW d \in Trials, NEW n \in Prepays, Subscribe(s, p, d, n)
      PROVE  SubscriptionInv'
  BY <1>7, SubscribeKeeps
<1>8. ASSUME NEW l \in ChargeLists, ChargeBatch(l) PROVE SubscriptionInv' BY <1>8, ChargeBatchKeeps
<1>9. ASSUME NEW s \in Subscribers, NEW p \in PlanIds, NEW q \in PlanIds, ChangePlan(s, p, q) PROVE SubscriptionInv'
  BY <1>9, ChangePlanKeeps
<1>10. ASSUME NEW s \in Subscribers, NEW p \in PlanIds, CancelSubscription(s, p) PROVE SubscriptionInv'
  BY <1>10, CancelKeeps
<1>11. CASE LedgerCloses /\ UNCHANGED subscriptionOnlyVars
  BY <1>1, <1>11, <1>a DEF LedgerCloses, subscriptionOnlyVars
<1>12. CASE UNCHANGED subscriptionVars BY <1>1, <1>12, <1>a DEF subscriptionVars, subscriptionOnlyVars
<1>13. QED BY <1>2, <1>3, <1>4, <1>5, <1>6, <1>7, <1>8, <1>9, <1>10, <1>11, <1>12 DEF SubscriptionNext

\* For every register of subscriptions: the contract holds what the records say was
\* prepaid, whatever is charged, cancelled, switched or replaced.
THEOREM PrepaidIsAccountedFor == SubscriptionSpec => []PrepaidAccounted
<1>1. SubscriptionInv => PrepaidAccounted BY DEF SubscriptionInv
<1>2. QED BY <1>1, SubscriptionStarts, SubscriptionKeeps, PTL DEF SubscriptionSpec

\* Nobody is suspended for a failure older than the interval that is unpaid.
THEOREM DelinquencyStaysCurrent == SubscriptionSpec => []DelinquencyIsCurrent
<1>1. SubscriptionInv => DelinquencyIsCurrent
  <2> SUFFICES ASSUME SubscriptionInv, NEW r \in Records
               PROVE  LET info == subs[r[1]][r[2]] IN
                      /\ info.since # NoPlan => info.since >= info.last + info.interval
                      /\ info.suspended => info.since # NoPlan
    BY DEF DelinquencyIsCurrent
  <2>1. r[1] \in Subscribers /\ r[2] \in PlanIds /\ subs[r[1]][r[2]] # NoPlan BY DEF Records
  <2>2. Current(subs[r[1]][r[2]]) BY <2>1 DEF SubscriptionInv, AllCurrent
  <2>3. QED BY <2>1, <2>2 DEF Current
<1>2. QED BY <1>1, SubscriptionStarts, SubscriptionKeeps, PTL DEF SubscriptionSpec

----
(* Oracle.                                                                 *)

\* A larger factor gives a larger product.
LEMMA ProductGrows ==
    ASSUME NEW a \in Int, NEW b \in Int, a <= b, NEW w \in Nat
    PROVE  a * w <= b * w /\ w * a <= w * b
<1>1. PICK d : d = b - a OBVIOUS
<1>2. d \in Nat /\ b = a + d BY <1>1
<1>3. b * w = a * w + d * w BY <1>2, Distributes
<1>4. d * w \in Nat /\ a * w \in Int BY <1>2
<1>5. a * w <= b * w BY <1>2, <1>3, <1>4
<1>6. w * a = a * w /\ w * b = b * w OBVIOUS
<1>7. QED BY <1>5, <1>6

\* What division rounds down to.
LEMMA Division ==
    ASSUME NEW n \in Nat, NEW d \in Nat, d > 0
    PROVE  n \div d \in Nat /\ (n \div d) * d <= n /\ n < (n \div d) * d + d
OBVIOUS

\* A natural number between two multiples of d, divided by d.
LEMMA DivisionWithin ==
    ASSUME NEW n \in Nat, NEW d \in Nat, d > 0, NEW lo \in Int, NEW hi \in Int, lo * d <= n, n <= hi * d
    PROVE  n \div d \in Nat /\ lo <= n \div d /\ n \div d <= hi
<1>1. PICK q : q = n \div d OBVIOUS
<1>2. q \in Nat /\ q * d <= n /\ n < q * d + d BY <1>1, Division
<1>3. lo * d \in Int /\ hi * d \in Int /\ q * d \in Int BY <1>2
<1>4. lo <= q
  <2>1. SUFFICES ASSUME q + 1 <= lo PROVE FALSE BY <1>2
  <2>2. (q + 1) * d <= lo * d BY <1>2, <2>1, ProductGrows
  <2>3. (q + 1) * d = q * d + 1 * d BY <1>2, Distributes
  <2>4. 1 * d = d OBVIOUS
  <2>5. QED BY <1>2, <1>3, <2>2, <2>3, <2>4
<1>5. q <= hi
  <2>1. SUFFICES ASSUME hi + 1 <= q PROVE FALSE BY <1>2
  <2>2. (hi + 1) * d <= q * d BY <1>2, <2>1, ProductGrows
  <2>3. (hi + 1) * d = hi * d + 1 * d BY Distributes
  <2>4. 1 * d = d OBVIOUS
  <2>5. QED BY <1>2, <1>3, <2>2, <2>3, <2>4
<1>6. QED BY <1>1, <1>2, <1>4, <1>5

\* The same for division towards zero of any number.
LEMMA QuotientWithin ==
    ASSUME NEW n \in Int, NEW d \in Nat, d > 0, NEW lo \in Int, NEW hi \in Int, lo * d <= n, n <= hi * d
    PROVE  Quotient(n, d) \in Int /\ lo <= Quotient(n, d) /\ Quotient(n, d) <= hi
<1>1. CASE n >= 0
  <2>1. n \in Nat BY <1>1
  <2>2. n \div d \in Nat /\ lo <= n \div d /\ n \div d <= hi BY <2>1, DivisionWithin
  <2>3. Quotient(n, d) = n \div d BY <1>1 DEF Quotient
  <2>4. QED BY <2>2, <2>3
<1>2. CASE ~(n >= 0)
  <2>1. PICK m : m = -n OBVIOUS
  <2>2. PICK low : low = -hi OBVIOUS
  <2>3. PICK high : high = -lo OBVIOUS
  <2>4. m \in Nat /\ low \in Int /\ high \in Int BY <1>2, <2>1, <2>2, <2>3
  <2>5. low * d <= m /\ m <= high * d
    <3>1. (-hi) * d = -(hi * d) /\ (-lo) * d = -(lo * d) OBVIOUS
    <3>2. hi * d \in Int /\ lo * d \in Int OBVIOUS
    <3>3. -(hi * d) <= m /\ m <= -(lo * d) BY <2>1, <3>2
    <3>4. QED BY <2>2, <2>3, <3>1, <3>3
  <2>6. m \div d \in Nat /\ low <= m \div d /\ m \div d <= high BY <2>4, <2>5, DivisionWithin
  <2>7. Quotient(n, d) = -(m \div d) BY <1>2, <2>1 DEF Quotient
  <2>8. PICK q : q = m \div d OBVIOUS
  <2>9. QED BY <2>2, <2>3, <2>6, <2>7, <2>8
<1>3. QED BY <1>1, <1>2

\* The numbers of i128.
LEMMA RepresentableInt ==
    /\ PriceMax \in Nat
    /\ \A x : x \in Representable <=> x \in Int /\ -PriceMax - 1 <= x /\ x <= PriceMax
<1>1. PriceMax \in Nat BY OracleAssumption
<1>2. QED BY <1>1 DEF Representable

\* What saturates stays within representable bounds, and comes no farther from zero.
LEMMA SaturatingWithin ==
    ASSUME NEW x \in Int
    PROVE  /\ Saturating(x) \in Representable /\ Saturating(x) \in Int
           /\ 0 <= x => 0 <= Saturating(x) /\ Saturating(x) <= x
           /\ x <= 0 => x <= Saturating(x) /\ Saturating(x) <= 0
           /\ \A lo \in Representable : lo <= x => lo <= Saturating(x)
           /\ \A hi \in Representable : x <= hi => Saturating(x) <= hi
<1>1. PICK m \in Nat : m = PriceMax BY RepresentableInt
<1>2. Saturating(x) = IF x > m THEN m ELSE IF x < -m - 1 THEN -m - 1 ELSE x
  <2>1. CASE x > m BY <1>1, <2>1 DEF Saturating
  <2>2. CASE x < -m - 1
    <3>1. ~(x > m) BY <2>2
    <3>2. QED BY <1>1, <2>2, <3>1 DEF Saturating
  <2>3. CASE ~(x > m) /\ ~(x < -m - 1) BY <1>1, <2>3 DEF Saturating
  <2>4. QED BY <2>1, <2>2, <2>3
<1>3. PICK y : y = Saturating(x) OBVIOUS
<1>4. y \in Int /\ -m - 1 <= y /\ y <= m BY <1>2, <1>3
<1>5. (0 <= x => 0 <= y /\ y <= x) /\ (x <= 0 => x <= y /\ y <= 0) BY <1>2, <1>3
<1>6. /\ \A lo \in Int : -m - 1 <= lo /\ lo <= m /\ lo <= x => lo <= y
      /\ \A hi \in Int : -m - 1 <= hi /\ hi <= m /\ x <= hi => y <= hi
  BY <1>2, <1>3
<1>7. QED BY <1>1, <1>3, <1>4, <1>5, <1>6, RepresentableInt

\* A step of the moving average stays between the average and the price.
LEMMA EmaStepWithin ==
    ASSUME NEW avg \in Int, NEW x \in Int, NEW alpha \in Nat, Accepted(alpha),
           NEW lo \in Representable, NEW hi \in Representable, lo <= avg, avg <= hi, lo <= x, x <= hi
    PROVE  EmaStep(avg, x, alpha) \in Int /\ lo <= EmaStep(avg, x, alpha) /\ EmaStep(avg, x, alpha) <= hi
<1>1. OracleBase \in Nat /\ OracleBase > 0 /\ alpha <= OracleBase BY OracleAssumption DEF Accepted
<1>2. PICK d \in Int : d = x - avg OBVIOUS
<1>3. PICK g \in Int : g = Saturating(d) BY SaturatingWithin
<1>4. PICK v \in Int : v = g * alpha OBVIOUS
<1>5. PICK n \in Int : n = Saturating(v) BY SaturatingWithin
<1>6. PICK q : q = Quotient(n, OracleBase) OBVIOUS
<1>7. EmaStep(avg, x, alpha) = Saturating(avg + q) BY <1>2, <1>3, <1>4, <1>5, <1>6 DEF EmaStep
<1>8. 0 * OracleBase = 0 /\ 0 * alpha = 0 /\ lo \in Int /\ hi \in Int BY <1>1, RepresentableInt
<1>9. q \in Int /\ lo <= avg + q /\ avg + q <= hi
  <2>1. CASE d >= 0
    <3>1. 0 <= g /\ g <= d BY <1>3, <2>1, SaturatingWithin
    <3>2. 0 * alpha <= g * alpha BY <3>1, ProductGrows
    <3>3. g * alpha <= g * OracleBase BY <1>1, <3>1, ProductGrows
    <3>4. 0 <= n /\ n <= v BY <1>4, <1>5, <1>8, <3>2, SaturatingWithin
    <3>5. g * OracleBase \in Int BY <1>1
    <3>6. 0 * OracleBase <= n /\ n <= g * OracleBase BY <1>4, <1>8, <3>3, <3>4, <3>5
    <3>7. 0 \in Int OBVIOUS
    <3>8. q \in Int /\ 0 <= q /\ q <= g BY <1>1, <1>6, <3>6, <3>7, QuotientWithin
    <3>9. QED BY <1>2, <1>8, <3>1, <3>8
  <2>2. CASE ~(d >= 0)
    <3>1. d <= g /\ g <= 0
      <4>1. d <= 0 BY <2>2
      <4>2. QED BY <1>3, <4>1, SaturatingWithin
    <3>2. g * alpha <= 0 * alpha BY <3>1, ProductGrows
    <3>3. g * OracleBase <= g * alpha
      <4>1. PICK h : h = -g OBVIOUS
      <4>2. h \in Nat BY <3>1, <4>1
      <4>3. h * alpha <= h * OracleBase BY <1>1, <4>2, ProductGrows
      <4>4. (-g) * alpha = -(g * alpha) /\ (-g) * OracleBase = -(g * OracleBase) BY <1>1
      <4>5. g * OracleBase \in Int /\ g * alpha \in Int BY <1>1
      <4>6. -(g * alpha) <= -(g * OracleBase) BY <4>1, <4>3, <4>4
      <4>7. QED BY <4>5, <4>6
    <3>4. v <= n /\ n <= 0
      <4>1. v <= 0 BY <1>4, <1>8, <3>2
      <4>2. QED BY <1>5, <4>1, SaturatingWithin
    <3>5. g * OracleBase \in Int BY <1>1
    <3>6. g * OracleBase <= n /\ n <= 0 * OracleBase BY <1>4, <1>8, <3>3, <3>4, <3>5
    <3>7. 0 \in Int OBVIOUS
    <3>8. q \in Int /\ g <= q /\ q <= 0 BY <1>1, <1>6, <3>6, <3>7, QuotientWithin
    <3>9. QED BY <1>2, <1>8, <3>1, <3>8
  <2>3. QED BY <2>1, <2>2
<1>10. PICK e \in Int : e = avg + q BY <1>9
<1>11. Saturating(e) \in Int /\ lo <= Saturating(e) /\ Saturating(e) <= hi BY <1>9, <1>10, SaturatingWithin
<1>12. QED BY <1>7, <1>10, <1>11

\* What is recorded of a price.
Seen == [price : Representable, at : Nat]

\* A round of the loop that keeps what stands at the places.
Push(kept, s, places, i) == IF i \in places THEN Append(kept, s[i]) ELSE kept

\* A moving average is a fold: it ends in X if each step leads from what the older
\* observations reached to what the observation is part of.
LEMMA EmaReaches ==
    ASSUME NEW alpha, NEW obs \in Seq(Seen), obs # <<>>, NEW X, obs[1].price \in X[{}],
           \A T \in SUBSET DOMAIN Tail(obs) : \A z \in T : (\A y \in T : z >= y) =>
             \A x \in X[T \ {z}] : EmaStep(x, Tail(obs)[z].price, alpha) \in X[T]
    PROVE  Ema(obs, alpha) \in X[DOMAIN Tail(obs)]
<1> DEFINE list == Tail(obs)
           st == obs[1].price
           S == DOMAIN list
           Top(T) == CHOOSE x \in T : \A y \in T : x >= y
           Op(x, e) == EmaStep(x, e.price, alpha)
           Step(g) == [T \in SUBSET S |-> IF T = {} THEN st ELSE Op(g[T \ {Top(T)}], list[Top(T)])]
           G == CHOOSE g : g = Step(g)
           pick == [T \in SUBSET S |-> Top(T)]
           All == UNION {X[T] : T \in SUBSET S}
           step == [z \in S |-> [x \in All |-> Op(x, list[z])]]
<1>0. PICK len \in Nat : len = Len(list) /\ DOMAIN list = 1..len
  <2>1. list \in Seq(Seen) BY HeadTailProperties
  <2> HIDE DEF list
  <2>2. QED BY <2>1
<1>9. Ema(obs, alpha) = G[S] BY DEF Ema, FoldLeft, MapThenFoldSet, Max
<1>a. st \in X[{}] OBVIOUS
<1>1. \A T \in SUBSET S : \A z \in T : (\A y \in T : z >= y) => \A x \in X[T \ {z}] : Op(x, list[z]) \in X[T] OBVIOUS
<1> HIDE DEF list, st
<1>2. IsFiniteSet(S) /\ \A T \in SUBSET S : T # {} => Top(T) \in T /\ \A y \in T : Top(T) >= y
  <2>1. IsFiniteSet(S) /\ S \in SUBSET Int BY <1>0, FS_Interval
  <2> HIDE DEF S
  <2>2. \A T \in SUBSET S : T # {} => \E x \in T : \A y \in T : x >= y BY <2>1, TopExists
  <2>3. QED BY <2>1, <2>2
<1>3. \A T \in SUBSET S : pick[T] = Top(T) OBVIOUS
<1>4. \A T \in SUBSET S : T # {} => pick[T] \in T BY <1>2, <1>3
<1>5. ASSUME NEW T \in SUBSET S, T # {}, NEW x \in X[T \ {Top(T)}]
      PROVE  Op(x, list[Top(T)]) \in X[T] /\ step[Top(T)][x] = Op(x, list[Top(T)])
  <2>1. PICK z \in T : z = Top(T) /\ \A y \in T : z >= y BY <1>2, <1>5
  <2>2. PICK U \in SUBSET S : U = T \ {z} OBVIOUS
  <2>3. x \in X[T \ {z}] BY <1>5, <2>1
  <2>4. Op(x, list[z]) \in X[T] BY <1>1, <2>1, <2>3
  <2>5. z \in S /\ x \in All BY <1>5, <2>1, <2>2
  <2> HIDE DEF Op, All, Top, S
  <2>6. step[z][x] = Op(x, list[z]) BY <2>5
  <2>7. QED BY <2>1, <2>4, <2>6
<1>6. \A T \in SUBSET S : T # {} => \A x \in X[T \ {pick[T]}] : step[pick[T]][x] \in X[T]
  <2> HIDE DEF step, Op, Top, pick, S, All
  <2> SUFFICES ASSUME NEW T \in SUBSET S, T # {}, NEW x \in X[T \ {pick[T]}] PROVE step[pick[T]][x] \in X[T] OBVIOUS
  <2>1. pick[T] = Top(T) BY <1>3
  <2>2. x \in X[T \ {Top(T)}] BY <2>1
  <2>3. step[Top(T)][x] \in X[T] BY <1>5, <2>2
  <2>4. QED BY <2>1, <2>3
<1>7. \E F : F = Step(F)
  <2> HIDE DEF step, Op, Top, pick, S
  <2>1. PICK F : IsFold(F, S, X, st, pick, step) BY <1>a, <1>2, <1>4, <1>6, FoldTableExists
  <2>2. /\ F = [T \in SUBSET S |-> F[T]] /\ \A T \in SUBSET S : F[T] \in X[T]
        /\ \A T \in SUBSET S : F[T] = IF T = {} THEN st ELSE step[pick[T]][F[T \ {pick[T]}]]
    BY <2>1 DEF IsFold
  <2>3. ASSUME NEW T \in SUBSET S PROVE F[T] = IF T = {} THEN st ELSE Op(F[T \ {Top(T)}], list[Top(T)])
    <3>1. CASE T = {} BY <2>2, <3>1
    <3>2. CASE T # {}
      <4>1. T \ {Top(T)} \in SUBSET S /\ F[T \ {Top(T)}] \in X[T \ {Top(T)}] BY <2>2
      <4>2. F[T] = step[Top(T)][F[T \ {Top(T)}]] BY <1>3, <2>2, <3>2
      <4>3. QED BY <1>5, <3>2, <4>1, <4>2
    <3>3. QED BY <3>1, <3>2
  <2>4. F = Step(F) BY <2>2, <2>3
  <2>5. QED BY <2>4
<1>8. G = Step(G)
  <2> HIDE DEF Step
  <2>1. QED BY <1>7
<1>10. G[S] \in X[S]
  <2> HIDE DEF step, Op, Top, pick, S, G
  <2>1. G[{}] = st BY <1>8
  <2>2. ASSUME NEW T \in SUBSET S, T # {}, G[T \ {pick[T]}] \in X[T \ {pick[T]}] PROVE G[T] \in X[T]
    <3>1. G[T] = Op(G[T \ {Top(T)}], list[Top(T)]) BY <1>8, <2>2
    <3>2. QED BY <1>3, <1>5, <2>2, <3>1
  <2>3. G[{}] \in X[{}] BY <1>a, <2>1
  <2>4. QED BY <1>2, <1>4, <2>2, <2>3, FoldStays
<1> HIDE DEF G
<1>11. QED BY <1>9, <1>10 DEF list

\* The same for a loop that keeps what stands at some places.
LEMMA KeptReaches ==
    ASSUME NEW K, NEW s \in Seq(K), NEW places, NEW X, <<>> \in X[{}],
           \A T \in SUBSET DOMAIN s : \A z \in T : (\A y \in T : z >= y) =>
             \A x \in X[T \ {z}] : Push(x, s, places, z) \in X[T]
    PROVE  Kept(s, places) \in X[DOMAIN s]
<1> DEFINE list == [i \in DOMAIN s |-> i]
           S == DOMAIN list
           Top(T) == CHOOSE x \in T : \A y \in T : x >= y
           Op(x, e) == Push(x, s, places, e)
           Step(g) == [T \in SUBSET S |-> IF T = {} THEN <<>> ELSE Op(g[T \ {Top(T)}], list[Top(T)])]
           G == CHOOSE g : g = Step(g)
           pick == [T \in SUBSET S |-> Top(T)]
           All == UNION {X[T] : T \in SUBSET S}
           step == [z \in S |-> [x \in All |-> Op(x, list[z])]]
<1>0. S = DOMAIN s /\ \A z \in S : list[z] = z OBVIOUS
<1>1. PICK len \in Nat : len = Len(s) /\ DOMAIN s = 1..len OBVIOUS
<1>9. Kept(s, places) = G[S] BY DEF Kept, FoldLeft, MapThenFoldSet, Max, Push
<1>a. PICK st : st = <<>> /\ st \in X[{}] OBVIOUS
<1> HIDE DEF list
<1>2. IsFiniteSet(S) /\ \A T \in SUBSET S : T # {} => Top(T) \in T /\ \A y \in T : Top(T) >= y
  <2>1. IsFiniteSet(S) /\ S \in SUBSET Int BY <1>0, <1>1, FS_Interval
  <2> HIDE DEF S
  <2>2. \A T \in SUBSET S : T # {} => \E x \in T : \A y \in T : x >= y BY <2>1, TopExists
  <2>3. QED BY <2>1, <2>2
<1>3. \A T \in SUBSET S : pick[T] = Top(T) OBVIOUS
<1>4. \A T \in SUBSET S : T # {} => pick[T] \in T BY <1>2, <1>3
<1>5. ASSUME NEW T \in SUBSET S, T # {}, NEW x \in X[T \ {Top(T)}]
      PROVE  Op(x, list[Top(T)]) \in X[T] /\ step[Top(T)][x] = Op(x, list[Top(T)])
  <2>1. PICK z \in T : z = Top(T) /\ \A y \in T : z >= y BY <1>2, <1>5
  <2>2. PICK U \in SUBSET S : U = T \ {z} OBVIOUS
  <2>3. x \in X[T \ {z}] BY <1>5, <2>1
  <2>4. Op(x, list[z]) \in X[T] BY <1>0, <2>1, <2>3
  <2>5. z \in S /\ x \in All BY <1>5, <2>1, <2>2
  <2> HIDE DEF Op, All, Top, S
  <2>6. step[z][x] = Op(x, list[z]) BY <2>5
  <2>7. QED BY <2>1, <2>4, <2>6
<1>6. \A T \in SUBSET S : T # {} => \A x \in X[T \ {pick[T]}] : step[pick[T]][x] \in X[T]
  <2> HIDE DEF step, Op, Top, pick, S, All
  <2> SUFFICES ASSUME NEW T \in SUBSET S, T # {}, NEW x \in X[T \ {pick[T]}] PROVE step[pick[T]][x] \in X[T] OBVIOUS
  <2>1. pick[T] = Top(T) BY <1>3
  <2>2. x \in X[T \ {Top(T)}] BY <2>1
  <2>3. step[Top(T)][x] \in X[T] BY <1>5, <2>2
  <2>4. QED BY <2>1, <2>3
<1>7. \E F : F = Step(F)
  <2> HIDE DEF step, Op, Top, pick, S
  <2>1. PICK F : IsFold(F, S, X, st, pick, step) BY <1>a, <1>2, <1>4, <1>6, FoldTableExists
  <2>2. /\ F = [T \in SUBSET S |-> F[T]] /\ \A T \in SUBSET S : F[T] \in X[T]
        /\ \A T \in SUBSET S : F[T] = IF T = {} THEN <<>> ELSE step[pick[T]][F[T \ {pick[T]}]]
    BY <1>a, <2>1 DEF IsFold
  <2>3. ASSUME NEW T \in SUBSET S PROVE F[T] = IF T = {} THEN <<>> ELSE Op(F[T \ {Top(T)}], list[Top(T)])
    <3>1. CASE T = {} BY <2>2, <3>1
    <3>2. CASE T # {}
      <4>1. T \ {Top(T)} \in SUBSET S /\ F[T \ {Top(T)}] \in X[T \ {Top(T)}] BY <2>2
      <4>2. F[T] = step[Top(T)][F[T \ {Top(T)}]] BY <1>3, <2>2, <3>2
      <4>3. QED BY <1>5, <3>2, <4>1, <4>2
    <3>3. QED BY <3>1, <3>2
  <2>4. F = Step(F) BY <2>2, <2>3
  <2>5. QED BY <2>4
<1>8. G = Step(G)
  <2> HIDE DEF Step
  <2>1. QED BY <1>7
<1>10. G[S] \in X[S]
  <2> HIDE DEF step, Op, Top, pick, S, G
  <2>1. G[{}] = st BY <1>a, <1>8
  <2>2. ASSUME NEW T \in SUBSET S, T # {}, G[T \ {pick[T]}] \in X[T \ {pick[T]}] PROVE G[T] \in X[T]
    <3>1. G[T] = Op(G[T \ {Top(T)}], list[Top(T)]) BY <1>8, <2>2
    <3>2. QED BY <1>3, <1>5, <2>2, <3>1
  <2>3. G[{}] \in X[{}] BY <1>a, <2>1
  <2>4. QED BY <1>2, <1>4, <2>2, <2>3, FoldStays
<1> HIDE DEF G
<1>11. QED BY <1>0, <1>9, <1>10

\* The same for the loop that weighs the observations.
LEMMA TallyReaches ==
    ASSUME NEW K, NEW s \in Seq(K), NEW X, [sum |-> 0, time |-> 0] \in X[{}],
           \A T \in SUBSET DOMAIN s : \A z \in T : (\A y \in T : z >= y) =>
             \A x \in X[T \ {z}] : Weighed(x, s, z) \in X[T]
    PROVE  Tally(s) \in X[DOMAIN s]
<1> DEFINE list == [i \in DOMAIN s |-> i]
           S == DOMAIN list
           Top(T) == CHOOSE x \in T : \A y \in T : x >= y
           Op(x, e) == Weighed(x, s, e)
           Step(g) == [T \in SUBSET S |-> IF T = {} THEN [sum |-> 0, time |-> 0] ELSE Op(g[T \ {Top(T)}], list[Top(T)])]
           G == CHOOSE g : g = Step(g)
           pick == [T \in SUBSET S |-> Top(T)]
           All == UNION {X[T] : T \in SUBSET S}
           step == [z \in S |-> [x \in All |-> Op(x, list[z])]]
<1>0. S = DOMAIN s /\ \A z \in S : list[z] = z OBVIOUS
<1>1. PICK len \in Nat : len = Len(s) /\ DOMAIN s = 1..len OBVIOUS
<1>9. Tally(s) = G[S] BY DEF Tally, FoldLeft, MapThenFoldSet, Max
<1>a. PICK st : st = [sum |-> 0, time |-> 0] /\ st \in X[{}] OBVIOUS
<1> HIDE DEF list
<1>2. IsFiniteSet(S) /\ \A T \in SUBSET S : T # {} => Top(T) \in T /\ \A y \in T : Top(T) >= y
  <2>1. IsFiniteSet(S) /\ S \in SUBSET Int BY <1>0, <1>1, FS_Interval
  <2> HIDE DEF S
  <2>2. \A T \in SUBSET S : T # {} => \E x \in T : \A y \in T : x >= y BY <2>1, TopExists
  <2>3. QED BY <2>1, <2>2
<1>3. \A T \in SUBSET S : pick[T] = Top(T) OBVIOUS
<1>4. \A T \in SUBSET S : T # {} => pick[T] \in T BY <1>2, <1>3
<1>5. ASSUME NEW T \in SUBSET S, T # {}, NEW x \in X[T \ {Top(T)}]
      PROVE  Op(x, list[Top(T)]) \in X[T] /\ step[Top(T)][x] = Op(x, list[Top(T)])
  <2>1. PICK z \in T : z = Top(T) /\ \A y \in T : z >= y BY <1>2, <1>5
  <2>2. PICK U \in SUBSET S : U = T \ {z} OBVIOUS
  <2>3. x \in X[T \ {z}] BY <1>5, <2>1
  <2>4. Op(x, list[z]) \in X[T] BY <1>0, <2>1, <2>3
  <2>5. z \in S /\ x \in All BY <1>5, <2>1, <2>2
  <2> HIDE DEF Op, All, Top, S
  <2>6. step[z][x] = Op(x, list[z]) BY <2>5
  <2>7. QED BY <2>1, <2>4, <2>6
<1>6. \A T \in SUBSET S : T # {} => \A x \in X[T \ {pick[T]}] : step[pick[T]][x] \in X[T]
  <2> HIDE DEF step, Op, Top, pick, S, All
  <2> SUFFICES ASSUME NEW T \in SUBSET S, T # {}, NEW x \in X[T \ {pick[T]}] PROVE step[pick[T]][x] \in X[T] OBVIOUS
  <2>1. pick[T] = Top(T) BY <1>3
  <2>2. x \in X[T \ {Top(T)}] BY <2>1
  <2>3. step[Top(T)][x] \in X[T] BY <1>5, <2>2
  <2>4. QED BY <2>1, <2>3
<1>7. \E F : F = Step(F)
  <2> HIDE DEF step, Op, Top, pick, S
  <2>1. PICK F : IsFold(F, S, X, st, pick, step) BY <1>a, <1>2, <1>4, <1>6, FoldTableExists
  <2>2. /\ F = [T \in SUBSET S |-> F[T]] /\ \A T \in SUBSET S : F[T] \in X[T]
        /\ \A T \in SUBSET S : F[T] = IF T = {} THEN [sum |-> 0, time |-> 0] ELSE step[pick[T]][F[T \ {pick[T]}]]
    BY <1>a, <2>1 DEF IsFold
  <2>3. ASSUME NEW T \in SUBSET S PROVE F[T] = IF T = {} THEN [sum |-> 0, time |-> 0] ELSE Op(F[T \ {Top(T)}], list[Top(T)])
    <3>1. CASE T = {} BY <2>2, <3>1
    <3>2. CASE T # {}
      <4>1. T \ {Top(T)} \in SUBSET S /\ F[T \ {Top(T)}] \in X[T \ {Top(T)}] BY <2>2
      <4>2. F[T] = step[Top(T)][F[T \ {Top(T)}]] BY <1>3, <2>2, <3>2
      <4>3. QED BY <1>5, <3>2, <4>1, <4>2
    <3>3. QED BY <3>1, <3>2
  <2>4. F = Step(F) BY <2>2, <2>3
  <2>5. QED BY <2>4
<1>8. G = Step(G)
  <2> HIDE DEF Step
  <2>1. QED BY <1>7
<1>10. G[S] \in X[S]
  <2> HIDE DEF step, Op, Top, pick, S, G
  <2>1. G[{}] = st BY <1>a, <1>8
  <2>2. ASSUME NEW T \in SUBSET S, T # {}, G[T \ {pick[T]}] \in X[T \ {pick[T]}] PROVE G[T] \in X[T]
    <3>1. G[T] = Op(G[T \ {Top(T)}], list[Top(T)]) BY <1>8, <2>2
    <3>2. QED BY <1>3, <1>5, <2>2, <3>1
  <2>3. G[{}] \in X[{}] BY <1>a, <2>1
  <2>4. QED BY <1>2, <1>4, <2>2, <2>3, FoldStays
<1> HIDE DEF G
<1>11. QED BY <1>0, <1>9, <1>10

\* The same for the insertion sort.
LEMMA SortedReaches ==
    ASSUME NEW K, NEW list \in Seq(K), NEW X, NEW st \in X[{}],
           \A T \in SUBSET DOMAIN list : \A z \in T : (\A y \in T : z >= y) =>
             \A x \in X[T \ {z}] : Inserted(x, list[z]) \in X[T]
    PROVE  FoldLeft(LAMBDA done, x : Inserted(done, x), st, list) \in X[DOMAIN list]
<1>1. PICK len \in Nat : len = Len(list) /\ DOMAIN list = 1..len OBVIOUS
<1> DEFINE S == DOMAIN list
           Top(T) == CHOOSE x \in T : \A y \in T : x >= y
           Op(x, e) == Inserted(x, e)
           Step(g) == [T \in SUBSET S |-> IF T = {} THEN st ELSE Op(g[T \ {Top(T)}], list[Top(T)])]
           G == CHOOSE g : g = Step(g)
           pick == [T \in SUBSET S |-> Top(T)]
           All == UNION {X[T] : T \in SUBSET S}
           step == [z \in S |-> [x \in All |-> Op(x, list[z])]]
<1>2. IsFiniteSet(S) /\ \A T \in SUBSET S : T # {} => Top(T) \in T /\ \A y \in T : Top(T) >= y
  <2>1. IsFiniteSet(S) /\ S \in SUBSET Int BY <1>1, FS_Interval
  <2> HIDE DEF S
  <2>2. \A T \in SUBSET S : T # {} => \E x \in T : \A y \in T : x >= y BY <2>1, TopExists
  <2>3. QED BY <2>1, <2>2
<1>3. \A T \in SUBSET S : pick[T] = Top(T) OBVIOUS
<1>4. \A T \in SUBSET S : T # {} => pick[T] \in T BY <1>2, <1>3
<1>5. ASSUME NEW T \in SUBSET S, T # {}, NEW x \in X[T \ {Top(T)}]
      PROVE  Op(x, list[Top(T)]) \in X[T] /\ step[Top(T)][x] = Op(x, list[Top(T)])
  <2>1. PICK z \in T : z = Top(T) /\ \A y \in T : z >= y BY <1>2, <1>5
  <2>2. PICK U \in SUBSET S : U = T \ {z} OBVIOUS
  <2>3. x \in X[T \ {z}] BY <1>5, <2>1
  <2>4. Op(x, list[z]) \in X[T] BY <2>1, <2>3
  <2>5. z \in S /\ x \in All BY <1>5, <2>1, <2>2
  <2> HIDE DEF Op, All, Top, S
  <2>6. step[z][x] = Op(x, list[z]) BY <2>5
  <2>7. QED BY <2>1, <2>4, <2>6
<1>6. \A T \in SUBSET S : T # {} => \A x \in X[T \ {pick[T]}] : step[pick[T]][x] \in X[T]
  <2> HIDE DEF step, Op, Top, pick, S, All
  <2> SUFFICES ASSUME NEW T \in SUBSET S, T # {}, NEW x \in X[T \ {pick[T]}] PROVE step[pick[T]][x] \in X[T] OBVIOUS
  <2>1. pick[T] = Top(T) BY <1>3
  <2>2. x \in X[T \ {Top(T)}] BY <2>1
  <2>3. step[Top(T)][x] \in X[T] BY <1>5, <2>2
  <2>4. QED BY <2>1, <2>3
<1>7. \E F : F = Step(F)
  <2> HIDE DEF step, Op, Top, pick, S
  <2>1. PICK F : IsFold(F, S, X, st, pick, step) BY <1>2, <1>4, <1>6, FoldTableExists
  <2>2. /\ F = [T \in SUBSET S |-> F[T]] /\ \A T \in SUBSET S : F[T] \in X[T]
        /\ \A T \in SUBSET S : F[T] = IF T = {} THEN st ELSE step[pick[T]][F[T \ {pick[T]}]]
    BY <2>1 DEF IsFold
  <2>3. ASSUME NEW T \in SUBSET S PROVE F[T] = IF T = {} THEN st ELSE Op(F[T \ {Top(T)}], list[Top(T)])
    <3>1. CASE T = {} BY <2>2, <3>1
    <3>2. CASE T # {}
      <4>1. T \ {Top(T)} \in SUBSET S /\ F[T \ {Top(T)}] \in X[T \ {Top(T)}] BY <2>2
      <4>2. F[T] = step[Top(T)][F[T \ {Top(T)}]] BY <1>3, <2>2, <3>2
      <4>3. QED BY <1>5, <3>2, <4>1, <4>2
    <3>3. QED BY <3>1, <3>2
  <2>4. F = Step(F) BY <2>2, <2>3
  <2>5. QED BY <2>4
<1>8. G = Step(G)
  <2> HIDE DEF Step
  <2>1. QED BY <1>7
<1>9. FoldLeft(LAMBDA done, x : Inserted(done, x), st, list) = G[S] BY DEF FoldLeft, MapThenFoldSet, Max
<1>10. G[S] \in X[S]
  <2> HIDE DEF step, Op, Top, pick, S, G
  <2>1. G[{}] = st BY <1>8
  <2>2. ASSUME NEW T \in SUBSET S, T # {}, G[T \ {pick[T]}] \in X[T \ {pick[T]}] PROVE G[T] \in X[T]
    <3>1. G[T] = Op(G[T \ {Top(T)}], list[Top(T)]) BY <1>8, <2>2
    <3>2. QED BY <1>3, <1>5, <2>2, <3>1
  <2>3. QED BY <1>2, <1>4, <2>1, <2>2, FoldStays
<1> HIDE DEF G
<1>11. QED BY <1>9, <1>10

\* What a loop keeps is of the sequence, at the places, and in its order.
LEMMA KeptInOrder ==
    ASSUME NEW K, NEW s \in Seq(K), NEW places, NEW R, \A i, j \in DOMAIN s : i <= j => <<s[i], s[j]>> \in R
    PROVE  /\ Kept(s, places) \in Seq(K)
           /\ \A a \in DOMAIN Kept(s, places) : \E i \in DOMAIN s : i \in places /\ Kept(s, places)[a] = s[i]
           /\ \A a, b \in DOMAIN Kept(s, places) : a <= b => <<Kept(s, places)[a], Kept(s, places)[b]>> \in R
<1> DEFINE From(k, T) == \A a \in DOMAIN k : \E i \in T : i \in places /\ k[a] = s[i]
           Ordered(k) == \A a, b \in DOMAIN k : a <= b => <<k[a], k[b]>> \in R
<1>2. DOMAIN s = 1..Len(s) /\ Len(s) \in Nat OBVIOUS
<1>4. PICK X : X = [T \in SUBSET DOMAIN s |-> {k \in Seq(K) : From(k, T) /\ Ordered(k)}] OBVIOUS
<1>5. <<>> \in X[{}]
  <2>1. X[{}] = {k \in Seq(K) : From(k, {}) /\ Ordered(k)} BY <1>4
  <2>2. <<>> \in Seq(K) /\ DOMAIN <<>> = {} OBVIOUS
  <2>3. QED BY <2>1, <2>2
<1>6. ASSUME NEW T \in SUBSET DOMAIN s, NEW z \in T, \A y \in T : z >= y, NEW x \in X[T \ {z}]
      PROVE  Push(x, s, places, z) \in X[T]
  <2>1. x \in Seq(K) /\ From(x, T \ {z}) /\ Ordered(x) BY <1>4
  <2>2. X[T] = {k \in Seq(K) : From(k, T) /\ Ordered(k)} BY <1>4
  <2>3. From(x, T) BY <2>1
  <2>4. CASE z \notin places BY <2>1, <2>2, <2>3, <2>4 DEF Push
  <2>5. CASE z \in places
    <3>1. PICK e \in K : e = s[z] OBVIOUS
    <3>2. PICK y : y = Append(x, e) OBVIOUS
    <3>3. /\ y \in Seq(K) /\ Len(y) = Len(x) + 1 /\ DOMAIN y = 1..Len(y) /\ DOMAIN x = 1..Len(x) /\ Len(x) \in Nat
          /\ y[Len(x) + 1] = e /\ \A a \in DOMAIN x : y[a] = x[a]
      BY <2>1, <3>2, AppendProperties
    <3>4. From(y, T)
      <4>1. ASSUME NEW a \in DOMAIN y PROVE \E i \in T : i \in places /\ y[a] = s[i]
        <5>1. CASE a \in DOMAIN x BY <2>3, <3>3, <5>1
        <5>2. CASE a = Len(x) + 1 BY <2>5, <3>1, <3>3, <5>2
        <5>3. QED BY <3>3, <5>1, <5>2
      <4>2. QED BY <4>1
    <3>5. Ordered(y)
      <4>1. SUFFICES ASSUME NEW a \in DOMAIN y, NEW b \in DOMAIN y, a <= b PROVE <<y[a], y[b]>> \in R OBVIOUS
      <4>2. CASE b \in DOMAIN x
        <5>1. a \in DOMAIN x BY <3>3, <4>1, <4>2
        <5>2. <<x[a], x[b]>> \in R BY <2>1, <4>1, <4>2, <5>1
        <5>3. y[a] = x[a] /\ y[b] = x[b] BY <3>3, <4>2, <5>1
        <5>4. QED BY <5>2, <5>3
      <4>3. CASE b = Len(x) + 1
        <5>1. y[b] = s[z] BY <3>1, <3>3, <4>3
        <5>2. PICK i \in T : y[a] = s[i] BY <3>4
        <5>3. i \in DOMAIN s /\ z \in DOMAIN s /\ i <= z BY <1>2, <1>6
        <5>4. <<s[i], s[z]>> \in R BY <5>3
        <5>5. QED BY <5>1, <5>2, <5>4
      <4>4. QED BY <3>3, <4>2, <4>3
    <3>6. Push(x, s, places, z) = y BY <2>5, <3>1, <3>2 DEF Push
    <3> HIDE DEF From, Ordered
    <3>7. QED BY <2>2, <3>3, <3>4, <3>5, <3>6
  <2>6. QED BY <2>4, <2>5
<1>9. PICK k : k = Kept(s, places) OBVIOUS
<1>10. k \in X[DOMAIN s]
  <2> HIDE DEF From, Ordered
  <2>1. \A T \in SUBSET DOMAIN s : \A z \in T : (\A y \in T : z >= y) =>
          \A x \in X[T \ {z}] : Push(x, s, places, z) \in X[T]
    BY <1>6
  <2>2. QED BY <1>5, <1>9, <2>1, KeptReaches, Zenon
<1>11. k \in Seq(K) /\ From(k, DOMAIN s) /\ Ordered(k) BY <1>4, <1>10
<1>12. QED BY <1>9, <1>11

\* y is done with x behind the first k, which are the ones not greater than x.
Parted(y, done, x, k) ==
    /\ \A i \in 1..Len(done) : (i <= k => done[i] <= x) /\ (i > k => x <= done[i])
    /\ \A i \in 1..(Len(done) + 1) : y[i] = IF i <= k THEN done[i] ELSE IF i = k + 1 THEN x ELSE done[i - 1]

\* An insertion keeps what is there on either side of the new one.
LEMMA Insertion ==
    ASSUME NEW done \in Seq(Int), NEW x \in Int, \A i, j \in DOMAIN done : i <= j => done[i] <= done[j],
           NEW w, w = Inserted(done, x)
    PROVE  w \in Seq(Int) /\ Len(w) = Len(done) + 1 /\ \E k \in 0..Len(done) : Parted(w, done, x, k)
<1>1. PICK n \in Nat : n = Len(done) /\ DOMAIN done = 1..n OBVIOUS
<1>2. PICK S : S = {0} \cup {i \in DOMAIN done : done[i] <= x} OBVIOUS
<1>3. S \in SUBSET (0..n) /\ S # {} BY <1>1, <1>2
<1>4. PICK k : k = Max(S) OBVIOUS
<1>5. k \in S /\ \A i \in S : k >= i
  <2>1. IsFiniteSet(0..n) /\ 0..n \in SUBSET Int BY FS_Interval
  <2>2. \E m \in S : \A i \in S : m >= i BY <1>3, <2>1, TopExists
  <2>3. QED BY <1>4, <2>2 DEF Max
<1>6. k \in 0..n BY <1>3, <1>5
<1>7. \A i \in 1..n : done[i] \in Int BY <1>1
<1>8. ASSUME NEW i \in 1..n PROVE (i <= k => done[i] <= x) /\ (i > k => x <= done[i])
  <2>1. CASE i <= k
    <3>1. k \in DOMAIN done /\ done[k] <= x BY <1>1, <1>2, <1>5, <1>6, <2>1
    <3>2. done[i] <= done[k] BY <1>1, <2>1, <3>1
    <3>3. done[i] \in Int /\ done[k] \in Int BY <1>1, <1>7, <3>1
    <3>4. QED BY <1>6, <2>1, <3>1, <3>2, <3>3
  <2>2. CASE ~(i <= k)
    <3>1. i \notin S BY <1>5, <1>6, <2>2
    <3>2. ~(done[i] <= x) BY <1>1, <1>2, <3>1
    <3>3. done[i] \in Int BY <1>7
    <3>4. QED BY <2>2, <3>2, <3>3
  <2>3. QED BY <2>1, <2>2
<1>9. PICK a : a = SubSeq(done, 1, k) OBVIOUS
<1>10. PICK b : b = SubSeq(done, k + 1, n) OBVIOUS
<1>11. a \in Seq(Int) /\ Len(a) = k /\ \A i \in 1..k : a[i] = done[i]
  <2>1. \A i \in 1..k : done[i] \in Int BY <1>6, <1>7
  <2>2. k \in Int /\ 1 \in Int BY <1>6
  <2>3. a \in Seq(Int) /\ Len(a) = (IF 1 <= k THEN k - 1 + 1 ELSE 0) /\ \A i \in 1..(k - 1 + 1) : a[i] = done[1 + i - 1]
    BY <1>9, <2>1, <2>2, SubSeqProperties
  <2>4. k - 1 + 1 = k /\ \A i \in 1..k : 1 + i - 1 = i BY <1>6
  <2>5. QED BY <1>6, <2>3, <2>4
<1>12. b \in Seq(Int) /\ Len(b) = n - k /\ \A i \in 1..(n - k) : b[i] = done[k + i]
  <2>1. \A i \in (k + 1)..n : done[i] \in Int BY <1>6, <1>7
  <2>2. k + 1 \in Int /\ n \in Int BY <1>6
  <2>3. /\ b \in Seq(Int) /\ Len(b) = (IF k + 1 <= n THEN n - (k + 1) + 1 ELSE 0)
        /\ \A i \in 1..(n - (k + 1) + 1) : b[i] = done[(k + 1) + i - 1]
    BY <1>10, <2>1, <2>2, SubSeqProperties
  <2>4. n - (k + 1) + 1 = n - k /\ \A i \in 1..(n - k) : (k + 1) + i - 1 = k + i BY <1>6
  <2>5. QED BY <1>6, <2>3, <2>4
<1>13. PICK one : one = <<x>> /\ one \in Seq(Int) /\ Len(one) = 1 /\ one[1] = x
  <2>1. <<x>> \in Seq(Int) /\ Len(<<x>>) = 1 /\ <<x>>[1] = x OBVIOUS
  <2>2. QED BY <2>1
<1>14. PICK c : c = a \o one OBVIOUS
<1>15. c \in Seq(Int) /\ Len(c) = k + 1 /\ \A i \in 1..(k + 1) : c[i] = IF i <= k THEN a[i] ELSE one[i - k]
  <2>1. a \in Seq(Int) /\ one \in Seq(Int) BY <1>11, <1>13
  <2>2. /\ c \in Seq(Int) /\ Len(c) = Len(a) + Len(one)
        /\ \A i \in 1..(Len(a) + Len(one)) : c[i] = IF i <= Len(a) THEN a[i] ELSE one[i - Len(a)]
    BY <1>14, <2>1, ConcatProperties
  <2>3. Len(a) = k /\ Len(one) = 1 BY <1>11, <1>13
  <2>4. QED BY <2>2, <2>3
<1>16. PICK y : y = c \o b OBVIOUS
<1>17. /\ y \in Seq(Int) /\ Len(y) = (k + 1) + (n - k)
       /\ \A i \in 1..((k + 1) + (n - k)) : y[i] = IF i <= k + 1 THEN c[i] ELSE b[i - (k + 1)]
  <2>0. c \in Seq(Int) /\ b \in Seq(Int) BY <1>12, <1>15
  <2>1. /\ y \in Seq(Int) /\ Len(y) = Len(c) + Len(b)
        /\ \A i \in 1..(Len(c) + Len(b)) : y[i] = IF i <= Len(c) THEN c[i] ELSE b[i - Len(c)]
    BY <1>16, <2>0, ConcatProperties
  <2>2. Len(c) = k + 1 /\ Len(b) = n - k BY <1>12, <1>15
  <2>3. QED BY <2>1, <2>2
<1>18. (k + 1) + (n - k) = n + 1 BY <1>6
<1>19. ASSUME NEW i \in 1..(n + 1) PROVE y[i] = IF i <= k THEN done[i] ELSE IF i = k + 1 THEN x ELSE done[i - 1]
  <2>1. CASE i <= k
    <3>1. y[i] = c[i] /\ c[i] = a[i] /\ a[i] = done[i] BY <1>6, <1>11, <1>15, <1>17, <1>18, <2>1
    <3>2. QED BY <2>1, <3>1
  <2>2. CASE i = k + 1
    <3>1. y[i] = c[i] /\ c[i] = one[i - k] BY <1>6, <1>15, <1>17, <1>18, <2>2
    <3>2. i - k = 1 /\ ~(i <= k) BY <1>6, <2>2
    <3>3. y[i] = x BY <1>13, <3>1, <3>2
    <3>4. QED BY <2>2, <3>2, <3>3
  <2>3. CASE i > k + 1
    <3>1. y[i] = b[i - (k + 1)] /\ i - (k + 1) \in 1..(n - k) BY <1>6, <1>17, <1>18, <2>3
    <3>2. b[i - (k + 1)] = done[k + (i - (k + 1))] BY <1>12, <3>1
    <3>3. k + (i - (k + 1)) = i - 1 /\ ~(i <= k) /\ i # k + 1 BY <1>6, <2>3
    <3>4. QED BY <3>1, <3>2, <3>3
  <2>4. QED BY <1>6, <2>1, <2>2, <2>3
<1>20. Inserted(done, x) = y
  <2>1. (k + 1) - 1 = k BY <1>6
  <2>2. QED BY <1>1, <1>2, <1>4, <1>9, <1>10, <1>13, <1>14, <1>16, <2>1 DEF Inserted, InsertAt
<1>21. Parted(y, done, x, k) BY <1>1, <1>8, <1>19 DEF Parted
<1>22. y \in Seq(Int) /\ Len(y) = Len(done) + 1 BY <1>1, <1>17, <1>18
<1>23. k \in 0..Len(done) BY <1>1, <1>6
<1>24. QED BY <1>20, <1>21, <1>22, <1>23

\* The numbers of d ascend, and p says which of the prices at T each of them is.
Ranks(d, prices, T, p) ==
    /\ d \in Seq(Int) /\ Len(d) = Cardinality(T)
    /\ \A i, j \in DOMAIN d : i <= j => d[i] <= d[j]
    /\ p \in [1..Len(d) -> T]
    /\ \A i, j \in 1..Len(d) : p[i] = p[j] => i = j
    /\ \A i \in 1..Len(d) : d[i] = prices[p[i]]

\* A round of the insertion sort ranks one price more.
LEMMA InsertionRanks ==
    ASSUME NEW prices \in Seq(Int), NEW T \in SUBSET DOMAIN prices, IsFiniteSet(T), NEW z \in T,
           NEW d, NEW p, Ranks(d, prices, T \ {z}, p)
    PROVE  \E q : Ranks(Inserted(d, prices[z]), prices, T, q)
<1>1. /\ d \in Seq(Int) /\ Len(d) = Cardinality(T \ {z})
      /\ \A i, j \in DOMAIN d : i <= j => d[i] <= d[j]
      /\ p \in [1..Len(d) -> T \ {z}]
      /\ \A i, j \in 1..Len(d) : p[i] = p[j] => i = j
      /\ \A i \in 1..Len(d) : d[i] = prices[p[i]]
  BY DEF Ranks
<1>2. PICK x \in Int : x = prices[z] OBVIOUS
<1>3. PICK n \in Nat : n = Len(d) /\ DOMAIN d = 1..n BY <1>1
<1>4. Cardinality(T) = n + 1
  <2>1. Cardinality(T \ {z}) = Cardinality(T) - 1 /\ Cardinality(T) \in Nat BY FS_RemoveElement, FS_CardinalityType
  <2>2. QED BY <1>1, <1>3, <2>1
<1>5. PICK y : y = Inserted(d, x) OBVIOUS
<1>a. d \in Seq(Int) /\ \A i, j \in DOMAIN d : i <= j => d[i] <= d[j] BY <1>1
<1>b. /\ \A i, j \in 1..n : i <= j => d[i] <= d[j]
      /\ \A i \in 1..n : d[i] \in Int
  <2>1. \A i \in 1..Len(d) : d[i] \in Int BY <1>a, ElementOfSeq
  <2>2. \A i, j \in 1..n : i <= j => d[i] <= d[j] BY <1>3, <1>a, Zenon
  <2>3. QED BY <1>3, <2>1, <2>2
<1>c. /\ \A i, j \in 1..n : p[i] = p[j] => i = j
      /\ \A i \in 1..n : d[i] = prices[p[i]]
  BY <1>1, <1>3
<1>d. y \in Seq(Int) /\ Len(y) = Len(d) + 1 /\ \E k \in 0..Len(d) : Parted(y, d, x, k)
  BY <1>a, <1>5, Insertion, Zenon
<1>6. y \in Seq(Int) /\ Len(y) = n + 1 BY <1>3, <1>d
<1>e. PICK k \in 0..n : Parted(y, d, x, k) BY <1>3, <1>d
<1>7. /\ \A i \in 1..n : (i <= k => d[i] <= x) /\ (i > k => x <= d[i])
      /\ \A i \in 1..(n + 1) : y[i] = IF i <= k THEN d[i] ELSE IF i = k + 1 THEN x ELSE d[i - 1]
  BY <1>3, <1>e DEF Parted
<1>8. PICK q : q = [i \in 1..(n + 1) |-> IF i <= k THEN p[i] ELSE IF i = k + 1 THEN z ELSE p[i - 1]] OBVIOUS
<1>9. /\ \A i \in 1..n : i <= k => d[i] <= x
      /\ \A i \in 1..n : i > k => x <= d[i]
      /\ \A i \in 1..n : d[i] \in Int
  BY <1>b, <1>7
<1>10. /\ \A i \in 1..(n + 1) : i <= k => i \in 1..n /\ y[i] = d[i] /\ q[i] = p[i]
       /\ k + 1 \in 1..(n + 1) /\ y[k + 1] = x /\ q[k + 1] = z
       /\ \A i \in 1..(n + 1) : i > k + 1 => i - 1 \in 1..n /\ y[i] = d[i - 1] /\ q[i] = p[i - 1]
  BY <1>7, <1>8
<1>11. \A i \in 1..n : p[i] \in T /\ p[i] # z BY <1>1, <1>3
<1>12. ASSUME NEW i \in 1..(n + 1), NEW j \in 1..(n + 1), i <= j PROVE y[i] <= y[j]
  <2>1. CASE j <= k
    <3>0. i \in 1..n /\ j \in 1..n BY <1>12, <2>1
    <3>1. d[i] <= d[j] BY <1>b, <1>12, <3>0
    <3>2. QED BY <1>10, <1>12, <2>1, <3>1
  <2>2. CASE j = k + 1 /\ i <= k BY <1>9, <1>10, <2>2
  <2>3. CASE j = k + 1 /\ i = k + 1 BY <1>10, <2>3
  <2>4. CASE j > k + 1 /\ i <= k
    <3>1. d[i] <= d[j - 1] BY <1>b, <1>10, <2>4
    <3>2. QED BY <1>10, <2>4, <3>1
  <2>5. CASE j > k + 1 /\ i = k + 1
    <3>1. j - 1 \in 1..n /\ j - 1 > k BY <1>10, <2>5
    <3>2. x <= d[j - 1] BY <1>9, <3>1
    <3>3. QED BY <1>10, <2>5, <3>2
  <2>6. CASE j > k + 1 /\ i > k + 1
    <3>1. i - 1 \in 1..n /\ j - 1 \in 1..n /\ i - 1 <= j - 1 BY <1>10, <1>12, <2>6
    <3>2. d[i - 1] <= d[j - 1] BY <1>b, <1>c, <3>1
    <3>3. QED BY <1>10, <2>6, <3>2
  <2>7. QED BY <1>12, <2>1, <2>2, <2>3, <2>4, <2>5, <2>6
<1>13. ASSUME NEW i \in 1..(n + 1) PROVE q[i] \in T /\ y[i] = prices[q[i]]
  <2>1. CASE i <= k BY <1>c, <1>10, <1>11, <2>1, SMTT(60)
  <2>2. CASE i = k + 1 BY <1>2, <1>10, <2>2
  <2>3. CASE i > k + 1
    <3>1. i - 1 \in 1..n /\ y[i] = d[i - 1] /\ q[i] = p[i - 1] BY <1>10, <2>3
    <3>2. QED BY <1>c, <1>11, <3>1
  <2>4. QED BY <2>1, <2>2, <2>3
<1>14. ASSUME NEW i \in 1..(n + 1), NEW j \in 1..(n + 1), q[i] = q[j], i < j PROVE FALSE
  <2>1. CASE j <= k
    <3>1. i \in 1..n /\ j \in 1..n /\ p[i] = p[j] BY <1>10, <1>14, <2>1
    <3>2. i = j BY <1>b, <1>c, <3>1
    <3>3. QED BY <1>14, <3>2
  <2>2. CASE j = k + 1
    <3>1. i \in 1..n /\ q[i] = p[i] BY <1>10, <1>14, <2>2
    <3>2. QED BY <1>10, <1>11, <1>14, <2>2, <3>1
  <2>3. CASE j > k + 1 /\ i <= k
    <3>1. i \in 1..n /\ j - 1 \in 1..n /\ p[i] = p[j - 1] BY <1>10, <1>14, <2>3
    <3>2. i = j - 1 BY <1>b, <1>c, <3>1
    <3>3. QED BY <2>3, <3>2
  <2>4. CASE j > k + 1 /\ i = k + 1
    <3>1. j - 1 \in 1..n /\ q[j] = p[j - 1] BY <1>10, <2>4
    <3>2. QED BY <1>10, <1>11, <1>14, <2>4, <3>1
  <2>5. CASE j > k + 1 /\ i > k + 1
    <3>1. i - 1 \in 1..n /\ j - 1 \in 1..n /\ p[i - 1] = p[j - 1] BY <1>10, <1>14, <2>5
    <3>2. i - 1 = j - 1 BY <1>b, <1>c, <3>1
    <3>3. QED BY <1>14, <3>2
  <2>6. QED BY <2>1, <2>2, <2>3, <2>4, <2>5
<1>15. \A i, j \in 1..(n + 1) : q[i] = q[j] => i = j
  <2>1. SUFFICES ASSUME NEW i \in 1..(n + 1), NEW j \in 1..(n + 1), q[i] = q[j], i # j PROVE FALSE OBVIOUS
  <2>2. CASE i < j BY <1>14, <2>1, <2>2
  <2>3. CASE j < i BY <1>14, <2>1, <2>3
  <2>4. QED BY <2>1, <2>2, <2>3
<1>16. q \in [1..(n + 1) -> T] BY <1>8, <1>13
<1>17. DOMAIN y = 1..(n + 1) BY <1>6
<1>18. Ranks(y, prices, T, q) BY <1>4, <1>6, <1>12, <1>13, <1>15, <1>16, <1>17 DEF Ranks
<1>19. QED BY <1>2, <1>5, <1>18

\* The insertion sort ranks all the prices.
LEMMA SortRanks ==
    ASSUME NEW prices \in Seq(Int)
    PROVE  \E p : Ranks(Sorted(prices), prices, DOMAIN prices, p)
<1>1. IsFiniteSet(DOMAIN prices)
  <2>1. DOMAIN prices = 1..Len(prices) /\ Len(prices) \in Nat OBVIOUS
  <2>2. QED BY <2>1, FS_Interval
<1>2. PICK X : X = [T \in SUBSET DOMAIN prices |-> {d \in Seq(Int) : \E p : Ranks(d, prices, T, p)}] OBVIOUS
<1>3. PICK st : st = <<>> OBVIOUS
<1>4. st \in X[{}]
  <2>1. st \in Seq(Int) /\ Len(st) = 0 /\ DOMAIN st = {} /\ 1..0 = {} BY <1>3
  <2>2. Cardinality({}) = 0 BY FS_EmptySet
  <2>3. PICK p : p = [i \in 1..0 |-> i] OBVIOUS
  <2>4. p \in [1..0 -> {}] BY <2>1, <2>3
  <2>5. Ranks(st, prices, {}, p) BY <2>1, <2>2, <2>4 DEF Ranks
  <2>6. X[{}] = {d \in Seq(Int) : \E r : Ranks(d, prices, {}, r)} BY <1>2
  <2>7. QED BY <2>1, <2>5, <2>6
<1>5. ASSUME NEW T \in SUBSET DOMAIN prices, NEW z \in T, NEW x \in X[T \ {z}]
      PROVE  Inserted(x, prices[z]) \in X[T]
  <2>1. IsFiniteSet(T) BY <1>1, FS_Subset
  <2>2. PICK p : Ranks(x, prices, T \ {z}, p) BY <1>2
  <2>3. PICK y : y = Inserted(x, prices[z]) OBVIOUS
  <2>4. PICK q : Ranks(y, prices, T, q) BY <2>1, <2>2, <2>3, InsertionRanks
  <2>5. y \in Seq(Int) BY <2>4 DEF Ranks
  <2>6. X[T] = {d \in Seq(Int) : \E r : Ranks(d, prices, T, r)} BY <1>2
  <2>7. y \in X[T] BY <2>4, <2>5, <2>6
  <2>8. QED BY <2>3, <2>7
<1>6. \A T \in SUBSET DOMAIN prices : \A z \in T : (\A y \in T : z >= y) =>
        \A x \in X[T \ {z}] : Inserted(x, prices[z]) \in X[T]
  BY <1>5
<1>7. FoldLeft(LAMBDA done, x : Inserted(done, x), st, prices) \in X[DOMAIN prices]
  BY <1>4, <1>6, SortedReaches, Zenon
<1>8. PICK d : d = Sorted(prices) OBVIOUS
<1>9. d \in X[DOMAIN prices] BY <1>3, <1>7, <1>8, Zenon DEF Sorted
<1>10. \E p : Ranks(d, prices, DOMAIN prices, p) BY <1>2, <1>9
<1>11. QED BY <1>8, <1>10

\* A set has as many elements at least as are named without repetition.
LEMMA NamedApart ==
    ASSUME NEW A, IsFiniteSet(A), NEW a \in Int, NEW b \in Int, a <= b, NEW p,
           \A i \in a..b : p[i] \in A, \A i, j \in a..b : p[i] = p[j] => i = j
    PROVE  Cardinality(A) \in Nat /\ b - a + 1 <= Cardinality(A)
<1>1. IsFiniteSet(a..b) /\ Cardinality(a..b) = b - a + 1 BY FS_Interval
<1>2. PICK f : f = [i \in a..b |-> p[i]] OBVIOUS
<1>3. f \in [a..b -> A] /\ \A i, j \in a..b : f[i] = f[j] => i = j BY <1>2
<1>4. f \in Injection(a..b, A) BY <1>3, Zenon DEF Injection, IsInjective
<1>5. Cardinality(a..b) <= Cardinality(A) BY <1>4, FS_Injection
<1>6. QED BY <1>1, <1>5, FS_CardinalityType

\* The middle of a sequence.
LEMMA Halving ==
    ASSUME NEW n \in Nat, n > 0
    PROVE  \E m \in Nat :
             /\ m = n \div 2
             /\ n % 2 = 0 => n = 2 * m /\ m \in 1..n /\ m + 1 \in 1..n
             /\ n % 2 # 0 => n = 2 * m + 1 /\ m + 1 \in 1..n
OBVIOUS

\* At least half of the sequence is at most x, and at least half at least x.
Middle(x, prices) ==
    /\ 2 * Cardinality({i \in DOMAIN prices : prices[i] <= x}) >= Len(prices)
    /\ 2 * Cardinality({i \in DOMAIN prices : prices[i] >= x}) >= Len(prices)

\* The median splits the prices in halves.
LEMMA MedianHalves ==
    ASSUME NEW prices \in Seq(Int), prices # <<>>, \A i \in DOMAIN prices : 2 * prices[i] \in Representable
    PROVE  Median(prices) \in Int /\ Middle(Median(prices), prices)
<1>1. PICK n \in Nat : n = Len(prices) /\ DOMAIN prices = 1..n /\ n > 0 OBVIOUS
<1>2. PICK d : d = Sorted(prices) OBVIOUS
<1>3. PICK p : Ranks(d, prices, DOMAIN prices, p) BY <1>2, SortRanks
<1>4. Len(d) = n
  <2>1. Cardinality(1..n) = n BY FS_Interval
  <2>2. QED BY <1>1, <1>3, <2>1 DEF Ranks
<1>5. /\ d \in Seq(Int)
      /\ \A i, j \in DOMAIN d : i <= j => d[i] <= d[j]
      /\ p \in [1..n -> 1..n]
      /\ \A i, j \in 1..n : p[i] = p[j] => i = j
      /\ \A i \in 1..n : d[i] = prices[p[i]]
  BY <1>1, <1>3, <1>4 DEF Ranks
<1>6. \A i \in 1..n : d[i] \in Int BY <1>4, <1>5, ElementOfSeq
<1>7. DOMAIN d = 1..n BY <1>4, <1>5
<1>8. \A i, j \in 1..n : i <= j => d[i] <= d[j] BY <1>5, <1>7
<1>9. \A i \in 1..n : p[i] \in 1..n /\ prices[p[i]] = d[i] BY <1>5
<1>10. ASSUME NEW x \in Int, NEW a \in 1..n, NEW b \in 1..n, d[a] <= x, x <= d[b], 2 * a >= n, 2 * (n - b + 1) >= n
       PROVE  Middle(x, prices)
  <2>1. PICK A : A = {i \in DOMAIN prices : prices[i] <= x} OBVIOUS
  <2>2. PICK B : B = {i \in DOMAIN prices : prices[i] >= x} OBVIOUS
  <2>3. IsFiniteSet(A) /\ IsFiniteSet(B)
    <3>1. IsFiniteSet(1..n) BY FS_Interval
    <3>2. A \subseteq 1..n /\ B \subseteq 1..n BY <1>1, <2>1, <2>2
    <3>3. QED BY <3>1, <3>2, FS_Subset
  <2>4. Cardinality(A) \in Nat /\ a - 1 + 1 <= Cardinality(A)
    <3>1. ASSUME NEW i \in 1..a PROVE p[i] \in A
      <4>1. i \in 1..n /\ d[i] <= d[a] BY <1>8
      <4>2. d[i] <= x BY <1>6, <1>10, <4>1
      <4>3. p[i] \in DOMAIN prices /\ prices[p[i]] <= x BY <1>1, <1>9, <4>1, <4>2
      <4>4. QED BY <2>1, <4>3
    <3>2. \A i, j \in 1..a : p[i] = p[j] => i = j BY <1>5
    <3>3. 1 \in Int /\ a \in Int /\ 1 <= a OBVIOUS
    <3>4. QED BY <2>3, <3>1, <3>2, <3>3, NamedApart
  <2>5. Cardinality(B) \in Nat /\ n - b + 1 <= Cardinality(B)
    <3>1. ASSUME NEW i \in b..n PROVE p[i] \in B
      <4>1. i \in 1..n /\ d[b] <= d[i] BY <1>8
      <4>2. d[i] >= x BY <1>6, <1>10, <4>1
      <4>3. p[i] \in DOMAIN prices /\ prices[p[i]] >= x BY <1>1, <1>9, <4>1, <4>2
      <4>4. QED BY <2>2, <4>3
    <3>2. \A i, j \in b..n : p[i] = p[j] => i = j BY <1>5
    <3>3. b \in Int /\ n \in Int /\ b <= n OBVIOUS
    <3>4. QED BY <2>3, <3>1, <3>2, <3>3, NamedApart
  <2>6. 2 * Cardinality(A) >= n /\ 2 * Cardinality(B) >= n BY <1>10, <2>4, <2>5
  <2>7. QED BY <1>1, <2>1, <2>2, <2>6 DEF Middle
<1>11. PICK m \in Nat :
         /\ m = n \div 2
         /\ n % 2 = 0 => n = 2 * m /\ m \in 1..n /\ m + 1 \in 1..n
         /\ n % 2 # 0 => n = 2 * m + 1 /\ m + 1 \in 1..n
  BY <1>1, Halving
<1>12. CASE n % 2 = 0
  <2>1. n = 2 * m /\ m \in 1..n /\ m + 1 \in 1..n BY <1>11, <1>12, Zenon
  <2>2. d[m] <= d[m + 1] /\ d[m] \in Int /\ d[m + 1] \in Int BY <1>6, <1>8, <2>1
  <2>3. PICK s : s = Saturating(d[m] + d[m + 1]) OBVIOUS
  <2>4. s \in Int /\ d[m] * 2 <= s /\ s <= d[m + 1] * 2
    <3>1. PICK t \in Int : t = d[m] + d[m + 1] BY <2>2
    <3>2. 2 * d[m] \in Representable /\ 2 * d[m + 1] \in Representable BY <1>1, <1>9, <2>1
    <3>3. PICK lo \in Representable, hi \in Representable : lo = 2 * d[m] /\ hi = 2 * d[m + 1] BY <3>2
    <3>4. lo <= t /\ t <= hi
      <4>1. PICK p1 \in Int, p2 \in Int : p1 = d[m] /\ p2 = d[m + 1] BY <2>2
      <4>2. p1 <= p2 /\ t = p1 + p2 /\ lo = 2 * p1 /\ hi = 2 * p2 BY <2>2, <3>1, <3>3, <4>1
      <4>3. QED BY <4>2
    <3>5. Saturating(t) \in Int /\ lo <= Saturating(t) /\ Saturating(t) <= hi BY <3>4, SaturatingWithin
    <3>6. d[m] * 2 = lo /\ d[m + 1] * 2 = hi BY <2>2, <3>3
    <3>7. QED BY <2>3, <3>1, <3>5, <3>6
  <2>5. PICK x : x = Quotient(s, 2) OBVIOUS
  <2>6. 2 \in Nat /\ 2 > 0 OBVIOUS
  <2>7. x \in Int /\ d[m] <= x /\ x <= d[m + 1] BY <2>2, <2>4, <2>5, <2>6, QuotientWithin
  <2>8. Median(prices) = x BY <1>1, <1>2, <1>11, <1>12, <2>3, <2>5 DEF Median
  <2>9. 2 * m >= n /\ 2 * (n - (m + 1) + 1) >= n BY <2>1
  <2>10. QED BY <1>10, <2>1, <2>7, <2>8, <2>9
<1>13. CASE n % 2 # 0
  <2>1. n = 2 * m + 1 /\ m + 1 \in 1..n BY <1>11, <1>13, Zenon
  <2>2. d[m + 1] \in Int /\ d[m + 1] <= d[m + 1] BY <1>6, <2>1
  <2>3. Median(prices) = d[m + 1] BY <1>1, <1>2, <1>11, <1>13 DEF Median
  <2>4. 2 * (m + 1) >= n /\ 2 * (n - (m + 1) + 1) >= n BY <2>1
  <2>5. QED BY <1>10, <2>1, <2>2, <2>3, <2>4
<1>14. QED BY <1>12, <1>13

\* A moving average stays within the prices it is taken from.
LEMMA EmaWithin ==
    ASSUME NEW obs \in Seq(Seen), obs # <<>>, NEW alpha \in Nat, Accepted(alpha),
           NEW lo \in Representable, NEW hi \in Representable,
           \A i \in DOMAIN obs : lo <= obs[i].price /\ obs[i].price <= hi
    PROVE  Ema(obs, alpha) \in Int /\ lo <= Ema(obs, alpha) /\ Ema(obs, alpha) <= hi
<1>1. PICK list : list = Tail(obs) OBVIOUS
<1>2. list \in Seq(Seen) /\ Len(list) = Len(obs) - 1 /\ \A i \in 1..Len(list) : list[i] = obs[i + 1]
  BY <1>1, HeadTailProperties
<1>3. Len(obs) \in Nat /\ Len(obs) > 0 /\ DOMAIN obs = 1..Len(obs) OBVIOUS
<1>4. DOMAIN list = 1..Len(list) BY <1>2
<1>5. \A i \in 1..Len(obs) : obs[i] \in Seen BY ElementOfSeq
<1>6. \A i \in 1..Len(obs) : obs[i].price \in Int
  <2>1. \A i \in 1..Len(obs) : obs[i].price \in Representable BY <1>5 DEF Seen
  <2>2. QED BY <2>1, RepresentableInt
<1>7. ASSUME NEW z \in DOMAIN list PROVE list[z].price \in Int /\ lo <= list[z].price /\ list[z].price <= hi
  <2>1. z + 1 \in 1..Len(obs) /\ list[z] = obs[z + 1] BY <1>2, <1>3, <1>4
  <2>2. QED BY <1>3, <1>6, <2>1
<1>8. PICK st : st = obs[1].price OBVIOUS
<1>9. st \in Int /\ lo <= st /\ st <= hi
  <2>1. 1 \in 1..Len(obs) BY <1>3
  <2>2. QED BY <1>3, <1>6, <1>8, <2>1
<1>a. lo \in Int /\ hi \in Int BY RepresentableInt
<1>10. PICK X : X = [T \in SUBSET DOMAIN list |-> lo..hi] OBVIOUS
<1>11. \A T \in SUBSET DOMAIN list : X[T] = lo..hi BY <1>10
<1>12. st \in X[{}] BY <1>a, <1>9, <1>11
<1>13. \A T \in SUBSET DOMAIN list : \A z \in T : (\A y \in T : z >= y) =>
         \A x \in X[T \ {z}] : EmaStep(x, list[z].price, alpha) \in X[T]
  <2>1. SUFFICES ASSUME NEW T \in SUBSET DOMAIN list, NEW z \in T, NEW x \in X[T \ {z}]
                 PROVE  EmaStep(x, list[z].price, alpha) \in X[T]
    OBVIOUS
  <2>2. x \in lo..hi /\ X[T] = lo..hi BY <1>11
  <2>3. PICK y : y = list[z].price OBVIOUS
  <2>4. y \in Int /\ lo <= y /\ y <= hi BY <1>7, <2>3
  <2>5. x \in Int /\ lo <= x /\ x <= hi BY <1>a, <2>2
  <2>6. PICK e : e = EmaStep(x, y, alpha) OBVIOUS
  <2>7. e \in Int /\ lo <= e /\ e <= hi BY <2>4, <2>5, <2>6, EmaStepWithin
  <2>8. e \in X[T] BY <1>a, <2>2, <2>7
  <2>9. QED BY <2>3, <2>6, <2>8
<1>15. PICK e : e = Ema(obs, alpha) OBVIOUS
<1>16. e \in X[DOMAIN list]
  <2>1. obs[1].price \in X[{}] BY <1>8, <1>12
  <2>2. \A T \in SUBSET DOMAIN Tail(obs) : \A z \in T : (\A y \in T : z >= y) =>
          \A x \in X[T \ {z}] : EmaStep(x, Tail(obs)[z].price, alpha) \in X[T]
    BY <1>1, <1>13, Zenon
  <2>3. Ema(obs, alpha) \in X[DOMAIN Tail(obs)] BY <2>1, <2>2, EmaReaches, Zenon
  <2>4. QED BY <1>1, <1>15, <2>3
<1>17. e \in lo..hi BY <1>11, <1>16
<1>18. QED BY <1>a, <1>15, <1>17

\* The observations are in the order of their time stamps, and none is ahead of the ledger.
Chronological(trail) ==
    /\ \A i, j \in DOMAIN trail : i <= j => trail[i].at <= trail[j].at
    /\ \A i \in DOMAIN trail : trail[i].at <= now

\* A part of a representable product is representable.
LEMMA PartRepresentable ==
    ASSUME NEW p \in Int, NEW w \in Nat, NEW W \in Nat, w <= W, p * W \in Representable
    PROVE  p * w \in Representable
<1>1. PICK m \in Nat : m = PriceMax BY RepresentableInt
<1>2. p * W \in Int /\ -m - 1 <= p * W /\ p * W <= m BY <1>1, RepresentableInt
<1>3. p * w \in Int OBVIOUS
<1>4. p * w \in Int /\ -m - 1 <= p * w /\ p * w <= m
  <2>1. 0 * w = 0 OBVIOUS
  <2>2. CASE p >= 0
    <3>1. p \in Nat BY <2>2
    <3>2. p * w <= p * W BY <3>1, ProductGrows
    <3>3. 0 * w <= p * w BY <2>2, ProductGrows
    <3>4. QED BY <1>2, <1>3, <2>1, <3>2, <3>3
  <2>3. CASE ~(p >= 0)
    <3>1. PICK q : q = -p OBVIOUS
    <3>2. q \in Nat BY <2>3, <3>1
    <3>3. q * w <= q * W BY <3>2, ProductGrows
    <3>4. (-p) * w = -(p * w) /\ (-p) * W = -(p * W) OBVIOUS
    <3>5. -(p * w) <= -(p * W) BY <3>1, <3>3, <3>4
    <3>6. p * w <= 0 * w BY <2>3, ProductGrows
    <3>7. QED BY <1>2, <1>3, <2>1, <3>5, <3>6
  <2>4. QED BY <2>2, <2>3
<1>5. QED BY <1>1, <1>4, RepresentableInt

\* A sum over some time lies between the bounds held for that time.
Balanced(lo, hi, sum, time) == lo * time <= sum /\ sum <= hi * time

\* The bounds held for all the time are representable.
Roomy(lo, hi, W) == lo * W \in Representable /\ hi * W \in Representable

\* A round of the loop keeps the sum between the bounds.
LEMMA WeighedWithin ==
    ASSUME NEW lo \in Int, NEW hi \in Int, NEW W \in Nat, Roomy(lo, hi, W),
           NEW sum \in Int, NEW time \in Nat, Balanced(lo, hi, sum, time),
           NEW p \in Int, lo <= p, p <= hi, NEW w \in Nat, NEW later \in Nat, later = time + w, later <= W,
           NEW new, new = Saturating(sum + Saturating(p * w))
    PROVE  new \in Int /\ Balanced(lo, hi, new, later)
<1>a. lo * W \in Representable /\ hi * W \in Representable BY DEF Roomy
<1>b. lo * time <= sum /\ sum <= hi * time BY DEF Balanced
<1>1. lo * w <= p * w /\ p * w <= hi * w BY ProductGrows
<1>2. w <= W /\ time + w \in Nat OBVIOUS
<1>3. lo * w \in Representable /\ hi * w \in Representable BY <1>a, <1>2, PartRepresentable
<1>4. PICK v \in Int : v = p * w OBVIOUS
<1>5. PICK y : y = Saturating(v) OBVIOUS
<1>6. y \in Int /\ lo * w <= y /\ y <= hi * w
  <2>1. PICK a \in Representable, b \in Representable : a = lo * w /\ b = hi * w BY <1>3
  <2>2. a <= v /\ v <= b BY <1>1, <1>4, <2>1
  <2>3. y \in Int /\ a <= y /\ y <= b BY <1>5, <2>2, SaturatingWithin
  <2>4. QED BY <2>1, <2>3
<1>7. lo * (time + w) \in Representable /\ hi * (time + w) \in Representable BY <1>a, <1>2, PartRepresentable
<1>8. PICK t \in Int : t = sum + y BY <1>6
<1>9. lo * (time + w) = lo * time + lo * w /\ hi * (time + w) = hi * time + hi * w
  <2>1. (time + w) * lo = time * lo + w * lo /\ (time + w) * hi = time * hi + w * hi BY Distributes
  <2>2. /\ (time + w) * lo = lo * (time + w) /\ time * lo = lo * time /\ w * lo = lo * w
        /\ (time + w) * hi = hi * (time + w) /\ time * hi = hi * time /\ w * hi = hi * w
    OBVIOUS
  <2>3. QED BY <2>1, <2>2
<1>10. lo * time \in Int /\ lo * w \in Int /\ hi * time \in Int /\ hi * w \in Int OBVIOUS
<1>11. lo * (time + w) <= t /\ t <= hi * (time + w) BY <1>b, <1>6, <1>8, <1>9, <1>10
<1>12. PICK a \in Representable, b \in Representable : a = lo * (time + w) /\ b = hi * (time + w) BY <1>7
<1>13. a <= t /\ t <= b BY <1>11, <1>12
<1>14. new = Saturating(t) BY <1>4, <1>5, <1>8
<1>15. new \in Int /\ a <= new /\ new <= b BY <1>13, <1>14, SaturatingWithin
<1>16. QED BY <1>12, <1>15 DEF Balanced

\* What the loop has weighed when it ends: all the time since the oldest observation.
LEMMA TallyWithin ==
    ASSUME NEW obs \in Seq(Seen), obs # <<>>, Chronological(obs), now \in Nat, NEW lo \in Int, NEW hi \in Int,
           \A i \in DOMAIN obs : lo <= obs[i].price /\ obs[i].price <= hi,
           lo * (now - obs[1].at) \in Representable, hi * (now - obs[1].at) \in Representable
    PROVE  \E sum \in Int, time \in Nat :
             Tally(obs) = [sum |-> sum, time |-> time] /\ Balanced(lo, hi, sum, time)
<1>1. PICK n \in Nat : n = Len(obs) /\ DOMAIN obs = 1..n /\ n > 0 OBVIOUS
<1>2. \A i \in 1..n : obs[i].price \in Int /\ obs[i].at \in Nat
  <2>1. \A i \in 1..n : obs[i] \in Seen BY <1>1, ElementOfSeq
  <2>2. \A i \in 1..n : obs[i].price \in Representable /\ obs[i].at \in Nat BY <2>1 DEF Seen
  <2>3. QED BY <2>2, RepresentableInt
<1>3. /\ \A i, j \in 1..n : i <= j => obs[i].at <= obs[j].at
      /\ \A i \in 1..n : obs[i].at <= now
  BY <1>1 DEF Chronological
<1>4. \A i \in 1..n : lo <= obs[i].price /\ obs[i].price <= hi BY <1>1
<1>5. PICK e : e = [k \in 0..n |-> IF k < n THEN obs[k + 1].at ELSE now] OBVIOUS
<1>6. ASSUME NEW k \in 0..n PROVE e[k] \in Nat /\ e[0] <= e[k] /\ e[k] <= e[n]
  <2>1. 1 \in 1..n /\ e[0] = obs[1].at /\ e[n] = now BY <1>1, <1>5
  <2>2. CASE k < n
    <3>1. k + 1 \in 1..n /\ 1 <= k + 1 BY <2>2
    <3>2. e[k] = obs[k + 1].at BY <1>5, <2>2
    <3>3. obs[1].at <= obs[k + 1].at /\ obs[k + 1].at <= now /\ obs[k + 1].at \in Nat BY <1>2, <1>3, <2>1, <3>1
    <3>4. QED BY <2>1, <3>2, <3>3
  <2>3. CASE ~(k < n)
    <3>1. e[k] = now BY <1>5, <2>3
    <3>2. obs[1].at <= now BY <1>3, <2>1
    <3>3. QED BY <2>1, <3>1, <3>2
  <2>4. QED BY <2>2, <2>3
<1>7. ASSUME NEW k \in 1..n PROVE HeldFor(obs, k) = e[k] - e[k - 1] /\ e[k] - e[k - 1] \in Nat /\ k - 1 \in 0..n
  <2>1. k - 1 \in 0..n /\ k \in 0..n /\ k - 1 < n /\ (k - 1) + 1 = k OBVIOUS
  <2>2. e[k - 1] = obs[k].at BY <1>5, <2>1
  <2>3. e[k] = IF k < n THEN obs[k + 1].at ELSE now BY <1>5, <2>1
  <2>4. HeldFor(obs, k) = e[k] - e[k - 1] BY <1>1, <2>2, <2>3 DEF HeldFor
  <2>5. e[k - 1] <= e[k]
    <3>1. CASE k < n
      <4>1. k + 1 \in 1..n /\ k <= k + 1 BY <3>1
      <4>2. QED BY <1>3, <2>2, <2>3, <3>1, <4>1
    <3>2. CASE ~(k < n) BY <1>3, <2>2, <2>3, <3>2
    <3>3. QED BY <3>1, <3>2
  <2>6. e[k] \in Nat /\ e[k - 1] \in Nat BY <1>6, <2>1
  <2>7. QED BY <2>1, <2>4, <2>5, <2>6
<1>8. PICK W \in Nat : W = e[n] - e[0] /\ W = now - obs[1].at
  <2>1. n \in 0..n /\ 0 \in 0..n /\ e[0] = obs[1].at /\ e[n] = now BY <1>1, <1>5
  <2>2. e[n] \in Nat /\ e[0] \in Nat /\ e[0] <= e[n] BY <1>6, <2>1
  <2>3. QED BY <2>1, <2>2
<1>9. Roomy(lo, hi, W) BY <1>8 DEF Roomy
<1> DEFINE Good(t, k) == t.time = e[k] - e[0] /\ Balanced(lo, hi, t.sum, t.time)
<1>10. PICK X : X = [T \in SUBSET DOMAIN obs |-> {t \in [sum : Int, time : Nat] : \A k \in 0..n : T = 1..k => Good(t, k)}]
  OBVIOUS
<1>11. \A T \in SUBSET DOMAIN obs :
         X[T] = {t \in [sum : Int, time : Nat] : \A k \in 0..n : T = 1..k => Good(t, k)}
  BY <1>10
<1>12. [sum |-> 0, time |-> 0] \in X[{}]
  <2>1. PICK t : t = [sum |-> 0, time |-> 0] OBVIOUS
  <2>2. t \in [sum : Int, time : Nat] /\ t.sum = 0 /\ t.time = 0 BY <2>1
  <2>3. ASSUME NEW k \in 0..n, {} = 1..k PROVE Good(t, k)
    <3>1. k = 0
      <4>1. SUFFICES ASSUME k # 0 PROVE FALSE OBVIOUS
      <4>2. 1 \in 1..k BY <4>1
      <4>3. QED BY <2>3, <4>2
    <3>2. e[0] \in Nat BY <1>6
    <3>3. lo * 0 = 0 /\ hi * 0 = 0 OBVIOUS
    <3>4. QED BY <2>2, <3>1, <3>2, <3>3 DEF Balanced
  <2> HIDE DEF Good
  <2>4. {} \in SUBSET DOMAIN obs OBVIOUS
  <2>5. QED BY <1>11, <2>1, <2>2, <2>3, <2>4
<1>13. ASSUME NEW T \in SUBSET DOMAIN obs, NEW z \in T, \A y \in T : z >= y, NEW x \in X[T \ {z}]
       PROVE  Weighed(x, obs, z) \in X[T]
  <2>1. T \ {z} \in SUBSET DOMAIN obs /\ z \in 1..n BY <1>1
  <2>2. x \in [sum : Int, time : Nat] /\ \A k \in 0..n : T \ {z} = 1..k => Good(x, k)
    <3> HIDE DEF Good
    <3>1. QED BY <1>11, <1>13, <2>1
  <2>3. PICK sum \in Int, time \in Nat : sum = x.sum /\ time = x.time BY <2>2
  <2>4. PICK w \in Nat : w = HeldFor(obs, z) /\ w = e[z] - e[z - 1] BY <1>7, <2>1
  <2>5. PICK p \in Int : p = obs[z].price /\ lo <= p /\ p <= hi BY <1>2, <1>4, <2>1
  <2>6. PICK new : new = Saturating(sum + Saturating(p * w)) OBVIOUS
  <2>7. new \in Int
    <3>1. PICK v \in Int : v = p * w OBVIOUS
    <3>2. PICK u \in Int : u = Saturating(v) BY SaturatingWithin
    <3>3. PICK t \in Int : t = sum + u OBVIOUS
    <3>4. Saturating(t) \in Int BY SaturatingWithin
    <3>5. QED BY <2>6, <3>1, <3>2, <3>3, <3>4
  <2>8. PICK t : t = [sum |-> new, time |-> time + w] OBVIOUS
  <2>9. Weighed(x, obs, z) = t BY <2>3, <2>4, <2>5, <2>6, <2>8 DEF Weighed
  <2>10. t \in [sum : Int, time : Nat] /\ t.sum = new /\ t.time = time + w BY <2>7, <2>8
  <2>11. ASSUME NEW k \in 0..n, T = 1..k PROVE Good(t, k)
    <3>1. z = k /\ k \in 1..n
      <4>1. z \in 1..k BY <2>11
      <4>2. k \in T BY <2>11, <4>1
      <4>3. z >= k BY <1>13, <4>2
      <4>4. QED BY <4>1, <4>3
    <3>2. T \ {z} = 1..(k - 1) BY <2>11, <3>1
    <3>3. k - 1 \in 0..n BY <3>1
    <3>4. Good(x, k - 1) BY <2>2, <3>2, <3>3
    <3>5. time = e[k - 1] - e[0] /\ Balanced(lo, hi, sum, time) BY <2>3, <3>4
    <3>6. e[k] \in Nat /\ e[k - 1] \in Nat /\ e[0] \in Nat /\ e[n] \in Nat /\ e[k] <= e[n]
      <4>1. 0 \in 0..n /\ n \in 0..n OBVIOUS
      <4>2. QED BY <1>6, <3>3, <4>1
    <3>7. time + w = e[k] - e[0] /\ time + w <= W
      <4>1. PICK a \in Nat, b \in Nat, c \in Nat, d \in Nat : a = e[k - 1] /\ b = e[0] /\ c = e[k] /\ d = e[n] BY <3>6
      <4>2. w = c - a /\ time = a - b /\ W = d - b /\ c <= d BY <1>8, <2>4, <3>1, <3>5, <3>6, <4>1
      <4>3. time + w = c - b /\ time + w <= W BY <4>2, SMTT(60)
      <4>4. QED BY <4>1, <4>3
    <3>8. Balanced(lo, hi, new, time + w)
      <4>1. PICK later \in Nat : later = time + w /\ later <= W BY <3>7
      <4>2. Balanced(lo, hi, new, later) BY <1>9, <2>5, <2>6, <3>5, <4>1, WeighedWithin
      <4>3. QED BY <4>1, <4>2
    <3>9. QED BY <2>10, <3>7, <3>8
  <2> HIDE DEF Good
  <2>12. QED BY <1>11, <2>9, <2>10, <2>11
<1>14. \A T \in SUBSET DOMAIN obs : \A z \in T : (\A y \in T : z >= y) =>
         \A x \in X[T \ {z}] : Weighed(x, obs, z) \in X[T]
  BY <1>13
<1>15. Tally(obs) \in X[DOMAIN obs] BY <1>12, <1>14, TallyReaches, Zenon
<1>16. PICK t : t = Tally(obs) OBVIOUS
<1>17. t \in [sum : Int, time : Nat] /\ \A k \in 0..n : DOMAIN obs = 1..k => Good(t, k)
  <2> HIDE DEF Good
  <2>1. DOMAIN obs \in SUBSET DOMAIN obs OBVIOUS
  <2>2. QED BY <1>11, <1>15, <1>16, <2>1
<1>18. n \in 0..n BY <1>1
<1>19. Balanced(lo, hi, t.sum, t.time) BY <1>1, <1>17, <1>18
<1>20. t.sum \in Int /\ t.time \in Nat /\ t = [sum |-> t.sum, time |-> t.time] BY <1>17
<1>21. QED BY <1>16, <1>19, <1>20

\* A time-weighted average stays within the prices it is taken from.
LEMMA TwapWithin ==
    ASSUME NEW obs \in Seq(Seen), obs # <<>>, Chronological(obs), now \in Nat, NEW lo \in Int, NEW hi \in Int,
           \A i \in DOMAIN obs : lo <= obs[i].price /\ obs[i].price <= hi,
           lo * (now - obs[1].at) \in Representable, hi * (now - obs[1].at) \in Representable
    PROVE  lo <= Twap(obs) /\ Twap(obs) <= hi
<1>1. PICK n \in Nat : n = Len(obs) /\ DOMAIN obs = 1..n /\ n > 0 OBVIOUS
<1>2. \A i \in 1..n : lo <= obs[i].price /\ obs[i].price <= hi BY <1>1
<1>3. PICK V \in Int, W \in Nat : Tally(obs) = [sum |-> V, time |-> W] /\ Balanced(lo, hi, V, W) BY TallyWithin
<1>4. Tally(obs).sum = V /\ Tally(obs).time = W BY <1>3
<1>5. CASE n = 1
  <2>1. Twap(obs) = obs[1].price BY <1>1, <1>5 DEF Twap
  <2>2. 1 \in 1..n BY <1>1
  <2>3. QED BY <1>2, <2>1, <2>2
<1>6. CASE n # 1 /\ W = 0
  <2>1. Twap(obs) = obs[n].price BY <1>1, <1>4, <1>6 DEF Twap, Last
  <2>2. n \in 1..n BY <1>1
  <2>3. QED BY <1>2, <2>1, <2>2
<1>7. CASE n # 1 /\ W # 0
  <2>1. Twap(obs) = Quotient(V, W) BY <1>1, <1>4, <1>7 DEF Twap
  <2>2. W > 0 BY <1>7
  <2>3. lo <= Quotient(V, W) /\ Quotient(V, W) <= hi BY <1>3, <2>2, QuotientWithin DEF Balanced
  <2>4. QED BY <2>1, <2>3
<1>8. QED BY <1>5, <1>6, <1>7

\* Of finitely many numbers one is the least and one is the greatest.
LEMMA Extremes ==
    ASSUME NEW S, IsFiniteSet(S), NEW f, \A z \in S : f[z] \in Int
    PROVE  \A T \in SUBSET S : T # {} => \E x, y \in T : \A z \in T : f[x] <= f[z] /\ f[z] <= f[y]
<1> DEFINE D == {T \in SUBSET S : T # {} => \E x, y \in T : \A z \in T : f[x] <= f[z] /\ f[z] <= f[y]}
<1>1. ASSUME NEW T \in SUBSET S, \A U \in SUBSET T : U # T => U \in D PROVE T \in D
  <2> SUFFICES ASSUME T # {} PROVE \E x, y \in T : \A z \in T : f[x] <= f[z] /\ f[z] <= f[y] OBVIOUS
  <2>1. PICK c \in T : TRUE OBVIOUS
  <2>2. PICK U : U = T \ {c} OBVIOUS
  <2>3. U \in SUBSET S /\ U \in D /\ T = U \cup {c}
    <3>1. U \in SUBSET S /\ U \in SUBSET T /\ U # T /\ T = U \cup {c} BY <2>1, <2>2
    <3> HIDE DEF D
    <3>2. QED BY <1>1, <3>1
  <2>4. \A z \in T : f[z] \in Int OBVIOUS
  <2>5. CASE U = {}
    <3>1. \A z \in T : z = c BY <2>3, <2>5
    <3>2. \A z \in T : f[c] <= f[z] /\ f[z] <= f[c] BY <2>4, <3>1
    <3>3. QED BY <2>1, <3>2
  <2>6. CASE U # {}
    <3>1. PICK x \in U, y \in U : \A z \in U : f[x] <= f[z] /\ f[z] <= f[y] BY <2>3, <2>6
    <3>2. PICK a \in T : (a = x \/ a = c) /\ f[a] <= f[x] /\ f[a] <= f[c]
      <4>1. x \in T /\ c \in T /\ f[x] \in Int /\ f[c] \in Int BY <2>3, <2>4, <3>1
      <4>2. CASE f[x] <= f[c] BY <4>1, <4>2
      <4>3. CASE f[c] <= f[x] BY <4>1, <4>3
      <4>4. QED BY <4>1, <4>2, <4>3
    <3>3. PICK b \in T : (b = y \/ b = c) /\ f[y] <= f[b] /\ f[c] <= f[b]
      <4>1. y \in T /\ c \in T /\ f[y] \in Int /\ f[c] \in Int BY <2>3, <2>4, <3>1
      <4>2. CASE f[y] <= f[c] BY <4>1, <4>2
      <4>3. CASE f[c] <= f[y] BY <4>1, <4>3
      <4>4. QED BY <4>1, <4>2, <4>3
    <3>4. ASSUME NEW z \in T PROVE f[a] <= f[z] /\ f[z] <= f[b]
      <4>1. f[a] \in Int /\ f[b] \in Int /\ f[x] \in Int /\ f[y] \in Int /\ f[z] \in Int BY <2>3, <2>4, <3>1
      <4>2. CASE z = c BY <3>2, <3>3, <4>2
      <4>3. CASE z \in U
        <5>1. f[x] <= f[z] /\ f[z] <= f[y] BY <3>1, <4>3
        <5>2. QED BY <3>2, <3>3, <4>1, <5>1
      <4>4. QED BY <2>3, <4>2, <4>3
    <3>5. QED BY <3>4
  <2>7. QED BY <2>5, <2>6
<1>2. \A T \in SUBSET S : T \in D
  <2> HIDE DEF D
  <2>1. QED BY <1>1, SubsetInduction
<1>3. QED BY <1>2

\* The least and the greatest of the prices observed.
LEMMA PriceRange ==
    ASSUME NEW obs \in Seq(Seen), obs # <<>>
    PROVE  \E a, b \in DOMAIN obs :
             /\ obs[a].price \in Representable /\ obs[b].price \in Representable
             /\ \A i \in DOMAIN obs : obs[a].price <= obs[i].price /\ obs[i].price <= obs[b].price
<1>1. PICK n \in Nat : n = Len(obs) /\ DOMAIN obs = 1..n /\ n > 0 OBVIOUS
<1>2. \A i \in 1..n : obs[i].price \in Representable /\ obs[i].price \in Int
  <2>1. \A i \in 1..n : obs[i] \in Seen BY <1>1, ElementOfSeq
  <2>2. \A i \in 1..n : obs[i].price \in Representable BY <2>1 DEF Seen
  <2>3. QED BY <2>2, RepresentableInt
<1>3. PICK S : S = 1..n OBVIOUS
<1>4. IsFiniteSet(S) /\ S # {}
  <2>1. IsFiniteSet(1..n) BY FS_Interval
  <2>2. 1 \in 1..n BY <1>1
  <2>3. QED BY <1>3, <2>1, <2>2
<1>5. PICK f : f = [i \in S |-> obs[i].price] OBVIOUS
<1>6. \A i \in S : f[i] = obs[i].price /\ f[i] \in Int BY <1>2, <1>3, <1>5
<1>7. S \in SUBSET S OBVIOUS
<1>8. PICK a \in S, b \in S : \A z \in S : f[a] <= f[z] /\ f[z] <= f[b] BY <1>4, <1>6, <1>7, Extremes
<1>9. obs[a].price \in Representable /\ obs[b].price \in Representable BY <1>2, <1>3
<1>10. \A i \in DOMAIN obs : obs[a].price <= obs[i].price /\ obs[i].price <= obs[b].price BY <1>1, <1>3, <1>6, <1>8
<1>11. a \in DOMAIN obs /\ b \in DOMAIN obs BY <1>1, <1>3
<1>12. QED BY <1>9, <1>10, <1>11, Zenon

\* No two observations of the trail are of one ledger.
OnePerLedger(trail) == \A i, j \in DOMAIN trail : i # j => trail[i].at # trail[j].at

OracleTyped ==
    /\ now \in Nat
    /\ history \in Seq(Seen) /\ assetTrail \in Seq(Seen)
    /\ publishers \in Seq(Feeders) \cup {NoPrice}
    /\ submissions \in [Feeders -> Seen \cup {NoPrice}]
    /\ bonds \in [Feeders -> Nat] /\ bondHeld \in [BondTokens -> Nat] /\ bondToken \in BondTokens \cup {NoPrice}

\* A trail in order that has not outgrown its ring buffer.
Kempt(trail) == Chronological(trail) /\ Len(trail) <= MaxHistory

\* What the contract holds, whatever the token, comes to what the publishers have bonded.
BondsHeld == SumFunctionOnSet(bondHeld, BondTokens) = SumFunctionOnSet(bonds, Feeders)

OracleInv ==
    /\ OracleTyped
    /\ Kempt(history) /\ OnePerLedger(history)
    /\ Kempt(assetTrail)
    /\ BondsHeld

\* What an observation holds.
LEMMA ObservationTyped ==
    ASSUME NEW x \in Representable, now \in Nat
    PROVE  Observation(x) \in Seen /\ Observation(x).at = now
BY DEF Observation, Seen

\* A new observation at the end, the oldest one dropped when the buffer is full.
LEMMA AppendedKempt ==
    ASSUME NEW trail \in Seq(Seen), NEW x \in Representable, now \in Nat, Kempt(trail), NEW y, y = Appended(trail, x)
    PROVE  /\ y \in Seq(Seen) /\ Kempt(y)
           /\ OnePerLedger(trail) /\ (\A i \in DOMAIN trail : trail[i].at # now) => OnePerLedger(y)
<1>1. PICK n \in Nat : n = Len(trail) /\ DOMAIN trail = 1..n OBVIOUS
<1>2. PICK o \in Seen : o = Observation(x) /\ o.at = now BY ObservationTyped
<1>3. PICK z : z = Append(trail, o) OBVIOUS
<1>4. /\ z \in Seq(Seen) /\ Len(z) = n + 1 /\ z # <<>>
      /\ z[n + 1] = o /\ \A i \in 1..n : z[i] = trail[i]
  BY <1>1, <1>3, AppendProperties
<1>5. DOMAIN z = 1..(n + 1) BY <1>4
<1>6. n <= MaxHistory /\ MaxHistory \in Nat \ {0} BY <1>1, OracleAssumption DEF Kempt
<1>7. /\ \A i, j \in 1..n : i <= j => trail[i].at <= trail[j].at
      /\ \A i \in 1..n : trail[i].at <= now
  BY <1>1 DEF Kempt, Chronological
<1>8. \A i \in 1..n : z[i].at = trail[i].at BY <1>4
<1>9. z[n + 1].at = now BY <1>2, <1>4
<1>10. \A i \in 1..(n + 1) : z[i].at <= now
  <2>1. ASSUME NEW i \in 1..(n + 1) PROVE z[i].at <= now
    <3>1. CASE i \in 1..n BY <1>7, <1>8, <3>1
    <3>2. CASE i = n + 1 BY <1>9, <3>2
    <3>3. QED BY <3>1, <3>2
  <2>2. QED BY <2>1
<1>11. \A i, j \in 1..(n + 1) : i <= j => z[i].at <= z[j].at
  <2>1. ASSUME NEW i \in 1..(n + 1), NEW j \in 1..(n + 1), i <= j PROVE z[i].at <= z[j].at
    <3>1. CASE j \in 1..n
      <4>1. i \in 1..n BY <2>1, <3>1
      <4>2. QED BY <1>7, <1>8, <2>1, <3>1, <4>1
    <3>2. CASE j = n + 1 BY <1>9, <1>10, <3>2
    <3>3. QED BY <3>1, <3>2
  <2>2. QED BY <2>1
<1>12. ASSUME OnePerLedger(trail), \A i \in DOMAIN trail : trail[i].at # now
       PROVE  \A i, j \in 1..(n + 1) : i # j => z[i].at # z[j].at
  <2>1. \A i, j \in 1..n : i # j => z[i].at # z[j].at BY <1>1, <1>8, <1>12 DEF OnePerLedger
  <2>2. \A i \in 1..n : z[i].at # z[n + 1].at BY <1>1, <1>8, <1>9, <1>12
  <2>3. \A i \in 1..(n + 1) : i \in 1..n \/ i = n + 1 OBVIOUS
  <2>4. QED BY <2>1, <2>2, <2>3, Zenon
<1>13. CASE n + 1 > MaxHistory
  <2>1. y = Tail(z) BY <1>2, <1>3, <1>4, <1>13 DEF Appended
  <2>2. y \in Seq(Seen) /\ Len(y) = n /\ \A i \in 1..n : y[i] = z[i + 1]
    <3>1. y \in Seq(Seen) /\ Len(y) = Len(z) - 1 /\ \A i \in 1..Len(y) : y[i] = z[i + 1]
      BY <1>4, <2>1, HeadTailProperties
    <3>2. Len(z) - 1 = n BY <1>4
    <3>3. QED BY <3>1, <3>2
  <2>3. DOMAIN y = 1..n BY <2>2
  <2>4. \A i \in 1..n : i + 1 \in 1..(n + 1) /\ y[i].at = z[i + 1].at BY <2>2
  <2>5. Chronological(y)
    <3>1. \A i \in 1..n : y[i].at <= now BY <1>10, <2>4
    <3>2. \A i, j \in 1..n : i <= j => y[i].at <= y[j].at
      <4>1. \A i, j \in 1..n : i <= j => i + 1 <= j + 1 OBVIOUS
      <4>2. QED BY <1>11, <2>4, <4>1
    <3>3. QED BY <2>3, <3>1, <3>2 DEF Chronological
  <2>6. ASSUME OnePerLedger(trail), \A i \in DOMAIN trail : trail[i].at # now PROVE OnePerLedger(y)
    <3>1. \A i, j \in 1..n : i # j => i + 1 # j + 1 OBVIOUS
    <3>2. \A i, j \in 1..n : i # j => y[i].at # y[j].at BY <1>12, <2>4, <2>6, <3>1
    <3>3. QED BY <2>3, <3>2 DEF OnePerLedger
  <2>7. QED BY <1>6, <2>2, <2>5, <2>6 DEF Kempt
<1>14. CASE ~(n + 1 > MaxHistory)
  <2>1. y = z BY <1>2, <1>3, <1>4, <1>14 DEF Appended
  <2>2. Chronological(y) BY <1>5, <1>10, <1>11, <2>1 DEF Chronological
  <2>3. ASSUME OnePerLedger(trail), \A i \in DOMAIN trail : trail[i].at # now PROVE OnePerLedger(y)
    BY <1>5, <1>12, <2>1, <2>3 DEF OnePerLedger
  <2>4. Len(y) <= MaxHistory BY <1>4, <1>6, <1>14, <2>1
  <2>5. QED BY <1>4, <2>1, <2>2, <2>3, <2>4 DEF Kempt
<1>15. QED BY <1>6, <1>13, <1>14

\* A price merged into the last observation, or appended.
LEMMA PushedKempt ==
    ASSUME OracleTyped, Kempt(history), OnePerLedger(history), NEW x \in Representable, NEW y, y = PushHistory(x)
    PROVE  y \in Seq(Seen) /\ Kempt(y) /\ OnePerLedger(y)
<1>1. history \in Seq(Seen) /\ now \in Nat BY DEF OracleTyped
<1>2. PICK n \in Nat : n = Len(history) /\ DOMAIN history = 1..n BY <1>1
<1>3. CASE history # <<>> /\ Last(history).at = now
  <2>1. n \in 1..n /\ Last(history) = history[n] BY <1>1, <1>2, <1>3 DEF Last
  <2>2. PICK o \in Seen : o = history[n] BY <1>1, <1>2, <2>1
  <2>3. PICK m : m = Quotient(Saturating(o.price + x), 2) OBVIOUS
  <2>4. m \in Representable
    <3>1. o.price \in Representable BY <2>2 DEF Seen
    <3>2. o.price \in Int /\ x \in Int BY <3>1, RepresentableInt
    <3>3. PICK s \in Int : s = o.price + x BY <3>2
    <3>4. PICK t \in Representable : t = Saturating(s) BY SaturatingWithin
    <3>5. PICK b \in Nat : b = PriceMax BY RepresentableInt
    <3>6. t \in Int /\ -b - 1 <= t /\ t <= b BY <3>5, RepresentableInt
    <3>7. (-b - 1) * 2 <= t /\ t <= b * 2 /\ -b - 1 \in Int BY <3>6
    <3>8. 2 \in Nat /\ 2 > 0 /\ b \in Int OBVIOUS
    <3>9. PICK low \in Int : low = -b - 1 OBVIOUS
    <3>10. low * 2 <= t BY <3>7, <3>9
    <3>11. Quotient(t, 2) \in Int /\ low <= Quotient(t, 2) /\ Quotient(t, 2) <= b
      BY <3>6, <3>7, <3>8, <3>10, QuotientWithin
    <3>12. m = Quotient(t, 2) BY <2>3, <3>3, <3>4
    <3>13. QED BY <3>5, <3>9, <3>11, <3>12, RepresentableInt
  <2>5. PICK e : e = [o EXCEPT !.price = m] OBVIOUS
  <2>6. e \in Seen /\ e.at = o.at BY <2>2, <2>4, <2>5 DEF Seen
  <2>7. y = [history EXCEPT ![n] = e]
    BY <1>2, <1>3, <2>2, <2>3, <2>5 DEF PushHistory
  <2>8. y \in Seq(Seen) /\ Len(y) = n /\ \A j \in 1..n : y[j] = IF j = n THEN e ELSE history[j]
    BY <1>1, <1>2, <2>1, <2>6, <2>7, ExceptSeq
  <2>9. DOMAIN y = 1..n BY <2>8
  <2>10. \A j \in 1..n : y[j].at = history[j].at BY <2>2, <2>6, <2>8
  <2>11. Chronological(y) BY <1>2, <2>9, <2>10 DEF Kempt, Chronological
  <2>12. OnePerLedger(y) BY <1>2, <2>9, <2>10 DEF OnePerLedger
  <2>13. QED BY <1>2, <2>8, <2>11, <2>12 DEF Kempt
<1>4. CASE ~(history # <<>> /\ Last(history).at = now)
  <2>1. y = Appended(history, x) BY <1>4 DEF PushHistory
  <2>2. ASSUME NEW i \in DOMAIN history PROVE history[i].at # now
    <3>1. history # <<>> /\ n \in 1..n /\ i <= n BY <1>1, <1>2, <2>2
    <3>2. history[n].at # now BY <1>2, <1>4, <3>1 DEF Last
    <3>3. history[i].at <= history[n].at /\ history[n].at <= now BY <1>2, <3>1 DEF Kempt, Chronological
    <3>4. history[i].at \in Nat /\ history[n].at \in Nat
      <4>1. history[i] \in Seen /\ history[n] \in Seen BY <1>1, <1>2, <3>1
      <4>2. QED BY <4>1 DEF Seen
    <3>5. QED BY <1>1, <3>2, <3>3, <3>4
  <2>3. QED BY <1>1, <2>1, <2>2, AppendedKempt
<1>5. QED BY <1>3, <1>4

\* What the assumption on the constants says of the candidates.
LEMMA OracleConstants ==
    /\ Prices \subseteq Representable /\ Submitted \subseteq Representable /\ Bonds \subseteq Int /\ Smoothings \subseteq Nat
    /\ IsFiniteSet(Feeders) /\ IsFiniteSet(BondTokens) /\ NoPrice \notin BondTokens /\ NoPrice \notin Int
    /\ \A l \in PublisherLists : l \in Seq(Feeders)
    /\ MaxHistory \in Nat \ {0}
BY OracleAssumption

\* The invariant holds at first.
LEMMA OracleStarts ==
    OracleInit => OracleInv
<1> SUFFICES ASSUME OracleInit PROVE OracleInv OBVIOUS
<1>1. now = 0 /\ history = <<>> /\ assetTrail = <<>> /\ publishers = NoPrice /\ bondToken = NoPrice BY DEF OracleInit
<1>2. submissions = [f \in Feeders |-> NoPrice] /\ bonds = [f \in Feeders |-> 0] /\ bondHeld = [t \in BondTokens |-> 0]
  BY DEF OracleInit
<1>3. history \in Seq(Seen) /\ assetTrail \in Seq(Seen) BY <1>1
<1>4. /\ bonds \in [Feeders -> Nat] /\ \A f \in Feeders : bonds[f] = 0
      /\ bondHeld \in [BondTokens -> Nat] /\ \A t \in BondTokens : bondHeld[t] = 0
  BY <1>2
<1>5. submissions \in [Feeders -> Seen \cup {NoPrice}] BY <1>2
<1>6. OracleTyped BY <1>1, <1>3, <1>4, <1>5 DEF OracleTyped
<1>7. DOMAIN history = {} /\ DOMAIN assetTrail = {} /\ Len(history) = 0 /\ Len(assetTrail) = 0 BY <1>1
<1>8. MaxHistory \in Nat BY OracleConstants
<1>9. Kempt(history) /\ Kempt(assetTrail) /\ OnePerLedger(history)
  BY <1>7, <1>8 DEF Kempt, Chronological, OnePerLedger
<1>10. BondsHeld
  <2>1. IsFiniteSet(Feeders) /\ IsFiniteSet(BondTokens) BY OracleConstants
  <2>2. SumFunctionOnSet(bonds, Feeders) = 0 BY <1>4, <2>1, SumOfZeros
  <2>3. SumFunctionOnSet(bondHeld, BondTokens) = 0 BY <1>4, <2>1, SumOfZeros
  <2>4. QED BY <2>2, <2>3 DEF BondsHeld
<1>11. QED BY <1>6, <1>9, <1>10 DEF OracleInv

\* The parts of the invariant that a step leaves alone.
TrailsKept == now' = now /\ history' = history /\ assetTrail' = assetTrail
BondsKept == bonds' = bonds /\ bondHeld' = bondHeld /\ (bondToken' = bondToken \/ bondToken' \in BondTokens)

\* A trail that a step does not touch stays in order.
LEMMA TrailsStay ==
    ASSUME OracleInv, TrailsKept
    PROVE  Kempt(history)' /\ OnePerLedger(history)' /\ Kempt(assetTrail)'
BY DEF OracleInv, TrailsKept, Kempt, Chronological, OnePerLedger

\* Bonds that a step does not touch stay held.
LEMMA BondsStay ==
    ASSUME OracleInv, BondsKept
    PROVE  BondsHeld'
BY DEF OracleInv, BondsKept, BondsHeld

\* A step of the settings, or none.
LEMMA QuietStep ==
    ASSUME OracleInv, TrailsKept, BondsKept, submissions' = submissions,
           publishers' \in Seq(Feeders) \cup {NoPrice}
    PROVE  OracleInv'
<1>1. OracleTyped' BY DEF OracleInv, OracleTyped, TrailsKept, BondsKept
<1>2. QED BY <1>1, TrailsStay, BondsStay DEF OracleInv

\* A price of the admin.
LEMMA UpdatePriceStep ==
    ASSUME OracleInv, NEW x \in Prices, UpdatePrice(x)
    PROVE  OracleInv'
<1>1. /\ OracleTyped /\ Kempt(history) /\ OnePerLedger(history) /\ Kempt(assetTrail) /\ BondsHeld
      /\ x \in Representable
  BY OracleConstants DEF OracleInv
<1>2. /\ history' = PushHistory(x) /\ now' = now /\ assetTrail' = assetTrail /\ BondsKept
      /\ publishers' = publishers /\ submissions' = submissions
  BY DEF UpdatePrice, BondsKept
<1>3. PICK y : y = PushHistory(x) OBVIOUS
<1>4. y \in Seq(Seen) /\ Kempt(y) /\ OnePerLedger(y) BY <1>1, <1>3, PushedKempt
<1>5. history' = y BY <1>2, <1>3
<1>6. OracleTyped' BY <1>1, <1>2, <1>4, <1>5 DEF OracleTyped, BondsKept
<1>7. Kempt(history)' /\ OnePerLedger(history)' BY <1>2, <1>4, <1>5 DEF Kempt, Chronological, OnePerLedger
<1>8. Kempt(assetTrail)' BY <1>1, <1>2 DEF Kempt, Chronological
<1>9. QED BY <1>2, <1>6, <1>7, <1>8, BondsStay DEF OracleInv

\* A price of a publisher.
LEMMA SubmitPriceStep ==
    ASSUME OracleInv, NEW f \in Feeders, NEW x \in Submitted, SubmitPrice(f, x)
    PROVE  OracleInv'
<1>1. /\ OracleTyped /\ Kempt(history) /\ OnePerLedger(history) /\ Kempt(assetTrail) /\ BondsHeld
      /\ x \in Representable
  BY OracleConstants DEF OracleInv
<1>2. /\ history' = PushHistory(x) /\ now' = now /\ assetTrail' = assetTrail /\ BondsKept
      /\ publishers' = publishers /\ submissions' = [submissions EXCEPT ![f] = Observation(x)]
  BY DEF SubmitPrice, BondsKept
<1>3. PICK y : y = PushHistory(x) OBVIOUS
<1>4. y \in Seq(Seen) /\ Kempt(y) /\ OnePerLedger(y) BY <1>1, <1>3, PushedKempt
<1>5. history' = y BY <1>2, <1>3
<1>6. submissions' \in [Feeders -> Seen \cup {NoPrice}]
  <2>1. now \in Nat /\ submissions \in [Feeders -> Seen \cup {NoPrice}] BY <1>1 DEF OracleTyped
  <2>2. PICK o \in Seen : o = Observation(x) BY <1>1, <2>1, ObservationTyped
  <2>3. QED BY <1>2, <2>1, <2>2
<1>7. OracleTyped' BY <1>1, <1>2, <1>4, <1>5, <1>6 DEF OracleTyped, BondsKept
<1>8. Kempt(history)' /\ OnePerLedger(history)' BY <1>2, <1>4, <1>5 DEF Kempt, Chronological, OnePerLedger
<1>9. Kempt(assetTrail)' BY <1>1, <1>2 DEF Kempt, Chronological
<1>10. QED BY <1>2, <1>7, <1>8, <1>9, BondsStay DEF OracleInv

\* A price of the asset's feed.
LEMMA UpdateAssetPriceStep ==
    ASSUME OracleInv, NEW x \in Prices, UpdateAssetPrice(x)
    PROVE  OracleInv'
<1>1. /\ OracleTyped /\ Kempt(history) /\ OnePerLedger(history) /\ Kempt(assetTrail) /\ BondsHeld
      /\ x \in Representable
  BY OracleConstants DEF OracleInv
<1>2. /\ assetTrail' = Appended(assetTrail, x) /\ now' = now /\ history' = history /\ BondsKept
      /\ publishers' = publishers /\ submissions' = submissions
  BY DEF UpdateAssetPrice, BondsKept
<1>3. assetTrail \in Seq(Seen) /\ now \in Nat BY <1>1 DEF OracleTyped
<1>4. PICK y : y = Appended(assetTrail, x) OBVIOUS
<1>5. y \in Seq(Seen) /\ Kempt(y) BY <1>1, <1>3, <1>4, AppendedKempt
<1>6. assetTrail' = y BY <1>2, <1>4
<1>7. OracleTyped' BY <1>1, <1>2, <1>5, <1>6 DEF OracleTyped, BondsKept
<1>8. Kempt(assetTrail)' BY <1>2, <1>5, <1>6 DEF Kempt, Chronological
<1>9. Kempt(history)' /\ OnePerLedger(history)' BY <1>1, <1>2 DEF Kempt, Chronological, OnePerLedger
<1>10. QED BY <1>2, <1>7, <1>8, <1>9, BondsStay DEF OracleInv

\* A bond moves together with as many tokens.
LEMMA BondMoves ==
    ASSUME OracleTyped, BondsHeld, NEW f \in Feeders, NEW t \in BondTokens, NEW d \in Int,
           bonds[f] + d \in Nat, bonds' = [bonds EXCEPT ![f] = @ + d],
           bondHeld[t] + d \in Nat, bondHeld' = [bondHeld EXCEPT ![t] = @ + d]
    PROVE  bonds' \in [Feeders -> Nat] /\ bondHeld' \in [BondTokens -> Nat] /\ BondsHeld'
<1>1. bonds \in [Feeders -> Nat] /\ bondHeld \in [BondTokens -> Nat] BY DEF OracleTyped
<1>2. PICK g : g = bonds' OBVIOUS
<1>3. g \in [Feeders -> Nat] /\ g[f] = bonds[f] + d /\ \A z \in Feeders : z # f => g[z] = bonds[z] BY <1>1, <1>2
<1>4. PICK h : h = bondHeld' OBVIOUS
<1>5. h \in [BondTokens -> Nat] /\ h[t] = bondHeld[t] + d /\ \A z \in BondTokens : z # t => h[z] = bondHeld[z]
  BY <1>1, <1>4
<1>6. IsFiniteSet(Feeders) /\ IsFiniteSet(BondTokens) BY OracleConstants
<1>7. (\A z \in Feeders : bonds[z] \in Int) /\ \A z \in BondTokens : bondHeld[z] \in Int BY <1>1
<1>8. SumFunctionOnSet(g, Feeders) = SumFunctionOnSet(bonds, Feeders) + d BY <1>3, <1>6, <1>7, SumBump
<1>9. SumFunctionOnSet(h, BondTokens) = SumFunctionOnSet(bondHeld, BondTokens) + d BY <1>5, <1>6, <1>7, SumBump
<1>10. SumFunctionOnSet(h, BondTokens) = SumFunctionOnSet(g, Feeders) BY <1>8, <1>9 DEF BondsHeld
<1>11. BondsHeld' BY <1>2, <1>4, <1>10 DEF BondsHeld
<1>12. QED BY <1>2, <1>3, <1>4, <1>5, <1>11

\* A bond, and perhaps a new publisher.
LEMMA RegisterPublisherStep ==
    ASSUME OracleInv, NEW f \in Feeders, NEW x \in Bonds, RegisterPublisher(f, x)
    PROVE  OracleInv'
<1>1. OracleTyped /\ BondsHeld /\ x \in Int /\ x > 0 BY OracleConstants DEF OracleInv, RegisterPublisher
<1>a. PICK t \in BondTokens : t = bondToken BY <1>1 DEF RegisterPublisher, OracleTyped
<1>2. /\ TrailsKept /\ submissions' = submissions /\ bondToken' = bondToken
      /\ bonds' = [bonds EXCEPT ![f] = @ + x] /\ bondHeld' = [bondHeld EXCEPT ![t] = @ + x]
  BY <1>a DEF RegisterPublisher, TrailsKept
<1>3. bonds[f] + x \in Nat /\ bondHeld[t] + x \in Nat
  <2>1. bonds[f] \in Nat /\ bondHeld[t] \in Nat BY <1>1 DEF OracleTyped
  <2>2. QED BY <1>1, <2>1
<1>4. bonds' \in [Feeders -> Nat] /\ bondHeld' \in [BondTokens -> Nat] /\ BondsHeld' BY <1>1, <1>2, <1>3, BondMoves
<1>5. publishers \in Seq(Feeders) \cup {NoPrice} BY <1>1 DEF OracleTyped
<1>6. PICK listed : listed = IF publishers = NoPrice THEN <<>> ELSE publishers OBVIOUS
<1>7. listed \in Seq(Feeders) BY <1>5, <1>6
<1>8. Append(listed, f) \in Seq(Feeders) BY <1>7
<1>9. publishers' = publishers \/ publishers' = Append(listed, f) BY <1>6 DEF RegisterPublisher
<1>10. publishers' \in Seq(Feeders) \cup {NoPrice} BY <1>5, <1>8, <1>9
<1>11. OracleTyped' BY <1>1, <1>2, <1>4, <1>10 DEF OracleTyped, TrailsKept
<1>12. QED BY <1>2, <1>4, <1>11, TrailsStay DEF OracleInv

\* A penalty.
LEMMA SlashPublisherStep ==
    ASSUME OracleInv, NEW f \in Feeders, NEW x \in Bonds, SlashPublisher(f, x)
    PROVE  OracleInv'
<1>1. OracleTyped /\ BondsHeld /\ x \in Int /\ x > 0 BY OracleConstants DEF OracleInv, SlashPublisher
<1>a. PICK t \in BondTokens : t = bondToken BY <1>1 DEF SlashPublisher, OracleTyped
<1>2. /\ TrailsKept /\ submissions' = submissions /\ publishers' = publishers /\ bondToken' = bondToken
      /\ bonds' = [bonds EXCEPT ![f] = @ - x] /\ bondHeld' = [bondHeld EXCEPT ![t] = @ - x]
      /\ bonds[f] >= x /\ bondHeld[t] >= x
  BY <1>a DEF SlashPublisher, TrailsKept
<1>3. PICK d \in Int : d = -x BY <1>1
<1>4. bonds[f] \in Nat /\ bondHeld[t] \in Nat BY <1>1 DEF OracleTyped
<1>5. bonds[f] + d \in Nat /\ bondHeld[t] + d \in Nat BY <1>1, <1>2, <1>3, <1>4
<1>6. bonds[f] - x = bonds[f] + d /\ bondHeld[t] - x = bondHeld[t] + d BY <1>1, <1>3, <1>4
<1>7. bonds' = [bonds EXCEPT ![f] = @ + d] /\ bondHeld' = [bondHeld EXCEPT ![t] = @ + d] BY <1>2, <1>6
<1>8. bonds' \in [Feeders -> Nat] /\ bondHeld' \in [BondTokens -> Nat] /\ BondsHeld' BY <1>1, <1>5, <1>7, BondMoves
<1>9. OracleTyped' BY <1>1, <1>2, <1>8 DEF OracleTyped, TrailsKept
<1>10. QED BY <1>2, <1>8, <1>9, TrailsStay DEF OracleInv

\* The observations fall behind the ledger.
LEMMA OracleClockStep ==
    ASSUME OracleInv, LedgerCloses, UNCHANGED oracleOnlyVars
    PROVE  OracleInv'
<1>1. OracleTyped /\ Kempt(history) /\ OnePerLedger(history) /\ Kempt(assetTrail) /\ BondsHeld BY DEF OracleInv
<1>2. /\ now' = now + 1 /\ history' = history /\ assetTrail' = assetTrail /\ BondsKept
      /\ publishers' = publishers /\ submissions' = submissions
  BY DEF LedgerCloses, oracleOnlyVars, BondsKept
<1>3. now \in Nat /\ history \in Seq(Seen) /\ assetTrail \in Seq(Seen) BY <1>1 DEF OracleTyped
<1>4. ASSUME NEW trail \in Seq(Seen), Kempt(trail), NEW i \in DOMAIN trail PROVE trail[i].at <= now'
  <2>1. trail[i] \in Seen BY <1>4
  <2>2. trail[i].at \in Nat /\ trail[i].at <= now BY <1>4, <2>1 DEF Seen, Kempt, Chronological
  <2>3. QED BY <1>2, <1>3, <2>2
<1>5. /\ \A i \in DOMAIN history : history[i].at <= now'
      /\ \A i \in DOMAIN assetTrail : assetTrail[i].at <= now'
  BY <1>1, <1>3, <1>4
<1>6. Kempt(history)' /\ OnePerLedger(history)' BY <1>1, <1>2, <1>5 DEF Kempt, Chronological, OnePerLedger
<1>7. Kempt(assetTrail)' BY <1>1, <1>2, <1>5 DEF Kempt, Chronological
<1>8. OracleTyped' BY <1>1, <1>2, <1>3 DEF OracleTyped, BondsKept
<1>9. QED BY <1>2, <1>6, <1>7, <1>8, BondsStay DEF OracleInv

\* Every step keeps the invariant.
LEMMA OracleSteps ==
    OracleInv /\ [OracleNext]_oracleVars => OracleInv'
<1> SUFFICES ASSUME OracleInv, [OracleNext]_oracleVars PROVE OracleInv' OBVIOUS
<1>1. publishers \in Seq(Feeders) \cup {NoPrice} BY DEF OracleInv, OracleTyped
<1>2. ASSUME NEW h \in Heartbeats, InitializeOracle(h) PROVE OracleInv'
  BY <1>1, <1>2, QuietStep DEF InitializeOracle, TrailsKept, BondsKept
<1>3. ASSUME NEW l \in PublisherLists, SetPublishers(l) PROVE OracleInv'
  <2>1. l \in Seq(Feeders) BY OracleConstants
  <2>2. publishers' \in Seq(Feeders) \cup {NoPrice} BY <1>3, <2>1 DEF SetPublishers
  <2>3. TrailsKept /\ BondsKept /\ submissions' = submissions BY <1>3 DEF SetPublishers, TrailsKept, BondsKept
  <2>4. QED BY <2>2, <2>3, QuietStep
<1>4. ASSUME NEW q \in Quorums, SetMinQuorum(q) PROVE OracleInv'
  BY <1>1, <1>4, QuietStep DEF SetMinQuorum, TrailsKept, BondsKept
<1>5. ASSUME NEW d \in Deviations, SetMaxDeviation(d) PROVE OracleInv'
  BY <1>1, <1>5, QuietStep DEF SetMaxDeviation, TrailsKept, BondsKept
<1>6. ASSUME NEW t \in BondTokens, ConfigureBonding(t) PROVE OracleInv'
  BY <1>1, <1>6, QuietStep DEF ConfigureBonding, TrailsKept, BondsKept
<1>7. CASE UNCHANGED oracleVars
  BY <1>1, <1>7, QuietStep DEF oracleVars, oracleOnlyVars, TrailsKept, BondsKept
<1>8. CASE LedgerCloses /\ UNCHANGED oracleOnlyVars BY <1>8, OracleClockStep
<1>9. QED
  BY <1>2, <1>3, <1>4, <1>5, <1>6, <1>7, <1>8, UpdatePriceStep, SubmitPriceStep, UpdateAssetPriceStep,
     RegisterPublisherStep, SlashPublisherStep DEF OracleNext

\* The averages of a trail in order.
LEMMA TrailingWithin ==
    ASSUME NEW trail \in Seq(Seen), Kempt(trail), now \in Nat, NEW window,
           NEW obs, obs = InTrailing(trail, window), obs # <<>>, Summable(obs)
    PROVE  Within(Twap(obs), PricesOf(obs))
<1>1. PICK R : R = {p \in Seen \X Seen : p[1].at <= p[2].at} OBVIOUS
<1>2. ASSUME NEW i \in DOMAIN trail, NEW j \in DOMAIN trail, i <= j PROVE <<trail[i], trail[j]>> \in R
  <2>1. trail[i] \in Seen /\ trail[j] \in Seen OBVIOUS
  <2>2. trail[i].at <= trail[j].at BY <1>2 DEF Kempt, Chronological
  <2>3. QED BY <1>1, <2>1, <2>2
<1>3. PICK places : places = {i \in DOMAIN trail : trail[i].at >= now - window} OBVIOUS
<1>4. obs = Kept(trail, places) BY <1>3 DEF InTrailing
<1>5. /\ obs \in Seq(Seen)
      /\ \A a \in DOMAIN obs : \E i \in DOMAIN trail : i \in places /\ obs[a] = trail[i]
      /\ \A a, b \in DOMAIN obs : a <= b => <<obs[a], obs[b]>> \in R
  <2>1. \A i, j \in DOMAIN trail : i <= j => <<trail[i], trail[j]>> \in R BY <1>2
  <2>2. PICK K : K = Seen OBVIOUS
  <2>3. trail \in Seq(K) BY <2>2
  <2>4. /\ Kept(trail, places) \in Seq(K)
        /\ \A a \in DOMAIN Kept(trail, places) : \E i \in DOMAIN trail : i \in places /\ Kept(trail, places)[a] = trail[i]
        /\ \A a, b \in DOMAIN Kept(trail, places) : a <= b => <<Kept(trail, places)[a], Kept(trail, places)[b]>> \in R
    BY <2>1, <2>3, KeptInOrder, ZenonT(60)
  <2>5. QED BY <1>4, <2>2, <2>4, Zenon
<1>6. Chronological(obs)
  <2>1. \A a, b \in DOMAIN obs : a <= b => obs[a].at <= obs[b].at BY <1>1, <1>5
  <2>2. \A a \in DOMAIN obs : obs[a].at <= now BY <1>5 DEF Kempt, Chronological
  <2>3. QED BY <2>1, <2>2 DEF Chronological
<1>7. PICK a \in DOMAIN obs, b \in DOMAIN obs :
        /\ obs[a].price \in Representable /\ obs[b].price \in Representable
        /\ \A i \in DOMAIN obs : obs[a].price <= obs[i].price /\ obs[i].price <= obs[b].price
  BY <1>5, PriceRange
<1>8. obs[a].price <= Twap(obs) /\ Twap(obs) <= obs[b].price
  <2>1. PICK lo \in Int, hi \in Int : lo = obs[a].price /\ hi = obs[b].price BY <1>7, RepresentableInt
  <2>a. lo * (now - obs[1].at) \in Representable /\ hi * (now - obs[1].at) \in Representable
    BY <1>7, <2>1 DEF Summable
  <2>2. \A i \in DOMAIN obs : lo <= obs[i].price /\ obs[i].price <= hi BY <1>7, <2>1
  <2>3. lo <= Twap(obs) /\ Twap(obs) <= hi BY <1>5, <1>6, <2>a, <2>2, TwapWithin
  <2>4. QED BY <2>1, <2>3
<1>9. QED BY <1>7, <1>8 DEF Within, PricesOf

\* The moving average of a history.
LEMMA MovingWithin ==
    ASSUME NEW obs \in Seq(Seen), obs # <<>>, NEW alpha \in Nat, Accepted(alpha)
    PROVE  Within(Ema(obs, alpha), PricesOf(obs))
<1>1. PICK a \in DOMAIN obs, b \in DOMAIN obs :
        /\ obs[a].price \in Representable /\ obs[b].price \in Representable
        /\ \A i \in DOMAIN obs : obs[a].price <= obs[i].price /\ obs[i].price <= obs[b].price
  BY PriceRange
<1>2. PICK lo \in Representable, hi \in Representable : lo = obs[a].price /\ hi = obs[b].price BY <1>1
<1>3. \A i \in DOMAIN obs : lo <= obs[i].price /\ obs[i].price <= hi BY <1>1, <1>2
<1>4. lo <= Ema(obs, alpha) /\ Ema(obs, alpha) <= hi BY <1>3, EmaWithin
<1>5. QED BY <1>2, <1>4 DEF Within, PricesOf

\* What a loop keeps, whatever the order.
LEMMA KeptFrom ==
    ASSUME NEW K, NEW s \in Seq(K), NEW places, NEW kept, kept = Kept(s, places)
    PROVE  kept \in Seq(K) /\ \A a \in DOMAIN kept : \E i \in DOMAIN s : i \in places /\ kept[a] = s[i]
<1>1. PICK R : R = K \X K OBVIOUS
<1>2. \A i, j \in DOMAIN s : i <= j => <<s[i], s[j]>> \in R BY <1>1
<1>3. /\ Kept(s, places) \in Seq(K)
      /\ \A a \in DOMAIN Kept(s, places) : \E i \in DOMAIN s : i \in places /\ Kept(s, places)[a] = s[i]
      /\ \A a, b \in DOMAIN Kept(s, places) : a <= b => <<Kept(s, places)[a], Kept(s, places)[b]>> \in R
  BY <1>2, KeptInOrder, ZenonT(60)
<1>4. QED BY <1>3

\* Of a sequence without repetitions a loop keeps each one at a place once.
LEMMA KeptApart ==
    ASSUME NEW K, NEW s \in Seq(K), NEW places, \A i, j \in DOMAIN s : s[i] = s[j] => i = j,
           NEW kept, kept = Kept(s, places)
    PROVE  /\ \A a, b \in DOMAIN kept : kept[a] = kept[b] => a = b
           /\ \A i \in DOMAIN s : i \in places => \E a \in DOMAIN kept : kept[a] = s[i]
<1> DEFINE From(k, T) == \A a \in DOMAIN k : \E i \in T : k[a] = s[i]
           Whole(k, T) == \A i \in T : i \in places => \E a \in DOMAIN k : k[a] = s[i]
           Apart(k) == \A a, b \in DOMAIN k : k[a] = k[b] => a = b
<1>1. PICK X : X = [T \in SUBSET DOMAIN s |-> {k \in Seq(K) : From(k, T) /\ Whole(k, T) /\ Apart(k)}] OBVIOUS
<1>2. <<>> \in X[{}]
  <2>1. X[{}] = {k \in Seq(K) : From(k, {}) /\ Whole(k, {}) /\ Apart(k)} BY <1>1
  <2>2. <<>> \in Seq(K) /\ DOMAIN <<>> = {} OBVIOUS
  <2>3. QED BY <2>1, <2>2
<1>3. ASSUME NEW T \in SUBSET DOMAIN s, NEW z \in T, NEW x \in X[T \ {z}]
      PROVE  Push(x, s, places, z) \in X[T]
  <2>1. x \in Seq(K) /\ From(x, T \ {z}) /\ Whole(x, T \ {z}) /\ Apart(x) BY <1>1
  <2>2. X[T] = {k \in Seq(K) : From(k, T) /\ Whole(k, T) /\ Apart(k)} BY <1>1
  <2>3. From(x, T) BY <2>1
  <2>4. CASE z \notin places
    <3>1. Whole(x, T) BY <2>1, <2>4
    <3>2. Push(x, s, places, z) = x BY <2>4 DEF Push
    <3> HIDE DEF From, Whole, Apart
    <3>3. QED BY <2>1, <2>2, <2>3, <3>1, <3>2
  <2>5. CASE z \in places
    <3>1. PICK e \in K : e = s[z] OBVIOUS
    <3>2. PICK y : y = Append(x, e) OBVIOUS
    <3>3. /\ y \in Seq(K) /\ Len(y) = Len(x) + 1 /\ DOMAIN y = 1..Len(y) /\ DOMAIN x = 1..Len(x) /\ Len(x) \in Nat
          /\ y[Len(x) + 1] = e /\ \A a \in DOMAIN x : y[a] = x[a]
      BY <2>1, <3>2, AppendProperties
    <3>a. PICK n : n = Len(x) + 1 /\ n \notin DOMAIN x /\ DOMAIN y = DOMAIN x \cup {n} /\ y[n] = s[z] BY <3>1, <3>3
    <3>4. From(y, T)
      <4>1. ASSUME NEW a \in DOMAIN y PROVE \E i \in T : y[a] = s[i]
        <5>1. CASE a \in DOMAIN x BY <2>3, <3>3, <5>1
        <5>2. CASE a = n BY <3>a, <5>2
        <5>3. QED BY <3>a, <5>1, <5>2
      <4>2. QED BY <4>1
    <3>5. Whole(y, T)
      <4>1. ASSUME NEW i \in T, i \in places PROVE \E a \in DOMAIN y : y[a] = s[i]
        <5>1. CASE i = z BY <3>a, <5>1
        <5>2. CASE i # z
          <6>1. PICK a \in DOMAIN x : x[a] = s[i] BY <2>1, <4>1, <5>2
          <6>2. QED BY <3>3, <3>a, <6>1
        <5>3. QED BY <5>1, <5>2
      <4>2. QED BY <4>1
    <3>6. ASSUME NEW a \in DOMAIN x PROVE y[a] # y[n]
      <4>1. PICK i \in T \ {z} : x[a] = s[i] BY <2>1
      <4>2. s[i] # s[z] OBVIOUS
      <4>3. QED BY <3>3, <3>a, <4>1, <4>2
    <3>7. Apart(y)
      <4>1. ASSUME NEW a \in DOMAIN y, NEW b \in DOMAIN y, y[a] = y[b] PROVE a = b
        <5>1. CASE a \in DOMAIN x /\ b \in DOMAIN x BY <2>1, <3>3, <4>1, <5>1
        <5>2. CASE a = n \/ b = n BY <3>6, <3>a, <4>1, <5>2
        <5>3. QED BY <3>a, <5>1, <5>2
      <4>2. QED BY <4>1
    <3>8. Push(x, s, places, z) = y BY <2>5, <3>1, <3>2 DEF Push
    <3> HIDE DEF From, Whole, Apart
    <3>9. QED BY <2>2, <3>3, <3>4, <3>5, <3>7, <3>8
  <2>6. QED BY <2>4, <2>5
<1>4. kept \in X[DOMAIN s]
  <2> HIDE DEF From, Whole, Apart
  <2>1. \A T \in SUBSET DOMAIN s : \A z \in T : (\A y \in T : z >= y) =>
          \A x \in X[T \ {z}] : Push(x, s, places, z) \in X[T]
    BY <1>3
  <2>2. QED BY <1>2, <2>1, KeptReaches, Zenon
<1>5. Whole(kept, DOMAIN s) /\ Apart(kept) BY <1>1, <1>4
<1>6. QED BY <1>5

\* The publishers whose submissions get_median_price takes, in order.
Sources(fresh, age) ==
    /\ fresh \in Seq(Feeders)
    /\ FreshPrices(age) = [a \in DOMAIN fresh |-> submissions[fresh[a]].price]
    /\ \A a \in DOMAIN fresh : fresh[a] \in FreshFrom(age) /\ submissions[fresh[a]].price \in Int
    /\ ListsNobodyTwice =>
         /\ \A a, b \in DOMAIN fresh : fresh[a] = fresh[b] => a = b
         /\ \A f \in FreshFrom(age) : \E a \in DOMAIN fresh : fresh[a] = f

\* The fresh submissions are prices.
LEMMA FreshTyped ==
    ASSUME OracleTyped, publishers # NoPrice, NEW age
    PROVE  \E fresh : Sources(fresh, age)
<1>1. publishers \in Seq(Feeders) /\ submissions \in [Feeders -> Seen \cup {NoPrice}] BY DEF OracleTyped
<1>2. PICK places : places = {i \in DOMAIN publishers :
                                /\ submissions[publishers[i]] # NoPrice
                                /\ now - submissions[publishers[i]].at <= age}
  OBVIOUS
<1>3. PICK fresh : fresh = Kept(publishers, places) OBVIOUS
<1>6. /\ fresh \in Seq(Feeders)
      /\ \A a \in DOMAIN fresh : \E i \in DOMAIN publishers : i \in places /\ fresh[a] = publishers[i]
  BY <1>1, <1>3, KeptFrom
<1>7. ASSUME NEW a \in DOMAIN fresh PROVE fresh[a] \in FreshFrom(age) /\ submissions[fresh[a]].price \in Int
  <2>1. PICK i \in DOMAIN publishers : i \in places /\ fresh[a] = publishers[i] BY <1>6
  <2>2. publishers[i] \in Feeders /\ submissions[publishers[i]] # NoPrice BY <1>1, <1>2, <2>1
  <2>3. submissions[publishers[i]] \in Seen BY <1>1, <2>2
  <2>4. submissions[publishers[i]].price \in Representable BY <2>3 DEF Seen
  <2>5. fresh[a] \in FreshFrom(age) BY <1>2, <2>1 DEF FreshFrom
  <2>6. QED BY <2>1, <2>4, <2>5, RepresentableInt
<1>8. ASSUME ListsNobodyTwice
      PROVE  /\ \A a, b \in DOMAIN fresh : fresh[a] = fresh[b] => a = b
             /\ \A f \in FreshFrom(age) : \E a \in DOMAIN fresh : fresh[a] = f
  <2>1. \A i, j \in DOMAIN publishers : publishers[i] = publishers[j] => i = j BY <1>8 DEF ListsNobodyTwice
  <2>2. /\ \A a, b \in DOMAIN fresh : fresh[a] = fresh[b] => a = b
        /\ \A i \in DOMAIN publishers : i \in places => \E a \in DOMAIN fresh : fresh[a] = publishers[i]
    BY <1>1, <1>3, <2>1, KeptApart
  <2>3. ASSUME NEW f \in FreshFrom(age) PROVE \E a \in DOMAIN fresh : fresh[a] = f
    <3>1. PICK i \in DOMAIN publishers : publishers[i] = f /\ i \in places BY <1>2 DEF FreshFrom
    <3>2. QED BY <2>2, <3>1
  <2>4. QED BY <2>2, <2>3
<1>9. FreshPrices(age) = [a \in DOMAIN fresh |-> submissions[fresh[a]].price] BY <1>2, <1>3 DEF FreshPrices
<1>10. Sources(fresh, age) BY <1>6, <1>7, <1>8, <1>9 DEF Sources
<1>11. QED BY <1>10

\* The median is fair.
LEMMA MedianIsFair ==
    ASSUME OracleTyped, publishers # NoPrice, NEW age
    PROVE  MedianFair(age)
<1>1. PICK fresh : Sources(fresh, age) BY FreshTyped
<1>2. PICK prices : prices = FreshPrices(age) OBVIOUS
<1>3. PICK n \in Nat : n = Len(fresh) /\ DOMAIN fresh = 1..n BY <1>1 DEF Sources
<1>4. /\ prices = [a \in 1..n |-> submissions[fresh[a]].price]
      /\ \A a \in 1..n : fresh[a] \in FreshFrom(age) /\ submissions[fresh[a]].price \in Int
  BY <1>1, <1>2, <1>3 DEF Sources
<1>5. \A a \in 1..n : prices[a] = submissions[fresh[a]].price /\ prices[a] \in Int BY <1>4
<1>6. prices \in Seq(Int) /\ Len(prices) = n /\ DOMAIN prices = 1..n
  <2>1. prices \in [1..n -> Int] BY <1>4, <1>5
  <2>2. QED BY <2>1, LenProperties, IsASeq
<1>7. PICK x : x = Median(prices) OBVIOUS
<1>8. ASSUME prices # <<>>, n >= minQuorum, \A i \in DOMAIN prices : 2 * prices[i] \in Representable
      PROVE  /\ Within(x, {prices[i] : i \in DOMAIN prices})
             /\ ListsNobodyTwice => Cardinality(FreshFrom(age)) >= minQuorum /\ Halves(x, FreshFrom(age))
  <2>1. x \in Int /\ Middle(x, prices) BY <1>6, <1>7, <1>8, MedianHalves
  <2>2. n > 0 BY <1>6, <1>8
  <2>3. PICK A : A = {i \in DOMAIN prices : prices[i] <= x} OBVIOUS
  <2>4. PICK B : B = {i \in DOMAIN prices : prices[i] >= x} OBVIOUS
  <2>5. A \subseteq 1..n /\ B \subseteq 1..n BY <1>6, <2>3, <2>4
  <2>6. IsFiniteSet(1..n) BY FS_Interval
  <2>7. IsFiniteSet(A) /\ IsFiniteSet(B) BY <2>5, <2>6, FS_Subset
  <2>8. Cardinality(A) \in Nat /\ Cardinality(B) \in Nat BY <2>7, FS_CardinalityType
  <2>9. 2 * Cardinality(A) >= n /\ 2 * Cardinality(B) >= n BY <1>6, <2>1, <2>3, <2>4 DEF Middle
  <2>10. Within(x, {prices[i] : i \in DOMAIN prices})
    <3>1. Cardinality(A) # 0 /\ Cardinality(B) # 0 BY <2>2, <2>8, <2>9
    <3>2. A # {} /\ B # {} BY <3>1, FS_EmptySet
    <3>3. QED BY <2>3, <2>4, <3>2 DEF Within
  <2>11. ASSUME ListsNobodyTwice
         PROVE  Cardinality(FreshFrom(age)) >= minQuorum /\ Halves(x, FreshFrom(age))
    <3>1. PICK F : F = FreshFrom(age) OBVIOUS
    <3>2. PICK name : name = [a \in 1..n |-> fresh[a]] OBVIOUS
    <3>3. /\ \A a \in 1..n : name[a] = fresh[a] /\ name[a] \in F
          /\ \A a, b \in 1..n : name[a] = name[b] => a = b
          /\ \A f \in F : \E a \in 1..n : name[a] = f
      BY <1>1, <1>3, <1>4, <2>11, <3>1, <3>2 DEF Sources
    <3>4. name \in [1..n -> F] BY <3>2, <3>3
    <3>5. IsFiniteSet(F) /\ Cardinality(F) = n
      <4>1. name \in Injection(1..n, F) BY <3>3, <3>4, Zenon DEF Injection, IsInjective
      <4>2. name \in Surjection(1..n, F) BY <3>3, <3>4, Zenon DEF Surjection
      <4>3. Cardinality(1..n) = n BY FS_Interval
      <4>4. QED BY <2>6, <4>1, <4>2, <4>3, FS_Surjection
    <3>6. ASSUME NEW C \in SUBSET (1..n), NEW D \in SUBSET F, \A a \in C : name[a] \in D, 2 * Cardinality(C) >= n
          PROVE  2 * Cardinality(D) >= n
      <4>1. IsFiniteSet(C) /\ IsFiniteSet(D) BY <2>6, <3>5, FS_Subset
      <4>2. Cardinality(C) \in Nat /\ Cardinality(D) \in Nat BY <4>1, FS_CardinalityType
      <4>3. PICK h : h = [a \in C |-> name[a]] OBVIOUS
      <4>4. h \in [C -> D] /\ \A a, b \in C : h[a] = h[b] => a = b BY <3>3, <3>6, <4>3
      <4>5. h \in Injection(C, D) BY <4>4, Zenon DEF Injection, IsInjective
      <4>6. Cardinality(C) <= Cardinality(D) BY <4>1, <4>5, FS_Injection
      <4>7. QED BY <3>6, <4>2, <4>6
    <3>7. PICK D : D = {f \in F : submissions[f].price <= x} OBVIOUS
    <3>8. PICK E : E = {f \in F : submissions[f].price >= x} OBVIOUS
    <3>9. 2 * Cardinality(D) >= n
      <4>1. \A a \in A : name[a] \in D BY <1>5, <2>3, <2>5, <3>3, <3>7
      <4>2. D \in SUBSET F /\ A \in SUBSET (1..n) BY <2>5, <3>7
      <4>3. QED BY <2>9, <3>6, <4>1, <4>2
    <3>10. 2 * Cardinality(E) >= n
      <4>1. \A a \in B : name[a] \in E BY <1>5, <2>4, <2>5, <3>3, <3>8
      <4>2. E \in SUBSET F /\ B \in SUBSET (1..n) BY <2>5, <3>8
      <4>3. QED BY <2>9, <3>6, <4>1, <4>2
    <3>11. Halves(x, F) BY <3>5, <3>7, <3>8, <3>9, <3>10 DEF Halves
    <3>12. QED BY <1>8, <3>1, <3>5, <3>11
  <2>12. QED BY <2>10, <2>11
<1>9. QED BY <1>2, <1>6, <1>7, <1>8, Zenon DEF MedianFair

\* What the invariant says of the readers.
LEMMA OracleAverages ==
    OracleInv => AveragesWithinReports
<1> SUFFICES ASSUME OracleInv PROVE AveragesWithinReports OBVIOUS
<1>1. OracleTyped /\ Kempt(history) /\ Kempt(assetTrail) BY DEF OracleInv
<1>2. now \in Nat /\ history \in Seq(Seen) /\ assetTrail \in Seq(Seen) BY <1>1 DEF OracleTyped
<1>3. ASSUME NEW trail \in {history, assetTrail}, NEW window \in 0..MaxLedger,
             InTrailing(trail, window) # <<>>, Summable(InTrailing(trail, window))
      PROVE  Within(Twap(InTrailing(trail, window)), PricesOf(InTrailing(trail, window)))
  <2>1. trail \in Seq(Seen) /\ Kempt(trail) BY <1>1, <1>2
  <2>2. PICK obs : obs = InTrailing(trail, window) OBVIOUS
  <2>3. Within(Twap(obs), PricesOf(obs)) BY <1>2, <1>3, <2>1, <2>2, TrailingWithin
  <2>4. QED BY <2>2, <2>3
<1>4. ASSUME history # <<>>, NEW alpha \in Smoothings, Accepted(alpha)
      PROVE  Within(Ema(history, alpha), PricesOf(history))
  <2>1. alpha \in Nat BY OracleConstants
  <2>2. QED BY <1>2, <1>4, <2>1, MovingWithin
<1>5. ASSUME publishers # NoPrice, NEW age \in 0..MaxLedger PROVE MedianFair(age) BY <1>1, <1>5, MedianIsFair
<1>6. QED BY <1>3, <1>4, <1>5, Zenon DEF AveragesWithinReports

\* No average that a reader gets invents a price: the time-weighted average lies
\* between the prices it is taken from unless their weighted sum leaves i128, the
\* moving average does so whatever saturates, and the median does unless twice a price
\* leaves i128; while the list names nobody twice, the median is of as many publishers
\* as the quorum asks for and splits them in halves.  For histories, windows, smoothing
\* factors and publishers of any number.
THEOREM AveragesStayWithin ==
    OracleSpec => []AveragesWithinReports
<1>1. OracleSpec => []OracleInv BY OracleStarts, OracleSteps, PTL DEF OracleSpec
<1>2. QED BY <1>1, OracleAverages, PTL

\* The ring buffers: never more than MaxHistory observations, in the order of the
\* ledgers, and at most one a ledger in the history that publishers write, which is
\* what push_history's merge is for.
THEOREM TrailsStayKempt ==
    OracleSpec => [](Kempt(history) /\ OnePerLedger(history) /\ Kempt(assetTrail))
<1>1. OracleSpec => []OracleInv BY OracleStarts, OracleSteps, PTL DEF OracleSpec
<1>2. OracleInv => Kempt(history) /\ OnePerLedger(history) /\ Kempt(assetTrail) BY DEF OracleInv
<1>3. QED BY <1>1, <1>2, PTL

\* All bonds are in the token of the moment.
InOneToken == bondToken # NoPrice /\ \A t \in BondTokens \ {bondToken} : bondHeld[t] = 0

\* What the contract holds of the bond tokens together is what the publishers have
\* bonded, whichever tokens configure_bonding named, and while all of it is in the
\* token of the moment, slash_publisher's transfer of any part of a bond to the
\* insurance fund never lacks it.  After configure_bonding has replaced the token
\* under bonds nothing is claimed of the transfer: it may lack the new token, or
\* take what another publisher bonded in it.
THEOREM BondsStayHeld ==
    OracleSpec => [](BondsHeld /\ (InOneToken => \A f \in Feeders : bonds[f] <= bondHeld[bondToken]))
<1>1. OracleSpec => []OracleInv BY OracleStarts, OracleSteps, PTL DEF OracleSpec
<1>2. OracleInv => BondsHeld /\ (InOneToken => \A f \in Feeders : bonds[f] <= bondHeld[bondToken])
  <2> SUFFICES ASSUME OracleInv PROVE BondsHeld /\ (InOneToken => \A f \in Feeders : bonds[f] <= bondHeld[bondToken])
    OBVIOUS
  <2>1. /\ BondsHeld /\ \A f \in Feeders : bonds[f] \in Nat
        /\ \A t \in BondTokens : bondHeld[t] \in Int
    BY DEF OracleInv, OracleTyped
  <2>2. IsFiniteSet(Feeders) /\ IsFiniteSet(BondTokens) BY OracleConstants
  <2>3. \A f \in Feeders : bonds[f] <= SumFunctionOnSet(bonds, Feeders) BY <2>1, <2>2, SumNat
  <2>4. ASSUME InOneToken PROVE \A f \in Feeders : bonds[f] <= bondHeld[bondToken]
    <3>1. PICK t \in BondTokens : t = bondToken BY <2>4 DEF InOneToken, OracleInv, OracleTyped
    <3>2. PICK U : U = BondTokens \ {t} OBVIOUS
    <3>3. IsFiniteSet(U) /\ \A z \in U : bondHeld[z] = 0 BY <2>2, <2>4, <3>1, <3>2, FS_RemoveElement DEF InOneToken
    <3>4. SumFunctionOnSet(bondHeld, U) = 0 BY <3>3, SumOfZeros
    <3>5. SumFunctionOnSet(bondHeld, BondTokens) = bondHeld[t] + SumFunctionOnSet(bondHeld, U)
      BY <2>1, <2>2, <3>2, SumBasics
    <3>6. bondHeld[t] \in Int BY <2>1
    <3>7. SumFunctionOnSet(bondHeld, BondTokens) = bondHeld[t] BY <3>4, <3>5, <3>6
    <3>8. QED BY <2>1, <2>3, <3>1, <3>7 DEF BondsHeld
  <2>5. QED BY <2>1, <2>4
<1>3. QED BY <1>1, <1>2, PTL
====
