---- MODULE ExchangeProofs ----
(***************************************************************************)
(* Proofs about the contracts that trade: the swap, the NFT collection and *)
(* the marketplace.                                                        *)
(***************************************************************************)
EXTENDS Swap, Marketplace, FoldLemmas, SequenceTheorems

----
(* Swap.                                                                   *)

SwapRecords ==
    [terms : SwapTerms, party : Parties, state : {"Pending", "Executed", "Cancelled", "Expired"},
     filled : Nat, remaining : Nat, created : Nat]

SwapTyped ==
    /\ now \in Nat /\ feeBps \in Nat
    /\ swaps \in Seq(SwapRecords) /\ Len(swaps) <= MaxSwaps
    /\ swapHeld \in [SwapTokens -> Int] /\ misdrawn \in [SwapTokens -> Int]
    /\ keeps \in [SwapTokens -> Nat] /\ overstated \in [SwapTokens -> Int]
    /\ paidFor \in [SwapIds -> Int] /\ fills \in [SwapIds -> Nat]

\* Every part of an offer is filled or remains.
FilledOrRemains(w) ==
    /\ w.terms.amountA > 0 /\ w.terms.amountB > 0
    /\ w.filled + w.remaining = w.terms.amountA

\* Nothing was filled or paid of a swap that is yet to be proposed.
NothingAhead == \A s \in SwapIds \ DOMAIN swaps : paidFor[s] = 0 /\ fills[s] = 0

SwapInv ==
    /\ SwapTyped
    /\ \A s \in DOMAIN swaps : FilledOrRemains(swaps[s])
    /\ NothingAhead
    /\ EscrowAccounted
    /\ PriceKept

\* What the record w keeps in escrow of token t.
Reserved(w, t) ==
    IF w.state = "Pending" /\ w.terms.escrowed /\ w.terms.tokenA = t THEN w.remaining ELSE 0

\* The fields of a swap on record.
LEMMA SwapFields ==
    ASSUME SwapTyped, NEW s \in DOMAIN swaps
    PROVE  /\ swaps[s] \in SwapRecords /\ s \in SwapIds /\ s \in 1..Len(swaps)
           /\ swaps[s].terms \in SwapTerms /\ swaps[s].filled \in Nat /\ swaps[s].remaining \in Nat
           /\ swaps[s].party \in Parties
           /\ swaps[s].terms.tokenA \in SwapTokens /\ swaps[s].terms.tokenB \in SwapTokens /\ swaps[s].terms.amountA \in Int /\ swaps[s].terms.amountB \in Int
           /\ \A t : Reserved(swaps[s], t) \in Nat
<1>1. swaps \in Seq(SwapRecords) /\ Len(swaps) <= MaxSwaps BY DEF SwapTyped
<1>2. swaps[s] \in SwapRecords /\ s \in 1..Len(swaps) BY <1>1
<1>3. s \in SwapIds BY <1>1, <1>2, SwapAssumption DEF SwapIds
<1>4. swaps[s].terms \in SwapTerms /\ swaps[s].filled \in Nat /\ swaps[s].remaining \in Nat /\ swaps[s].party \in Parties
  BY <1>2 DEF SwapRecords
<1>5. /\ swaps[s].terms.tokenA \in SwapTokens /\ swaps[s].terms.tokenB \in SwapTokens /\ swaps[s].terms.amountA \in Int /\ swaps[s].terms.amountB \in Int
  BY <1>4, SwapAssumption
<1>6. QED BY <1>2, <1>3, <1>4, <1>5 DEF Reserved

\* The escrow of a token as a sum over the records.
LEMMA EscrowSums ==
    ASSUME SwapTyped, NEW t
    PROVE  /\ IsFiniteSet(DOMAIN swaps)
           /\ \A s \in DOMAIN swaps : EscrowOf(t)[s] = Reserved(swaps[s], t) /\ EscrowOf(t)[s] \in Int
           /\ Escrowed(t) \in Int
<1>1. IsFiniteSet(DOMAIN swaps)
  <2>1. DOMAIN swaps = 1..Len(swaps) /\ Len(swaps) \in Nat BY DEF SwapTyped
  <2>2. QED BY <2>1, FS_Interval
<1>2. \A s \in DOMAIN swaps : EscrowOf(t)[s] = Reserved(swaps[s], t) /\ EscrowOf(t)[s] \in Int
  <2>1. ASSUME NEW s \in DOMAIN swaps PROVE EscrowOf(t)[s] = Reserved(swaps[s], t)
    BY DEF EscrowOf, PendingSwap, Reserved
  <2>2. QED BY <2>1, SwapFields
<1>3. QED BY <1>1, <1>2, SumBasics DEF Escrowed

\* A fill keeps the price and takes its part out of the escrow, if there is one.
LEMMA FillFacts ==
    ASSUME SwapInv, NEW s \in SwapIds, NEW x \in Nat, PendingSwap(s), 0 < x, x <= swaps[s].remaining, Fill(s, x)
    PROVE  /\ swaps' \in Seq(SwapRecords) /\ Len(swaps') = Len(swaps)
           /\ \A r \in DOMAIN swaps' : FilledOrRemains(swaps'[r])
           /\ paidFor' \in [SwapIds -> Int] /\ fills' \in [SwapIds -> Nat]
           /\ NothingAhead'
           /\ PriceKept'
           /\ \A t : Escrowed(t)' = Escrowed(t)
                         + (IF swaps[s].terms.escrowed /\ swaps[s].terms.tokenA = t THEN -x ELSE 0)
<1>0. SwapTyped /\ NothingAhead /\ PriceKept /\ (\A r \in DOMAIN swaps : FilledOrRemains(swaps[r])) BY DEF SwapInv
<1>1. s \in DOMAIN swaps /\ swaps[s].state = "Pending" BY DEF PendingSwap
<1>2. /\ swaps[s] \in SwapRecords /\ s \in 1..Len(swaps) /\ swaps[s].filled \in Nat /\ swaps[s].remaining \in Nat
      /\ swaps[s].terms.amountA \in Int /\ swaps[s].terms.amountB \in Int
  BY <1>0, <1>1, SwapFields
<1> DEFINE w == swaps[s]
           v == [w EXCEPT !.filled = @ + x, !.remaining = @ - x,
                          !.state = IF w.remaining = x THEN "Executed" ELSE @]
           p == PriceOf(s, x)
           A == w.terms.amountA
           B == w.terms.amountB
<1>3. v \in SwapRecords /\ v.terms = w.terms /\ v.filled = w.filled + x /\ v.remaining = w.remaining - x
      /\ v.state = IF w.remaining = x THEN "Executed" ELSE "Pending"
  <2>1. w.remaining - x \in Nat /\ w.filled + x \in Nat BY <1>2
  <2>2. QED BY <1>1, <1>2, <2>1 DEF SwapRecords
<1>4. swaps' = [swaps EXCEPT ![s] = v] BY <1>1, <1>2 DEF Fill
<1>5. swaps \in Seq(SwapRecords) /\ Len(swaps) <= MaxSwaps BY <1>0 DEF SwapTyped
<1> HIDE DEF v
<1>6. /\ swaps' \in Seq(SwapRecords) /\ Len(swaps') = Len(swaps) /\ DOMAIN swaps' = DOMAIN swaps
      /\ swaps'[s] = v /\ \A r \in DOMAIN swaps : r # s => swaps'[r] = swaps[r]
  BY <1>1, <1>3, <1>4, <1>5, ExceptSeq
<1>7. FilledOrRemains(w) BY <1>0, <1>1
<1>8. A \in Nat \ {0} /\ B \in Nat /\ w.filled + w.remaining = A BY <1>2, <1>7 DEF FilledOrRemains
<1>9. FilledOrRemains(v) BY <1>2, <1>3, <1>7, SMTT(60) DEF FilledOrRemains
<1>10. \A r \in DOMAIN swaps' : FilledOrRemains(swaps'[r]) BY <1>0, <1>6, <1>9
<1>11. paidFor \in [SwapIds -> Int] /\ fills \in [SwapIds -> Nat] BY <1>0 DEF SwapTyped
<1>12. p = (x * B) \div A BY DEF PriceOf
<1>13. x * B \in Nat BY <1>8
<1> DEFINE c == x * B
<1> HIDE DEF A, B, p, c
<1>14. p \in Int /\ p * A <= c /\ c <= p * A + (A - 1) BY <1>8, <1>12, <1>13 DEF c
<1>15. paidFor' = [paidFor EXCEPT ![s] = @ + p] /\ fills' = [fills EXCEPT ![s] = @ + 1] BY DEF Fill, p
<1>16. /\ paidFor' \in [SwapIds -> Int] /\ fills' \in [SwapIds -> Nat]
       /\ paidFor'[s] = paidFor[s] + p /\ fills'[s] = fills[s] + 1
       /\ \A r \in SwapIds : r # s => paidFor'[r] = paidFor[r] /\ fills'[r] = fills[r]
  BY <1>11, <1>14, <1>15
<1>17. NothingAhead' BY <1>0, <1>1, <1>6, <1>16 DEF NothingAhead
<1>18. PriceKept'
  <2>1. ASSUME NEW r \in DOMAIN swaps
        PROVE  /\ 0 <= swaps'[r].filled * swaps'[r].terms.amountB - paidFor'[r] * swaps'[r].terms.amountA
               /\ swaps'[r].filled * swaps'[r].terms.amountB - paidFor'[r] * swaps'[r].terms.amountA
                    <= fills'[r] * (swaps'[r].terms.amountA - 1)
    <3>1. CASE r # s
      <4>1. r \in SwapIds BY <1>0, SwapFields
      <4>2. QED BY <1>0, <1>6, <1>16, <3>1, <4>1 DEF PriceKept
    <3>2. CASE r = s
      <4> DEFINE F == w.filled
                 P == paidFor[s]
                 N == fills[s]
                 K == A - 1
      <4>1. 0 <= F * B - P * A /\ F * B - P * A <= N * K BY <1>0, <1>1 DEF PriceKept, A, B
      <4>2. F \in Int /\ P \in Int /\ N \in Int /\ K \in Int /\ A \in Int /\ B \in Int BY <1>2, <1>8, <1>11
      <4>3. swaps'[r].filled = F + x /\ swaps'[r].terms.amountB = B /\ swaps'[r].terms.amountA = A
            /\ paidFor'[r] = P + p /\ fills'[r] = N + 1
        BY <1>3, <1>6, <1>16, <3>2 DEF A, B
      <4> HIDE DEF F, P, N
      <4>4. (F + x) * B = F * B + c /\ (P + p) * A = P * A + p * A BY <1>14, <4>2, Distributes DEF c
      <4>5. (N + 1) * K = N * K + K
        <5> HIDE DEF K
        <5>1. (N + 1) * K = N * K + 1 * K BY <4>2, Distributes
        <5>2. QED BY <4>2, <5>1
      <4>6. F * B \in Int /\ P * A \in Int /\ p * A \in Int /\ N * K \in Int /\ c \in Int BY <1>13, <1>14, <4>2 DEF c
      <4>7. 0 <= (F + x) * B - (P + p) * A /\ (F + x) * B - (P + p) * A <= (N + 1) * K
        BY <1>14, <4>1, <4>2, <4>4, <4>5, <4>6
      <4>8. QED BY <4>3, <4>7
    <3>3. QED BY <3>1, <3>2
  <2>2. QED BY <1>6, <2>1 DEF PriceKept
<1>19. ASSUME NEW t
       PROVE  Escrowed(t)' = Escrowed(t) + (IF swaps[s].terms.escrowed /\ swaps[s].terms.tokenA = t THEN -x ELSE 0)
  <2> DEFINE d == IF swaps[s].terms.escrowed /\ swaps[s].terms.tokenA = t THEN -x ELSE 0
             f == EscrowOf(t)
             g == [r \in DOMAIN swaps |-> Reserved(swaps'[r], t)]
  <2>1. IsFiniteSet(DOMAIN swaps) /\ (\A r \in DOMAIN swaps : f[r] = Reserved(swaps[r], t) /\ f[r] \in Int)
    BY <1>0, EscrowSums
  <2>2. d \in Int OBVIOUS
  <2>3. Reserved(v, t) = Reserved(w, t) + d BY <1>1, <1>2, <1>3 DEF Reserved
  <2>4. g[s] = f[s] + d /\ \A r \in DOMAIN swaps : r # s => g[r] = f[r] BY <1>1, <1>6, <2>1, <2>3
  <2>5. EscrowOf(t)' = g BY <1>6 DEF EscrowOf, PendingSwap, Reserved
  <2>6. Escrowed(t)' = SumFunctionOnSet(g, DOMAIN swaps) BY <1>6, <2>5 DEF Escrowed
  <2> HIDE DEF d, f, g
  <2>7. SumFunctionOnSet(g, DOMAIN swaps) = SumFunctionOnSet(f, DOMAIN swaps) + d BY <1>1, <2>1, <2>2, <2>4, SumBump
  <2>8. QED BY <2>6, <2>7 DEF Escrowed, d, f
<1>20. QED BY <1>6, <1>10, <1>16, <1>17, <1>18, <1>19

\* A token that keeps nothing delivers in full.
LEMMA ReachesFacts ==
    ASSUME SwapTyped, NEW t \in SwapTokens, NEW x \in Int
    PROVE  Reaches(t, x) \in Int /\ (keeps[t] = 0 /\ x >= 0 => Reaches(t, x) = x)
<1>1. keeps[t] \in Nat BY DEF SwapTyped
<1>2. QED BY <1>1 DEF Reaches

\* out of token A leaves the contract, mis of it for an unescrowed swap, and d of token B
\* that a transfer kept.
Drawn(A, B, out, mis, d) ==
    \A u \in SwapTokens :
      /\ swapHeld'[u] = swapHeld[u] - (IF u = B THEN d ELSE 0) - (IF u = A THEN out ELSE 0)
      /\ misdrawn'[u] = misdrawn[u] + (IF u = A THEN mis ELSE 0)
      /\ overstated'[u] = overstated[u] + (IF u = B THEN d ELSE 0)
      /\ Escrowed(u)' = Escrowed(u) - (IF u = A THEN out - mis ELSE 0)

\* The escrow stays accounted for.
LEMMA EscrowMoved ==
    ASSUME SwapTyped, EscrowAccounted, NEW A \in SwapTokens, NEW B \in SwapTokens, NEW out \in Int, NEW mis \in Int,
           NEW d \in Int, keeps[B] = 0 => d = 0, UNCHANGED keeps,
           Drawn(A, B, out, mis, d)
    PROVE  EscrowAccounted'
<1>1. ASSUME NEW u \in SwapTokens
      PROVE  swapHeld'[u] + misdrawn'[u] + overstated'[u] = Escrowed(u)' /\ (keeps'[u] = 0 => overstated'[u] = 0)
  <2>1. /\ swapHeld[u] + misdrawn[u] + overstated[u] = Escrowed(u) /\ (keeps[u] = 0 => overstated[u] = 0)
        /\ swapHeld[u] \in Int /\ misdrawn[u] \in Int /\ overstated[u] \in Int
    BY DEF EscrowAccounted, SwapTyped
  <2>2. PICK k \in Int : k = (IF u = B THEN d ELSE 0) OBVIOUS
  <2>3. PICK m \in Int : m = (IF u = A THEN mis ELSE 0) OBVIOUS
  <2>4. PICK o \in Int : o = (IF u = A THEN out ELSE 0) OBVIOUS
  <2>5. (IF u = A THEN out - mis ELSE 0) = o - m BY <2>3, <2>4
  <2>6. /\ swapHeld'[u] = swapHeld[u] - k - o /\ misdrawn'[u] = misdrawn[u] + m /\ overstated'[u] = overstated[u] + k
        /\ Escrowed(u)' = Escrowed(u) - (o - m)
    BY <2>2, <2>3, <2>4, <2>5 DEF Drawn
  <2>7. swapHeld'[u] + misdrawn'[u] + overstated'[u] = Escrowed(u)' BY <2>1, <2>2, <2>3, <2>4, <2>6
  <2>8. keeps[u] = 0 => k = 0 BY <2>2
  <2>9. QED BY <2>1, <2>6, <2>7, <2>8
<1>2. QED BY <1>1 DEF EscrowAccounted

\* A proposal brings its escrow in, or none.
LEMMA ProposeSwapInv ==
    ASSUME SwapInv, NEW a \in Parties, NEW t \in SwapTerms, Len(swaps) < MaxSwaps, ProposeSwap(a, t)
    PROVE  SwapInv'
<1> DEFINE deposit == IF t.escrowed THEN t.amountA ELSE 0
           v == [terms |-> t, party |-> a, state |-> "Pending", filled |-> 0,
                 remaining |-> t.amountA, created |-> now]
           n == Len(swaps) + 1
<1>0. SwapTyped /\ NothingAhead /\ PriceKept /\ EscrowAccounted /\ (\A r \in DOMAIN swaps : FilledOrRemains(swaps[r]))
  BY DEF SwapInv
<1>1. /\ t.amountA > 0 /\ t.amountB > 0 /\ swapHeld' = [swapHeld EXCEPT ![t.tokenA] = @ + Reaches(t.tokenA, deposit)]
      /\ overstated' = [overstated EXCEPT ![t.tokenA] = @ + deposit - Reaches(t.tokenA, deposit)]
      /\ swaps' = Append(swaps, v) /\ UNCHANGED <<now, keeps, feeBps, misdrawn, paidFor, fills>>
  BY DEF ProposeSwap
<1>2. t.amountA \in Nat /\ t.amountB \in Nat /\ t.tokenA \in SwapTokens BY <1>1, SwapAssumption
<1>3. now \in Nat /\ swaps \in Seq(SwapRecords) /\ Len(swaps) \in Nat /\ MaxSwaps \in Nat /\ swapHeld \in [SwapTokens -> Int]
      /\ misdrawn \in [SwapTokens -> Int] /\ paidFor \in [SwapIds -> Int] /\ fills \in [SwapIds -> Nat]
      /\ keeps \in [SwapTokens -> Nat] /\ overstated \in [SwapTokens -> Int]
  BY <1>0, SwapAssumption DEF SwapTyped
<1>4. v \in SwapRecords BY <1>2, <1>3 DEF SwapRecords
<1>5. v.terms = t /\ v.state = "Pending" /\ v.filled = 0 /\ v.remaining = t.amountA OBVIOUS
<1> HIDE DEF v
<1>6. /\ swaps' \in Seq(SwapRecords) /\ Len(swaps') = n /\ n <= MaxSwaps /\ swaps'[n] = v
      /\ \A r \in DOMAIN swaps : swaps'[r] = swaps[r]
  BY <1>1, <1>3, <1>4, AppendProperties
<1>7. DOMAIN swaps' = DOMAIN swaps \cup {n} /\ n \notin DOMAIN swaps /\ n \in SwapIds
  BY <1>3, <1>6 DEF SwapIds
<1>8. FilledOrRemains(v) BY <1>1, <1>2, <1>5 DEF FilledOrRemains
<1>9. \A r \in DOMAIN swaps' : FilledOrRemains(swaps'[r]) BY <1>0, <1>6, <1>7, <1>8
<1>10. NothingAhead' BY <1>0, <1>1, <1>7 DEF NothingAhead
<1>11. PriceKept'
  <2>1. paidFor[n] = 0 /\ fills[n] = 0 BY <1>0, <1>7 DEF NothingAhead
  <2>2. 0 * t.amountB - 0 * t.amountA = 0 /\ 0 * (t.amountA - 1) = 0 BY <1>2
  <2> HIDE DEF n
  <2>3. ASSUME NEW r \in DOMAIN swaps'
        PROVE  /\ 0 <= swaps'[r].filled * swaps'[r].terms.amountB - paidFor'[r] * swaps'[r].terms.amountA
               /\ swaps'[r].filled * swaps'[r].terms.amountB - paidFor'[r] * swaps'[r].terms.amountA
                    <= fills'[r] * (swaps'[r].terms.amountA - 1)
    <3>1. CASE r = n BY <1>1, <1>5, <1>6, <2>1, <2>2, <3>1
    <3>2. CASE r # n BY <1>0, <1>1, <1>6, <1>7, <3>2 DEF PriceKept
    <3>3. QED BY <3>1, <3>2
  <2>4. QED BY <2>3 DEF PriceKept
<1>a. deposit \in Nat BY <1>2
<1>b. PICK in : in = Reaches(t.tokenA, deposit) OBVIOUS
<1>c. in \in Int /\ (keeps[t.tokenA] = 0 => in = deposit)
  <2>1. PICK dep \in Nat : dep = deposit BY <1>a
  <2>2. in = Reaches(t.tokenA, dep) BY <1>b, <2>1
  <2>3. dep \in Int /\ dep >= 0 OBVIOUS
  <2>4. QED BY <1>0, <1>2, <2>1, <2>2, <2>3, ReachesFacts
<1>12. /\ swapHeld' \in [SwapTokens -> Int] /\ swapHeld'[t.tokenA] = swapHeld[t.tokenA] + in
       /\ \A u \in SwapTokens : u # t.tokenA => swapHeld'[u] = swapHeld[u]
  BY <1>1, <1>2, <1>3, <1>b, <1>c
<1>d. /\ overstated' \in [SwapTokens -> Int] /\ overstated'[t.tokenA] = overstated[t.tokenA] + deposit - in
      /\ \A u \in SwapTokens : u # t.tokenA => overstated'[u] = overstated[u]
  BY <1>1, <1>2, <1>3, <1>a, <1>b, <1>c
<1>13. EscrowAccounted'
  <2>1. ASSUME NEW u \in SwapTokens
        PROVE  swapHeld'[u] + misdrawn'[u] + overstated'[u] = Escrowed(u)' /\ (keeps'[u] = 0 => overstated'[u] = 0)
    <3> DEFINE f == EscrowOf(u)
               g == [r \in DOMAIN swaps' |-> Reserved(swaps'[r], u)]
    <3>1. IsFiniteSet(DOMAIN swaps) /\ (\A r \in DOMAIN swaps : f[r] = Reserved(swaps[r], u) /\ f[r] \in Int) /\ Escrowed(u) \in Int
      BY <1>0, EscrowSums
    <3>2. EscrowOf(u)' = g BY DEF EscrowOf, PendingSwap, Reserved
    <3>3. Escrowed(u)' = SumFunctionOnSet(g, DOMAIN swaps') BY <3>2 DEF Escrowed
    <3>4. (\A r \in DOMAIN swaps : g[r] = f[r]) /\ g[n] = Reserved(v, u) BY <1>6, <1>7, <3>1
    <3>5. Reserved(v, u) = IF u = t.tokenA THEN deposit ELSE 0 BY <1>5 DEF Reserved
    <3> HIDE DEF f, g, n, deposit
    <3>6. \A r \in DOMAIN swaps \cup {n} : g[r] \in Int BY <1>a, <3>1, <3>4, <3>5
    <3>7. SumFunctionOnSet(g, DOMAIN swaps \cup {n}) = g[n] + SumFunctionOnSet(g, DOMAIN swaps) BY <1>7, <3>1, <3>6, SumInsert
    <3>8. SumFunctionOnSet(g, DOMAIN swaps) = SumFunctionOnSet(f, DOMAIN swaps) BY <3>1, <3>4, SumBasics
    <3>9. Escrowed(u)' = Reserved(v, u) + Escrowed(u) BY <1>7, <3>3, <3>4, <3>7, <3>8 DEF Escrowed, f
    <3>10. /\ swapHeld[u] + misdrawn[u] + overstated[u] = Escrowed(u) /\ (keeps[u] = 0 => overstated[u] = 0)
           /\ swapHeld[u] \in Int /\ misdrawn[u] \in Int /\ overstated[u] \in Int
      BY <1>0, <1>3 DEF EscrowAccounted
    <3>11. CASE u = t.tokenA
      <4>1. Reserved(v, u) = deposit /\ swapHeld'[u] = swapHeld[u] + in /\ overstated'[u] = overstated[u] + deposit - in
        BY <1>12, <1>d, <3>5, <3>11
      <4>2. misdrawn'[u] = misdrawn[u] /\ keeps'[u] = keeps[u] /\ (keeps[u] = 0 => in = deposit) BY <1>1, <1>c, <3>11
      <4>3. QED BY <1>a, <1>c, <3>1, <3>9, <3>10, <4>1, <4>2
    <3>12. CASE u # t.tokenA
      <4>1. Reserved(v, u) = 0 /\ swapHeld'[u] = swapHeld[u] /\ overstated'[u] = overstated[u] BY <1>12, <1>d, <3>5, <3>12
      <4>2. misdrawn'[u] = misdrawn[u] /\ keeps'[u] = keeps[u] BY <1>1
      <4>3. QED BY <3>1, <3>9, <3>10, <4>1, <4>2
    <3>13. QED BY <3>11, <3>12
  <2>2. QED BY <2>1 DEF EscrowAccounted
<1>14. SwapTyped' BY <1>0, <1>1, <1>6, <1>12, <1>d DEF SwapTyped
<1>15. QED BY <1>9, <1>10, <1>11, <1>13, <1>14 DEF SwapInv

\* The price of a fill is an integer, and so are the fees of it.
LEMMA PriceFacts ==
    ASSUME SwapInv, NEW s \in SwapIds, PendingSwap(s), NEW x \in Nat
    PROVE  PriceOf(s, x) \in Int /\ \A p \in Int : SwapFee(p) \in Int
<1>1. SwapTyped /\ s \in DOMAIN swaps BY DEF SwapInv, PendingSwap
<1>2. FilledOrRemains(swaps[s]) BY <1>1 DEF SwapInv
<1>3. PICK A \in Nat \ {0} : A = swaps[s].terms.amountA BY <1>1, <1>2, SwapFields DEF FilledOrRemains
<1>4. PICK B \in Int : B = swaps[s].terms.amountB BY <1>1, SwapFields
<1>5. PICK c \in Int : c = x * B OBVIOUS
<1>6. PriceOf(s, x) = c \div A BY <1>3, <1>4, <1>5 DEF PriceOf
<1>7. c \div A \in Int OBVIOUS
<1>8. ASSUME NEW p \in Int PROVE SwapFee(p) \in Int
  <2>1. feeBps \in Nat BY <1>1 DEF SwapTyped
  <2>2. PICK e \in Int : e = p * feeBps BY <2>1
  <2>3. e \div 10000 \in Int OBVIOUS
  <2>4. SwapFee(p) = IF feeBps # 0 /\ e \div 10000 = 0 /\ p > 0 THEN 1 ELSE e \div 10000
    BY <2>2 DEF SwapFee, BpsWhole
  <2>5. QED BY <2>3, <2>4
<1>9. QED BY <1>6, <1>7, <1>8

\* A taker fills all of the rest or part of it, at the agreed price.
LEMMA ExecuteSwapInv ==
    ASSUME SwapInv, NEW s \in SwapIds, NEW b \in Parties, NEW x \in FillAmounts, NEW secret \in BOOLEAN,
           ExecuteSwap(s, b, x, secret)
    PROVE  SwapInv'
<1>0. SwapTyped /\ EscrowAccounted BY DEF SwapInv
<1>1. PICK t : t = swaps[s].terms OBVIOUS
<1>2. PICK price : price = PriceOf(s, x) OBVIOUS
<1>3. PICK arrived : arrived = Reaches(t.tokenB, price) OBVIOUS
<1>4. PICK fee : fee = SwapFee(price) OBVIOUS
<1>5. PICK less : less = SwapFee(arrived) OBVIOUS
<1>6. PICK passed : passed = [swapHeld EXCEPT ![t.tokenB] = swapHeld[t.tokenB] + arrived - (arrived - less) - fee] OBVIOUS
<1>7. /\ PendingSwap(s) /\ x > 0 /\ x <= swaps[s].remaining /\ Fill(s, x) /\ price > 0
      /\ swapHeld' = IF t.escrowed THEN [passed EXCEPT ![t.tokenA] = passed[t.tokenA] - x] ELSE passed
      /\ overstated' = [overstated EXCEPT ![t.tokenB] = overstated[t.tokenB] + fee - less]
      /\ misdrawn' = misdrawn
  BY <1>1, <1>2, <1>3, <1>4, <1>5, <1>6 DEF ExecuteSwap
<1>8. x \in Nat BY <1>7, SwapAssumption
<1>9. /\ swaps' \in Seq(SwapRecords) /\ Len(swaps') = Len(swaps)
      /\ \A r \in DOMAIN swaps' : FilledOrRemains(swaps'[r])
      /\ paidFor' \in [SwapIds -> Int] /\ fills' \in [SwapIds -> Nat]
      /\ NothingAhead'
      /\ PriceKept'
      /\ \A u : Escrowed(u)' = Escrowed(u) + (IF t.escrowed /\ t.tokenA = u THEN -x ELSE 0)
  BY <1>1, <1>7, <1>8, FillFacts
<1>10. UNCHANGED <<now, keeps, feeBps>> BY <1>7 DEF Fill
<1>11. PICK A \in SwapTokens : A = t.tokenA BY <1>0, <1>1, <1>7, SwapFields DEF PendingSwap
<1>12. PICK B \in SwapTokens : B = t.tokenB BY <1>0, <1>1, <1>7, SwapFields DEF PendingSwap
<1>13. price \in Int /\ fee \in Int BY <1>2, <1>4, <1>7, <1>8, PriceFacts
<1>14. arrived \in Int /\ (keeps[B] = 0 => arrived = price) BY <1>0, <1>3, <1>7, <1>12, <1>13, ReachesFacts
<1>15. less \in Int BY <1>5, <1>7, <1>8, <1>14, PriceFacts
<1>16. PICK d \in Int : d = fee - less BY <1>13, <1>15
<1>17. keeps[B] = 0 => d = 0 BY <1>4, <1>5, <1>13, <1>14, <1>16
<1>18. PICK out \in Int : out = IF t.escrowed THEN x ELSE 0 BY <1>8
<1>19. /\ swapHeld \in [SwapTokens -> Int] /\ misdrawn \in [SwapTokens -> Int] /\ overstated \in [SwapTokens -> Int]
       /\ keeps \in [SwapTokens -> Nat]
  BY <1>0 DEF SwapTyped
<1>20. passed = [swapHeld EXCEPT ![B] = swapHeld[B] - d]
  <2>1. swapHeld[B] \in Int BY <1>19
  <2>2. swapHeld[B] + arrived - (arrived - less) - fee = swapHeld[B] - d BY <1>13, <1>14, <1>15, <1>16, <2>1
  <2>3. QED BY <1>6, <1>12, <2>2
<1>21. passed \in [SwapTokens -> Int] /\ \A u \in SwapTokens : passed[u] = swapHeld[u] - (IF u = B THEN d ELSE 0)
  BY <1>16, <1>19, <1>20
<1>22. /\ swapHeld' \in [SwapTokens -> Int]
       /\ \A u \in SwapTokens : swapHeld'[u] = passed[u] - (IF u = A THEN out ELSE 0)
  <2>1. CASE t.escrowed
    <3>1. swapHeld' = [passed EXCEPT ![A] = passed[A] - x] /\ out = x BY <1>7, <1>11, <1>18, <2>1
    <3>2. QED BY <1>8, <1>21, <3>1
  <2>2. CASE ~t.escrowed
    <3>1. swapHeld' = passed /\ out = 0 BY <1>7, <1>18, <2>2
    <3>2. QED BY <1>21, <3>1
  <2>3. QED BY <2>1, <2>2
<1>23. /\ overstated' \in [SwapTokens -> Int]
       /\ \A u \in SwapTokens : overstated'[u] = overstated[u] + (IF u = B THEN d ELSE 0)
  <2>1. overstated[B] \in Int BY <1>19
  <2>2. overstated[B] + fee - less = overstated[B] + d BY <1>13, <1>15, <1>16, <2>1
  <2>3. overstated' = [overstated EXCEPT ![B] = overstated[B] + d] BY <1>7, <1>12, <2>2
  <2>4. QED BY <1>16, <1>19, <2>3
<1>24. EscrowAccounted'
  <2>1. PICK mis \in Int : mis = 0 OBVIOUS
  <2>2. ASSUME NEW u \in SwapTokens
        PROVE  /\ swapHeld'[u] = swapHeld[u] - (IF u = B THEN d ELSE 0) - (IF u = A THEN out ELSE 0)
               /\ misdrawn'[u] = misdrawn[u] + (IF u = A THEN mis ELSE 0)
               /\ overstated'[u] = overstated[u] + (IF u = B THEN d ELSE 0)
               /\ Escrowed(u)' = Escrowed(u) - (IF u = A THEN out - mis ELSE 0)
    <3>1. misdrawn[u] \in Int /\ Escrowed(u) \in Int BY <1>0, <1>19, EscrowSums
    <3>2. misdrawn'[u] = misdrawn[u] + (IF u = A THEN mis ELSE 0) BY <1>7, <2>1, <3>1
    <3>3. Escrowed(u)' = Escrowed(u) - (IF u = A THEN out - mis ELSE 0)
      <4>1. CASE u = A /\ t.escrowed
        <5>1. Escrowed(u)' = Escrowed(u) + -x /\ out - mis = x BY <1>8, <1>9, <1>11, <1>18, <2>1, <4>1
        <5>2. QED BY <1>8, <3>1, <4>1, <5>1
      <4>2. CASE ~(u = A /\ t.escrowed)
        <5>1. Escrowed(u)' = Escrowed(u) + 0 BY <1>9, <1>11, <4>2
        <5>2. u = A => out - mis = 0 BY <1>18, <2>1, <4>2
        <5>3. QED BY <3>1, <5>1, <5>2
      <4>3. QED BY <4>1, <4>2
    <3>4. QED BY <1>21, <1>22, <1>23, <3>2, <3>3
  <2>3. Drawn(A, B, out, mis, d) BY <2>2 DEF Drawn
  <2>4. QED BY <1>0, <1>10, <1>17, <2>3, EscrowMoved
<1>25. SwapTyped' BY <1>0, <1>7, <1>9, <1>10, <1>22, <1>23 DEF SwapTyped
<1>26. QED BY <1>9, <1>24, <1>25 DEF SwapInv

\* A partial fill is delivered from the contract, escrowed or not.
LEMMA FillSwapPartialInv ==
    ASSUME SwapInv, NEW s \in SwapIds, NEW x \in FillAmounts, FillSwapPartial(s, x)
    PROVE  SwapInv'
<1>0. SwapTyped /\ EscrowAccounted BY DEF SwapInv
<1>1. PICK t : t = swaps[s].terms OBVIOUS
<1>2. PICK price : price = PriceOf(s, x) OBVIOUS
<1>3. PICK d : d = price - Reaches(t.tokenB, price) OBVIOUS
<1>4. PICK passed : passed = [swapHeld EXCEPT ![t.tokenB] = swapHeld[t.tokenB] - d] OBVIOUS
<1>5. /\ PendingSwap(s) /\ x > 0 /\ x <= swaps[s].remaining /\ Fill(s, x) /\ price > 0
      /\ swapHeld' = [passed EXCEPT ![t.tokenA] = passed[t.tokenA] - x]
      /\ misdrawn' = IF t.escrowed THEN misdrawn ELSE [misdrawn EXCEPT ![t.tokenA] = misdrawn[t.tokenA] + x]
      /\ overstated' = [overstated EXCEPT ![t.tokenB] = overstated[t.tokenB] + d]
  BY <1>1, <1>2, <1>3, <1>4 DEF FillSwapPartial
<1>6. x \in Nat BY <1>5, SwapAssumption
<1>7. /\ swaps' \in Seq(SwapRecords) /\ Len(swaps') = Len(swaps)
      /\ \A r \in DOMAIN swaps' : FilledOrRemains(swaps'[r])
      /\ paidFor' \in [SwapIds -> Int] /\ fills' \in [SwapIds -> Nat]
      /\ NothingAhead'
      /\ PriceKept'
      /\ \A u : Escrowed(u)' = Escrowed(u) + (IF t.escrowed /\ t.tokenA = u THEN -x ELSE 0)
  BY <1>1, <1>5, <1>6, FillFacts
<1>8. UNCHANGED <<now, keeps, feeBps>> BY <1>5 DEF Fill
<1>9. PICK A \in SwapTokens : A = t.tokenA BY <1>0, <1>1, <1>5, SwapFields DEF PendingSwap
<1>10. PICK B \in SwapTokens : B = t.tokenB BY <1>0, <1>1, <1>5, SwapFields DEF PendingSwap
<1>11. price \in Int BY <1>2, <1>5, <1>6, PriceFacts
<1>12. PICK arrived \in Int : arrived = Reaches(B, price) /\ (keeps[B] = 0 => arrived = price)
  BY <1>0, <1>5, <1>11, ReachesFacts
<1>13. d \in Int /\ (keeps[B] = 0 => d = 0)
  <2>1. d = price - arrived BY <1>3, <1>10, <1>12
  <2>2. QED BY <1>11, <1>12, <2>1
<1>14. PICK mis \in Int : mis = IF t.escrowed THEN 0 ELSE x BY <1>6
<1>15. /\ swapHeld \in [SwapTokens -> Int] /\ misdrawn \in [SwapTokens -> Int] /\ overstated \in [SwapTokens -> Int]
       /\ keeps \in [SwapTokens -> Nat]
  BY <1>0 DEF SwapTyped
<1>16. passed \in [SwapTokens -> Int] /\ \A u \in SwapTokens : passed[u] = swapHeld[u] - (IF u = B THEN d ELSE 0)
  BY <1>4, <1>10, <1>13, <1>15
<1>17. /\ swapHeld' \in [SwapTokens -> Int]
       /\ \A u \in SwapTokens : swapHeld'[u] = passed[u] - (IF u = A THEN x ELSE 0)
  BY <1>5, <1>6, <1>9, <1>16
<1>18. /\ overstated' \in [SwapTokens -> Int]
       /\ \A u \in SwapTokens : overstated'[u] = overstated[u] + (IF u = B THEN d ELSE 0)
  BY <1>5, <1>10, <1>13, <1>15
<1>19. /\ misdrawn' \in [SwapTokens -> Int]
       /\ \A u \in SwapTokens : misdrawn'[u] = misdrawn[u] + (IF u = A THEN mis ELSE 0)
  <2>1. CASE t.escrowed
    <3>1. misdrawn' = misdrawn /\ mis = 0 BY <1>5, <1>14, <2>1
    <3>2. QED BY <1>15, <3>1
  <2>2. CASE ~t.escrowed
    <3>1. misdrawn' = [misdrawn EXCEPT ![A] = misdrawn[A] + x] /\ mis = x BY <1>5, <1>9, <1>14, <2>2
    <3>2. QED BY <1>6, <1>15, <3>1
  <2>3. QED BY <2>1, <2>2
<1>20. EscrowAccounted'
  <2>1. PICK out \in Int : out = x BY <1>6
  <2>2. ASSUME NEW u \in SwapTokens
        PROVE  /\ swapHeld'[u] = swapHeld[u] - (IF u = B THEN d ELSE 0) - (IF u = A THEN out ELSE 0)
               /\ misdrawn'[u] = misdrawn[u] + (IF u = A THEN mis ELSE 0)
               /\ overstated'[u] = overstated[u] + (IF u = B THEN d ELSE 0)
               /\ Escrowed(u)' = Escrowed(u) - (IF u = A THEN out - mis ELSE 0)
    <3>1. Escrowed(u) \in Int BY <1>0, EscrowSums
    <3>2. Escrowed(u)' = Escrowed(u) - (IF u = A THEN out - mis ELSE 0)
      <4>1. CASE u = A /\ t.escrowed
        <5>1. Escrowed(u)' = Escrowed(u) + -x /\ out - mis = x BY <1>6, <1>7, <1>9, <1>14, <2>1, <4>1
        <5>2. QED BY <1>6, <3>1, <4>1, <5>1
      <4>2. CASE ~(u = A /\ t.escrowed)
        <5>1. Escrowed(u)' = Escrowed(u) + 0 BY <1>7, <1>9, <4>2
        <5>2. u = A => out - mis = 0 BY <1>6, <1>14, <2>1, <4>2
        <5>3. QED BY <3>1, <5>1, <5>2
      <4>3. QED BY <4>1, <4>2
    <3>3. QED BY <1>16, <1>17, <1>18, <1>19, <2>1, <3>2
  <2>3. Drawn(A, B, out, mis, d) BY <2>2 DEF Drawn
  <2>4. QED BY <1>0, <1>8, <1>13, <2>3, EscrowMoved
<1>21. SwapTyped' BY <1>0, <1>7, <1>8, <1>17, <1>18, <1>19 DEF SwapTyped
<1>22. QED BY <1>7, <1>20, <1>21 DEF SwapInv

\* What the swaps that end give back is what they kept in escrow.
LEMMA ReturnRestInv ==
    ASSUME SwapInv, NEW S, NEW state \in {"Cancelled", "Expired"}, ReturnRest(S, state)
    PROVE  SwapInv'
<1>0. SwapTyped /\ NothingAhead /\ PriceKept /\ EscrowAccounted /\ (\A r \in DOMAIN swaps : FilledOrRemains(swaps[r]))
  BY DEF SwapInv
<1> DEFINE end(s) == IF s \in S THEN [swaps[s] EXCEPT !.state = state] ELSE swaps[s]
<1>1. /\ \A s \in S : PendingSwap(s)
      /\ swapHeld' = [t \in SwapTokens |-> swapHeld[t] - SumFunctionOnSet([s \in S |-> Rest(s, t)], S)]
      /\ swaps' = [s \in DOMAIN swaps |-> end(s)]
      /\ UNCHANGED <<now, keeps, feeBps, misdrawn, overstated, paidFor, fills>>
  BY DEF ReturnRest
<1>2. S \subseteq DOMAIN swaps /\ \A s \in S : swaps[s].state = "Pending" BY <1>1 DEF PendingSwap
<1>3. swaps \in Seq(SwapRecords) /\ Len(swaps) \in Nat /\ DOMAIN swaps = 1..Len(swaps) BY <1>0 DEF SwapTyped
<1>4. ASSUME NEW s \in DOMAIN swaps
      PROVE  /\ end(s) \in SwapRecords /\ end(s).terms = swaps[s].terms /\ end(s).filled = swaps[s].filled
             /\ end(s).remaining = swaps[s].remaining
             /\ s \in S => end(s).state = state
             /\ s \notin S => end(s) = swaps[s]
  <2>1. swaps[s] \in SwapRecords BY <1>0, SwapFields
  <2>2. QED BY <2>1 DEF SwapRecords
<1>5. \A s \in DOMAIN swaps : swaps'[s] = end(s) BY <1>1
<1>6. swaps' \in [1..Len(swaps) -> SwapRecords] BY <1>1, <1>3, <1>4
<1> HIDE DEF end
<1>7. swaps' \in Seq(SwapRecords) /\ Len(swaps') = Len(swaps) /\ DOMAIN swaps' = DOMAIN swaps
  <2>1. swaps' \in Seq(SwapRecords) BY <1>3, <1>6, SeqDef
  <2>2. QED BY <1>3, <1>6, <2>1, LenProperties
<1>8. \A r \in DOMAIN swaps' : FilledOrRemains(swaps'[r]) BY <1>0, <1>4, <1>5, <1>7 DEF FilledOrRemains
<1>9. NothingAhead' BY <1>0, <1>1, <1>7 DEF NothingAhead
<1>10. PriceKept' BY <1>0, <1>1, <1>4, <1>5, <1>7 DEF PriceKept
<1>11. swapHeld \in [SwapTokens -> Int] /\ misdrawn \in [SwapTokens -> Int] /\ overstated \in [SwapTokens -> Int]
  BY <1>0 DEF SwapTyped
<1>12. ASSUME NEW t \in SwapTokens
       PROVE  /\ swapHeld'[t] \in Int /\ swapHeld'[t] + misdrawn'[t] + overstated'[t] = Escrowed(t)'
              /\ keeps'[t] = 0 => overstated'[t] = 0
  <2> DEFINE f == EscrowOf(t)
             g == [r \in DOMAIN swaps |-> Reserved(swaps'[r], t)]
             h == [s \in S |-> Rest(s, t)]
  <2>1. IsFiniteSet(DOMAIN swaps) /\ (\A r \in DOMAIN swaps : f[r] = Reserved(swaps[r], t) /\ f[r] \in Int) /\ Escrowed(t) \in Int
    BY <1>0, EscrowSums
  <2>2. EscrowOf(t)' = g BY <1>7 DEF EscrowOf, PendingSwap, Reserved
  <2>3. Escrowed(t)' = SumFunctionOnSet(g, DOMAIN swaps) BY <1>7, <2>2 DEF Escrowed
  <2>4. \A r \in DOMAIN swaps : g[r] = IF r \in S THEN 0 ELSE f[r] BY <1>4, <1>5, <2>1 DEF Reserved
  <2>5. ASSUME NEW s \in S PROVE h[s] = f[s]
    <3>1. s \in DOMAIN swaps /\ swaps[s].state = "Pending" BY <1>2
    <3>2. swaps[s].remaining \in Nat /\ swaps[s].filled \in Nat /\ swaps[s].terms.amountA \in Int BY <1>0, <3>1, SwapFields
    <3>3. swaps[s].filled + swaps[s].remaining = swaps[s].terms.amountA BY <1>0, <3>1 DEF FilledOrRemains
    <3>4. Unfilled(s) = swaps[s].remaining BY <3>2, <3>3 DEF Unfilled
    <3>5. QED BY <2>1, <3>1, <3>4 DEF Rest, Reserved
  <2> HIDE DEF f, g, h
  <2>6. IsFiniteSet(S) BY <1>2, <2>1, FS_Subset
  <2>7. SumFunctionOnSet(h, S) = SumFunctionOnSet(f, S) /\ SumFunctionOnSet(f, S) \in Int
    BY <1>2, <2>1, <2>5, <2>6, SumBasics
  <2>8. SumFunctionOnSet(g, DOMAIN swaps) = SumFunctionOnSet(f, DOMAIN swaps) - SumFunctionOnSet(f, S)
    BY <1>2, <2>1, <2>4, SumCleared
  <2>9. swapHeld'[t] = swapHeld[t] - SumFunctionOnSet(f, S) BY <1>1, <2>7 DEF h
  <2>10. /\ swapHeld[t] + misdrawn[t] + overstated[t] = Escrowed(t) /\ (keeps[t] = 0 => overstated[t] = 0)
         /\ swapHeld[t] \in Int /\ misdrawn[t] \in Int /\ overstated[t] \in Int
    BY <1>0, <1>11 DEF EscrowAccounted
  <2>11. Escrowed(t)' = Escrowed(t) - SumFunctionOnSet(f, S) BY <2>3, <2>8 DEF f, Escrowed
  <2>12. QED BY <1>1, <2>1, <2>7, <2>9, <2>10, <2>11
<1>13. EscrowAccounted' BY <1>12 DEF EscrowAccounted
<1>14. swapHeld' \in [SwapTokens -> Int] BY <1>1, <1>12
<1>15. SwapTyped' BY <1>0, <1>1, <1>7, <1>14 DEF SwapTyped
<1>16. QED BY <1>8, <1>9, <1>10, <1>13, <1>15 DEF SwapInv

\* Steps that move neither swaps nor what the contract holds.
LEMMA SwapQuiet ==
    ASSUME SwapInv, UNCHANGED <<keeps, swaps, swapHeld, misdrawn, overstated, paidFor, fills>>, now' \in Nat, feeBps' \in Nat
    PROVE  SwapInv'
<1>1. SwapTyped' BY DEF SwapInv, SwapTyped
<1>2. NothingAhead' /\ PriceKept' /\ (\A r \in DOMAIN swaps' : FilledOrRemains(swaps'[r]))
  BY DEF SwapInv, NothingAhead, PriceKept
<1>3. EscrowAccounted' BY DEF SwapInv, EscrowAccounted, Escrowed, EscrowOf, PendingSwap
<1>4. QED BY <1>1, <1>2, <1>3 DEF SwapInv

\* Every step of the swap keeps the invariant.
LEMMA SwapInduction == SwapInv /\ [SwapNext]_swapVars => SwapInv'
<1> SUFFICES ASSUME SwapInv, [SwapNext]_swapVars PROVE SwapInv' OBVIOUS
<1>0. now \in Nat /\ feeBps \in Nat /\ FeeRates \subseteq Nat BY SwapAssumption DEF SwapInv, SwapTyped
<1>1. CASE InitializeSwap BY <1>0, <1>1, SwapQuiet DEF InitializeSwap
<1>2. CASE \E bps \in FeeRates : SetFeeBps(bps) BY <1>0, <1>2, SwapQuiet DEF SetFeeBps
<1>3. CASE \E a \in Parties, t \in SwapTerms : Len(swaps) < MaxSwaps /\ ProposeSwap(a, t) BY <1>3, ProposeSwapInv
<1>4. CASE \E s \in SwapIds, b \in Parties, x \in FillAmounts, secret \in BOOLEAN : ExecuteSwap(s, b, x, secret)
  BY <1>4, ExecuteSwapInv
<1>5. CASE \E s \in SwapIds, x \in FillAmounts : FillSwapPartial(s, x) BY <1>5, FillSwapPartialInv
<1>6. CASE \E s \in SwapIds : CancelSwap(s) \/ RefundHashlocked(s) \/ ExpireSwap(s)
  BY <1>6, ReturnRestInv DEF CancelSwap, RefundHashlocked, ExpireSwap
<1>7. CASE \E a \in Parties, list \in CancelLists : CancelSwapsBatch(a, list)
  BY <1>7, ReturnRestInv DEF CancelSwapsBatch
<1>8. CASE \E a \in Parties, b \in BasketTerms : ProposeBasket(a, b) BY <1>0, <1>8, SwapQuiet DEF ProposeBasket
<1>9. CASE \E i \in 1..MaxBaskets, b \in Parties : AcceptBasket(i, b) BY <1>0, <1>9, SwapQuiet DEF AcceptBasket
<1>10. CASE LedgerCloses /\ UNCHANGED swapOnlyVars BY <1>0, <1>10, SwapQuiet DEF LedgerCloses, swapOnlyVars
<1>11. CASE UNCHANGED swapVars BY <1>0, <1>11, SwapQuiet DEF swapVars, swapOnlyVars
<1>12. QED BY <1>1, <1>2, <1>3, <1>4, <1>5, <1>6, <1>7, <1>8, <1>9, <1>10, <1>11 DEF SwapNext

\* The swap contract starts empty.
LEMMA SwapStart == SwapInit => SwapInv
<1> SUFFICES ASSUME SwapInit PROVE SwapInv OBVIOUS
<1>1. /\ now = 0 /\ feeBps \in Nat /\ swaps = <<>> /\ swapHeld = NoTokens /\ misdrawn = NoTokens
      /\ overstated = NoTokens /\ keeps \in [SwapTokens -> Nat]
      /\ paidFor = [s \in SwapIds |-> 0] /\ fills = [s \in SwapIds |-> 0]
  BY SwapAssumption DEF SwapInit
<1>2. swaps \in Seq(SwapRecords) /\ Len(swaps) = 0 /\ DOMAIN swaps = {} BY <1>1
<1>3. SwapTyped BY <1>1, <1>2, SwapAssumption DEF SwapTyped, NoTokens
<1>4. NothingAhead /\ PriceKept /\ (\A r \in DOMAIN swaps : FilledOrRemains(swaps[r]))
  BY <1>1, <1>2 DEF NothingAhead, PriceKept
<1>5. EscrowAccounted
  <2>1. ASSUME NEW t \in SwapTokens
        PROVE  swapHeld[t] + misdrawn[t] + overstated[t] = Escrowed(t) /\ (keeps[t] = 0 => overstated[t] = 0)
    <3>1. Escrowed(t) = 0 BY <1>2, <1>3, EscrowSums, SumBasics DEF Escrowed
    <3>2. QED BY <1>1, <3>1 DEF NoTokens
  <2>2. QED BY <2>1 DEF EscrowAccounted
<1>6. QED BY <1>3, <1>4, <1>5 DEF SwapInv

\* For any parties, tokens, terms and number of swaps, the contract holds the unfilled
\* rest of every escrowed pending swap and nothing else, but for what
\* fill_swap_partial took for offers that were never escrowed and for what tokens
\* kept of transfers that the contract reckons in full; the latter is nothing for a
\* token that delivers what it transfers.
THEOREM EscrowIsAccounted == SwapSpec => []EscrowAccounted
<1>1. SwapInv => EscrowAccounted BY DEF SwapInv
<1>2. QED BY <1>1, SwapStart, SwapInduction, PTL DEF SwapSpec

\* Into however many parts an offer is split, takers pay the agreed price rounded down
\* once a fill.
THEOREM AgreedPriceIsPaid == SwapSpec => []PriceKept
<1>1. SwapInv => PriceKept BY DEF SwapInv
<1>2. QED BY <1>1, SwapStart, SwapInduction, PTL DEF SwapSpec

----
(* The NFT collection.                                                     *)

Owners == [TokenIds -> Collectors \cup {Nobody}]
Enums == [balance : [Collectors -> 0..MaxOwned], tokens : [Collectors -> [Slots -> TokenIds \cup {Nobody}]],
          index : [TokenIds -> Slots \cup {Nobody}]]

\* The enumeration lists a's tokens, own being the owners: the index of each of them
\* leads to it, and each entry below the balance is one of them.
ListsOf(e, own, a) ==
    /\ \A i \in TokenIds : own[i] = a => /\ e.index[i] \in Nat /\ e.index[i] < e.balance[a]
                                         /\ e.tokens[a][e.index[i]] = i
    /\ \A x \in Slots : x < e.balance[a] => /\ e.tokens[a][x] \in TokenIds /\ own[e.tokens[a][x]] = a
                                            /\ e.index[e.tokens[a][x]] = x

Listed(e, own) == e \in Enums /\ \A a \in Collectors : ListsOf(e, own, a)

OwnedTokens == {i \in TokenIds : nftOwner[i] # Nobody}

\* What holds while no batch named a token twice.
NftInv ==
    ~repeated => /\ nftOwner \in Owners /\ Listed(Enumeration, nftOwner)
                 /\ totalSupply = Cardinality(OwnedTokens)

\* The parts of an enumeration.
LEMMA EnumParts ==
    ASSUME NEW e \in Enums
    PROVE  /\ e.balance \in [Collectors -> 0..MaxOwned] /\ e.tokens \in [Collectors -> [Slots -> TokenIds \cup {Nobody}]]
           /\ e.index \in [TokenIds -> Slots \cup {Nobody}]
           /\ e = [balance |-> e.balance, tokens |-> e.tokens, index |-> e.index]
           /\ \A a \in Collectors : e.balance[a] \in Nat /\ e.balance[a] <= MaxOwned
           /\ MaxOwned \in Nat /\ Nobody \notin Collectors /\ Nobody \notin Nat /\ Nobody \notin TokenIds
           /\ \A x : x \in Slots <=> x \in Nat /\ x <= MaxOwned
<1>1. MaxOwned \in Nat /\ Nobody \notin Collectors /\ Nobody \notin Nat /\ MaxTokenId \in Nat BY NftAssumption
<1>2. Nobody \notin TokenIds BY <1>1 DEF TokenIds
<1>3. \A x : x \in Slots <=> x \in Nat /\ x <= MaxOwned BY <1>1 DEF Slots
<1>4. QED BY <1>1, <1>2, <1>3 DEF Enums

\* The owners o are own but for token i, which is a's.
Assigns(o, own, i, a) == o \in Owners /\ \A j \in TokenIds : o[j] = IF j = i THEN a ELSE own[j]

\* enumerable_add of a token nobody owns.
LEMMA AddLists ==
    ASSUME NEW e, NEW own \in Owners, Listed(e, own), NEW a \in Collectors, NEW i \in TokenIds,
           own[i] = Nobody, e.balance[a] < MaxOwned, NEW y, y = EnumerableAdd(e, a, i),
           NEW o, Assigns(o, own, i, a)
    PROVE  Listed(y, o) /\ y.balance[a] = e.balance[a] + 1
<1> DEFINE n == e.balance[a]
<1>0. e \in Enums BY DEF Listed
<1>1. /\ e.balance \in [Collectors -> 0..MaxOwned] /\ e.tokens \in [Collectors -> [Slots -> TokenIds \cup {Nobody}]]
      /\ e.index \in [TokenIds -> Slots \cup {Nobody}] /\ \A c \in Collectors : e.balance[c] \in Nat /\ e.balance[c] <= MaxOwned
      /\ MaxOwned \in Nat /\ Nobody \notin Collectors /\ Nobody \notin Nat
      /\ \A x : x \in Slots <=> x \in Nat /\ x <= MaxOwned
  BY <1>0, EnumParts
<1>2. n \in Nat /\ n < MaxOwned /\ n \in Slots BY <1>1
<1>3. /\ y.balance = [e.balance EXCEPT ![a] = n + 1] /\ y.tokens = [e.tokens EXCEPT ![a][n] = i]
      /\ y.index = [e.index EXCEPT ![i] = n] /\ y = [balance |-> y.balance, tokens |-> y.tokens, index |-> y.index]
  <2>1. e = [balance |-> e.balance, tokens |-> e.tokens, index |-> e.index] BY <1>0, EnumParts
  <2>2. y = [e EXCEPT !.tokens[a][n] = i, !.index[i] = n, !.balance[a] = @ + 1] BY DEF EnumerableAdd
  <2>3. y = [balance |-> [e.balance EXCEPT ![a] = @ + 1], tokens |-> [e.tokens EXCEPT ![a][n] = i],
             index |-> [e.index EXCEPT ![i] = n]]
    <3> HIDE DEF n
    <3>1. QED BY <2>1, <2>2
  <2>4. [e.balance EXCEPT ![a] = @ + 1] = [e.balance EXCEPT ![a] = n + 1] BY <1>1
  <2> HIDE DEF n
  <2>5. QED BY <2>3, <2>4
<1>4. y \in Enums
  <2>1. n + 1 \in 0..MaxOwned BY <1>1, <1>2
  <2>2. y.balance \in [Collectors -> 0..MaxOwned] BY <1>1, <1>3, <2>1
  <2>3. y.tokens \in [Collectors -> [Slots -> TokenIds \cup {Nobody}]] BY <1>1, <1>2, <1>3
  <2>4. y.index \in [TokenIds -> Slots \cup {Nobody}] BY <1>1, <1>2, <1>3
  <2>5. QED BY <1>3, <2>2, <2>3, <2>4 DEF Enums
<1>5. \A j \in TokenIds : o[j] = IF j = i THEN a ELSE own[j] BY DEF Assigns
<1>6. /\ y.balance[a] = n + 1 /\ y.tokens[a][n] = i /\ y.index[i] = n
      /\ \A x \in Slots : x # n => y.tokens[a][x] = e.tokens[a][x]
      /\ \A j \in TokenIds : j # i => y.index[j] = e.index[j]
      /\ \A c \in Collectors : c # a => y.balance[c] = e.balance[c] /\ y.tokens[c] = e.tokens[c]
  BY <1>1, <1>2, <1>3
<1>7. ASSUME NEW c \in Collectors PROVE ListsOf(y, o, c)
  <2>0. ListsOf(e, own, c) BY DEF Listed
  <2>1. CASE c # a
    <3>1. ASSUME NEW j \in TokenIds, o[j] = c
          PROVE  y.index[j] \in Nat /\ y.index[j] < y.balance[c] /\ y.tokens[c][y.index[j]] = j
      <4>1. j # i /\ own[j] = c BY <1>5, <2>1, <3>1
      <4>2. QED BY <1>6, <2>0, <2>1, <4>1 DEF ListsOf
    <3>2. ASSUME NEW x \in Slots, x < y.balance[c]
          PROVE  y.tokens[c][x] \in TokenIds /\ o[y.tokens[c][x]] = c /\ y.index[y.tokens[c][x]] = x
      <4>1. e.tokens[c][x] \in TokenIds /\ own[e.tokens[c][x]] = c /\ e.index[e.tokens[c][x]] = x
        BY <1>6, <2>0, <2>1, <3>2 DEF ListsOf
      <4>2. e.tokens[c][x] # i BY <1>1, <4>1
      <4>3. QED BY <1>5, <1>6, <2>1, <4>1, <4>2
    <3>3. QED BY <3>1, <3>2 DEF ListsOf
  <2>2. CASE c = a
    <3>1. ASSUME NEW j \in TokenIds, o[j] = a
          PROVE  y.index[j] \in Nat /\ y.index[j] < y.balance[a] /\ y.tokens[a][y.index[j]] = j
      <4>1. CASE j = i BY <1>2, <1>6, <4>1
      <4>2. CASE j # i
        <5>1. own[j] = a BY <1>5, <3>1, <4>2
        <5>2. e.index[j] \in Nat /\ e.index[j] < n /\ e.tokens[a][e.index[j]] = j BY <2>0, <2>2, <5>1 DEF ListsOf
        <5>3. e.index[j] \in Slots /\ e.index[j] # n BY <1>1, <1>2, <5>2
        <5> HIDE DEF n
        <5>4. QED BY <1>2, <1>6, <4>2, <5>2, <5>3
      <4>3. QED BY <4>1, <4>2
    <3>2. ASSUME NEW x \in Slots, x < y.balance[a]
          PROVE  y.tokens[a][x] \in TokenIds /\ o[y.tokens[a][x]] = a /\ y.index[y.tokens[a][x]] = x
      <4>1. CASE x = n BY <1>5, <1>6, <4>1
      <4>2. CASE x # n
        <5>0. x \in Nat BY <1>1
        <5>1. x < n BY <1>2, <1>6, <3>2, <4>2, <5>0
        <5>2. e.tokens[a][x] \in TokenIds /\ own[e.tokens[a][x]] = a /\ e.index[e.tokens[a][x]] = x
          BY <2>0, <2>2, <5>1 DEF ListsOf
        <5>3. e.tokens[a][x] # i BY <1>1, <5>2
        <5>4. QED BY <1>5, <1>6, <4>2, <5>2, <5>3
      <4>3. QED BY <4>1, <4>2
    <3>3. QED BY <2>2, <3>1, <3>2 DEF ListsOf
  <2>3. QED BY <2>1, <2>2
<1>8. Listed(y, o) BY <1>4, <1>7 DEF Listed
<1>9. QED BY <1>6, <1>8

\* enumerable_remove of one of the owner's tokens.
LEMMA RemoveLists ==
    ASSUME NEW e, NEW own \in Owners, Listed(e, own), NEW a \in Collectors, NEW i \in TokenIds, own[i] = a,
           NEW y, y = EnumerableRemove(e, a, i), NEW o, Assigns(o, own, i, Nobody)
    PROVE  /\ Listed(y, o) /\ y.balance[a] = e.balance[a] - 1
           /\ \A c \in Collectors : c # a => y.balance[c] = e.balance[c]
<1> DEFINE last == e.balance[a] - 1
           at == e.index[i]
           moved == e.tokens[a][last]
<1>0. e \in Enums /\ ListsOf(e, own, a) BY DEF Listed
<1>1. /\ e.balance \in [Collectors -> 0..MaxOwned] /\ e.tokens \in [Collectors -> [Slots -> TokenIds \cup {Nobody}]]
      /\ e.index \in [TokenIds -> Slots \cup {Nobody}] /\ \A c \in Collectors : e.balance[c] \in Nat /\ e.balance[c] <= MaxOwned
      /\ MaxOwned \in Nat /\ Nobody \notin Collectors /\ Nobody \notin Nat /\ Nobody \notin TokenIds
      /\ \A x : x \in Slots <=> x \in Nat /\ x <= MaxOwned
      /\ e = [balance |-> e.balance, tokens |-> e.tokens, index |-> e.index]
  BY <1>0, EnumParts
<1>2. at \in Nat /\ at <= last /\ last \in Nat /\ last < MaxOwned /\ at # Nobody
  <2>1. at \in Nat /\ at < e.balance[a] BY <1>0 DEF ListsOf
  <2>2. e.balance[a] \in Nat /\ e.balance[a] <= MaxOwned BY <1>1
  <2>3. QED BY <1>1, <2>1, <2>2
<1>3. at \in Slots /\ last \in Slots BY <1>1, <1>2
<1>4. moved \in TokenIds /\ own[moved] = a /\ e.index[moved] = last
  <2>1. last < e.balance[a] BY <1>1
  <2> HIDE DEF last
  <2>2. QED BY <1>0, <1>3, <2>1 DEF ListsOf
<1>5. e.tokens[a][at] = i BY <1>0 DEF ListsOf
<1>6. at = last <=> moved = i BY <1>4, <1>5
<1> DEFINE swapped == IF at = last THEN e ELSE [e EXCEPT !.tokens[a][at] = moved, !.index[moved] = at]
<1>7. y = [swapped EXCEPT !.tokens[a][last] = Nobody, !.index[i] = Nobody, !.balance[a] = last]
  BY <1>2 DEF EnumerableRemove
<1>8. ~(last < 0) BY <1>2
<1> DEFINE tok == [e.tokens EXCEPT ![a] = [e.tokens[a] EXCEPT ![at] = moved, ![last] = Nobody]]
           ind == [e.index EXCEPT ![moved] = at, ![i] = Nobody]
<1>9. y = [balance |-> [e.balance EXCEPT ![a] = last], tokens |-> tok, index |-> ind]
  <2>1. CASE at # last
    <3> DEFINE f == [e.tokens EXCEPT ![a][at] = moved]
               g == [e.index EXCEPT ![moved] = at]
    <3>1. swapped = [e EXCEPT !.tokens[a][at] = moved, !.index[moved] = at] BY <2>1
    <3>2. swapped = [balance |-> e.balance, tokens |-> f, index |-> g]
      <4> HIDE DEF last, at, moved, swapped
      <4>1. QED BY <1>1, <3>1
    <3>3. tok = [f EXCEPT ![a][last] = Nobody]
      <4> HIDE DEF last, at, moved, swapped
      <4>1. QED BY <1>1, <1>3
    <3>4. ind = [g EXCEPT ![i] = Nobody] OBVIOUS
    <3> HIDE DEF last, at, moved, swapped, f, g, tok, ind
    <3>5. QED BY <1>7, <3>2, <3>3, <3>4
  <2>2. CASE at = last
    <3>1. y = [e EXCEPT !.tokens[a][last] = Nobody, !.index[i] = Nobody, !.balance[a] = last] BY <1>7, <2>2
    <3>2. moved = i BY <1>6, <2>2
    <3>3. tok = [e.tokens EXCEPT ![a][last] = Nobody] /\ ind = [e.index EXCEPT ![i] = Nobody]
      <4> HIDE DEF last, at, moved
      <4>1. QED BY <1>1, <1>3, <2>2, <3>2
    <3> HIDE DEF last, at, moved, tok, ind
    <3>4. QED BY <1>1, <3>1, <3>3
  <2>3. QED BY <2>1, <2>2
<1>10. /\ y.balance = [e.balance EXCEPT ![a] = last] /\ y.tokens = tok /\ y.index = ind
       /\ y = [balance |-> y.balance, tokens |-> y.tokens, index |-> y.index]
  BY <1>9
<1>11. y \in Enums
  <2>1. last \in 0..MaxOwned BY <1>1, <1>2
  <2> HIDE DEF last, at, moved
  <2>2. y.balance \in [Collectors -> 0..MaxOwned] BY <1>1, <1>10, <2>1
  <2>3. y.tokens \in [Collectors -> [Slots -> TokenIds \cup {Nobody}]] BY <1>1, <1>3, <1>4, <1>10
  <2>4. y.index \in [TokenIds -> Slots \cup {Nobody}] BY <1>1, <1>3, <1>4, <1>10
  <2>5. QED BY <1>10, <2>2, <2>3, <2>4 DEF Enums
<1>12. \A j \in TokenIds : o[j] = IF j = i THEN Nobody ELSE own[j] BY DEF Assigns
<1>13. /\ y.balance[a] = last
       /\ \A x \in Slots : x # last => y.tokens[a][x] = IF x = at THEN moved ELSE e.tokens[a][x]
       /\ \A j \in TokenIds : j # i => y.index[j] = IF j = moved THEN at ELSE e.index[j]
       /\ \A c \in Collectors : c # a => y.balance[c] = e.balance[c] /\ y.tokens[c] = e.tokens[c]
  <2> HIDE DEF last, at, moved
  <2>1. QED BY <1>1, <1>3, <1>4, <1>10
<1>14. ASSUME NEW c \in Collectors PROVE ListsOf(y, o, c)
  <2>0. ListsOf(e, own, c) BY DEF Listed
  <2>1. CASE c # a
    <3>1. ASSUME NEW j \in TokenIds, o[j] = c
          PROVE  y.index[j] \in Nat /\ y.index[j] < y.balance[c] /\ y.tokens[c][y.index[j]] = j
      <4>1. j # i /\ own[j] = c BY <1>1, <1>12, <3>1
      <4>2. j # moved BY <1>4, <2>1, <4>1
      <4> HIDE DEF moved
      <4>3. QED BY <1>13, <2>0, <2>1, <4>1, <4>2 DEF ListsOf
    <3>2. ASSUME NEW x \in Slots, x < y.balance[c]
          PROVE  y.tokens[c][x] \in TokenIds /\ o[y.tokens[c][x]] = c /\ y.index[y.tokens[c][x]] = x
      <4>1. e.tokens[c][x] \in TokenIds /\ own[e.tokens[c][x]] = c /\ e.index[e.tokens[c][x]] = x
        BY <1>13, <2>0, <2>1, <3>2 DEF ListsOf
      <4>2. e.tokens[c][x] # i /\ e.tokens[c][x] # moved BY <1>4, <2>1, <4>1
      <4> HIDE DEF moved
      <4>3. QED BY <1>12, <1>13, <2>1, <4>1, <4>2
    <3>3. QED BY <3>1, <3>2 DEF ListsOf
  <2>2. CASE c = a
    <3>1. ASSUME NEW j \in TokenIds, o[j] = a
          PROVE  y.index[j] \in Nat /\ y.index[j] < y.balance[a] /\ y.tokens[a][y.index[j]] = j
      <4>1. j # i /\ own[j] = a BY <1>1, <1>12, <3>1
      <4>2. CASE j = moved
        <5>1. at # last BY <1>6, <4>1, <4>2
        <5>2. at < last BY <1>2, <5>1
        <5>3. y.index[j] = at /\ y.tokens[a][at] = moved BY <1>3, <1>13, <4>1, <4>2, <5>1
        <5> HIDE DEF at, last, moved
        <5>4. QED BY <1>2, <1>13, <4>2, <5>2, <5>3
      <4>3. CASE j # moved
        <5>1. e.index[j] \in Nat /\ e.index[j] < e.balance[a] /\ e.tokens[a][e.index[j]] = j BY <1>0, <4>1 DEF ListsOf
        <5>2. e.index[j] # at BY <1>5, <4>1, <5>1
        <5>3. e.index[j] # last BY <4>3, <5>1
        <5>4. e.index[j] < last
          <6>1. \A k, m \in Nat : k < m /\ k # m - 1 => k < m - 1 OBVIOUS
          <6>2. e.balance[a] \in Nat BY <1>1
          <6>3. QED BY <5>1, <5>3, <6>1, <6>2
        <5>5. e.index[j] \in Slots BY <1>1, <1>2, <5>1, <5>4
        <5>6. y.index[j] = e.index[j] BY <1>13, <4>1, <4>3
        <5> HIDE DEF at, last, moved
        <5>7. y.tokens[a][e.index[j]] = j BY <1>13, <5>1, <5>2, <5>3, <5>5
        <5>8. QED BY <1>13, <5>1, <5>4, <5>6, <5>7
      <4>4. QED BY <4>2, <4>3
    <3>2. ASSUME NEW x \in Slots, x < y.balance[a]
          PROVE  y.tokens[a][x] \in TokenIds /\ o[y.tokens[a][x]] = a /\ y.index[y.tokens[a][x]] = x
      <4>0. x \in Nat BY <1>1
      <4>1. x < last /\ x # last BY <1>2, <1>13, <3>2, <4>0
      <4>2. CASE x = at
        <5>1. y.tokens[a][x] = moved BY <1>13, <4>1, <4>2
        <5>2. moved # i BY <1>6, <4>1, <4>2
        <5> HIDE DEF at, last, moved
        <5>3. y.index[moved] = at BY <1>4, <1>13, <5>2
        <5>4. o[moved] = a BY <1>4, <1>12, <5>2
        <5>5. QED BY <1>4, <4>2, <5>1, <5>3, <5>4
      <4>3. CASE x # at
        <5>1. y.tokens[a][x] = e.tokens[a][x] BY <1>13, <4>1, <4>3
        <5>2. x < e.balance[a] BY <1>1, <4>0, <4>1
        <5>3. e.tokens[a][x] \in TokenIds /\ own[e.tokens[a][x]] = a /\ e.index[e.tokens[a][x]] = x
          BY <1>0, <5>2 DEF ListsOf
        <5>4. e.tokens[a][x] # i BY <4>3, <5>3
        <5>5. e.tokens[a][x] # moved BY <1>4, <4>1, <5>3
        <5> HIDE DEF at, last, moved
        <5>6. QED BY <1>12, <1>13, <5>1, <5>3, <5>4, <5>5
      <4>4. QED BY <4>2, <4>3
    <3>3. QED BY <2>2, <3>1, <3>2 DEF ListsOf
  <2>3. QED BY <2>1, <2>2
<1>15. Listed(y, o) BY <1>11, <1>14 DEF Listed
<1>16. QED BY <1>13, <1>15

\* The owners once the tokens at the positions T of the list are to's.
OwnAfter(own, list, T, to) == [i \in TokenIds |-> IF \E x \in T : list[x] = i THEN to ELSE own[i]]

\* What the enumeration may be by then, to having had n tokens.
Reached(own, list, T, to, n) == {e \in Enums : Listed(e, OwnAfter(own, list, T, to)) /\ e.balance[to] <= n + Cardinality(T)}

Distinct(list) == \A x, y \in DOMAIN list : list[x] = list[y] => x = y

\* One more position: to owns the token there as well.
IsNext(own, list, T, U, z, to, o, v) ==
    /\ o \in Owners /\ o[list[z]] = own[list[z]] /\ Assigns(v, o, list[z], to)
    /\ list[z] \in TokenIds /\ Cardinality(T) = Cardinality(U) + 1 /\ Cardinality(U) \in Nat
    /\ Cardinality(T) <= Len(list) /\ Len(list) \in Nat

\* Handing over one more token of a list changes the owner of that one.
LEMMA OneMoreOwned ==
    ASSUME NEW own \in Owners, NEW list \in Seq(TokenIds), Distinct(list), NEW T \in SUBSET DOMAIN list, NEW z \in T,
           NEW U, U = T \ {z}, NEW to \in Collectors, NEW o, o = OwnAfter(own, list, U, to),
           NEW v, v = OwnAfter(own, list, T, to)
    PROVE  IsNext(own, list, T, U, z, to, o, v)
<1>1. list[z] \in TokenIds OBVIOUS
<1>2. o \in Owners BY DEF OwnAfter, Owners
<1>3. \A x \in U : list[x] # list[z] BY DEF Distinct
<1>4. o[list[z]] = own[list[z]] BY <1>1, <1>3 DEF OwnAfter
<1>5. Assigns(v, o, list[z], to) BY <1>1 DEF OwnAfter, Owners, Assigns
<1>6. PICK n \in Nat : n = Len(list) OBVIOUS
<1>7. DOMAIN list = 1..n BY <1>6
<1>8. IsFiniteSet(1..n) /\ Cardinality(1..n) = n BY FS_Interval
<1>9. IsFiniteSet(T) /\ Cardinality(T) <= n BY <1>7, <1>8, FS_Subset
<1>10. Cardinality(T) \in Nat /\ Cardinality(U) \in Nat BY <1>9, FS_RemoveElement, FS_CardinalityType
<1>11. Cardinality(U) = Cardinality(T) - 1 BY <1>9, FS_RemoveElement
<1>12. Cardinality(T) = Cardinality(U) + 1 BY <1>10, <1>11
<1>13. QED BY <1>1, <1>2, <1>4, <1>5, <1>6, <1>9, <1>10, <1>12 DEF IsNext

\* One token changes hands.
LEMMA HandOver ==
    ASSUME NEW own \in Owners, NEW list \in Seq(TokenIds), Distinct(list), NEW T \in SUBSET DOMAIN list, NEW z \in T,
           NEW U, U = T \ {z}, NEW from \in Collectors, NEW to \in Collectors, NEW n \in Nat,
           n + Len(list) <= MaxOwned, own[list[z]] = from, NEW e \in Reached(own, list, U, to, n),
           NEW r, r = EnumerableRemove(e, from, list[z]), NEW y, y = EnumerableAdd(r, to, list[z])
    PROVE  y \in Reached(own, list, T, to, n)
<1>0. PICK i \in TokenIds : i = list[z] OBVIOUS
<1>1. PICK o : o = OwnAfter(own, list, U, to) OBVIOUS
<1>2. PICK v : v = OwnAfter(own, list, T, to) OBVIOUS
<1>a. IsNext(own, list, T, U, z, to, o, v) BY <1>1, <1>2, OneMoreOwned
<1>3. /\ o \in Owners /\ o[i] = from /\ Assigns(v, o, i, to)
      /\ Cardinality(T) = Cardinality(U) + 1 /\ Cardinality(U) \in Nat /\ Cardinality(T) <= Len(list) /\ Len(list) \in Nat
  BY <1>0, <1>a DEF IsNext
<1>4. e \in Enums /\ Listed(e, o) /\ e.balance[to] <= n + Cardinality(U) BY <1>1 DEF Reached
<1>5. MaxOwned \in Nat /\ e.balance[to] \in Nat /\ Nobody \notin Collectors BY <1>4, EnumParts
<1>6. PICK u : Assigns(u, o, i, Nobody)
  <2>1. Assigns([o EXCEPT ![i] = Nobody], o, i, Nobody) BY <1>3 DEF Assigns, Owners
  <2>2. QED BY <2>1
<1>7. r = EnumerableRemove(e, from, i) /\ y = EnumerableAdd(r, to, i) BY <1>0
<1>8. /\ Listed(r, u) /\ r.balance[from] = e.balance[from] - 1
      /\ \A c \in Collectors : c # from => r.balance[c] = e.balance[c]
  BY <1>3, <1>4, <1>6, <1>7, RemoveLists
<1>9. u \in Owners /\ u[i] = Nobody BY <1>6 DEF Assigns
<1>10. Assigns(v, u, i, to) BY <1>3, <1>6 DEF Assigns
<1>11. r.balance[to] <= e.balance[to] /\ r.balance[to] \in Int
  <2>1. CASE to = from BY <1>5, <1>8, <2>1
  <2>2. CASE to # from BY <1>5, <1>8, <2>2
  <2>3. QED BY <2>1, <2>2
<1>12. r.balance[to] < MaxOwned BY <1>3, <1>4, <1>5, <1>11
<1>13. Listed(y, v) /\ y.balance[to] = r.balance[to] + 1 BY <1>7, <1>8, <1>9, <1>10, <1>12, AddLists
<1>14. y.balance[to] <= n + Cardinality(T) BY <1>3, <1>4, <1>5, <1>11, <1>13
<1>15. QED BY <1>2, <1>13, <1>14 DEF Reached, Listed

\* One token is minted.
LEMMA OneMinted ==
    ASSUME NEW own \in Owners, NEW list \in Seq(TokenIds), Distinct(list), NEW T \in SUBSET DOMAIN list, NEW z \in T,
           NEW U, U = T \ {z}, NEW to \in Collectors, NEW n \in Nat, n + Len(list) <= MaxOwned,
           own[list[z]] = Nobody, NEW e \in Reached(own, list, U, to, n), NEW y, y = EnumerableAdd(e, to, list[z])
    PROVE  y \in Reached(own, list, T, to, n)
<1>0. PICK i \in TokenIds : i = list[z] OBVIOUS
<1>1. PICK o : o = OwnAfter(own, list, U, to) OBVIOUS
<1>2. PICK v : v = OwnAfter(own, list, T, to) OBVIOUS
<1>a. IsNext(own, list, T, U, z, to, o, v) BY <1>1, <1>2, OneMoreOwned
<1>3. /\ o \in Owners /\ o[i] = Nobody /\ Assigns(v, o, i, to)
      /\ Cardinality(T) = Cardinality(U) + 1 /\ Cardinality(U) \in Nat /\ Cardinality(T) <= Len(list) /\ Len(list) \in Nat
  BY <1>0, <1>a DEF IsNext
<1>4. e \in Enums /\ Listed(e, o) /\ e.balance[to] <= n + Cardinality(U) BY <1>1 DEF Reached
<1>5. MaxOwned \in Nat /\ e.balance[to] \in Nat BY <1>4, EnumParts
<1>6. y = EnumerableAdd(e, to, i) BY <1>0
<1>7. e.balance[to] < MaxOwned BY <1>3, <1>4, <1>5
<1>8. Listed(y, v) /\ y.balance[to] = e.balance[to] + 1 BY <1>3, <1>4, <1>6, <1>7, AddLists
<1>9. y.balance[to] <= n + Cardinality(T) BY <1>3, <1>4, <1>5, <1>8
<1>10. QED BY <1>2, <1>8, <1>9 DEF Reached, Listed

\* Nothing is assigned before the first position, and Reached[T] is a family of sets.
ReachedFamily(own, list, to, n) == [T \in SUBSET DOMAIN list |-> Reached(own, list, T, to, n)]

\* Before the first token of a batch the enumeration is the old one.
LEMMA FamilyStarts ==
    ASSUME NEW own \in Owners, NEW list \in Seq(TokenIds), NEW to \in Collectors, NEW e, Listed(e, own),
           NEW n, n = e.balance[to]
    PROVE  e \in ReachedFamily(own, list, to, n)[{}] /\ n \in Nat
<1>1. OwnAfter(own, list, {}, to) = own BY DEF OwnAfter, Owners
<1>2. e \in Enums /\ n \in Nat BY EnumParts DEF Listed
<1>3. Cardinality({}) = 0 BY FS_EmptySet
<1>4. e.balance[to] <= n + Cardinality({}) BY <1>2, <1>3
<1>5. e \in Reached(own, list, {}, to, n) BY <1>1, <1>2, <1>4 DEF Reached
<1>6. {} \in SUBSET DOMAIN list OBVIOUS
<1>7. QED BY <1>2, <1>5, <1>6 DEF ReachedFamily

\* A batch of transfers keeps the enumeration in step with the owners.
LEMMA HandedLists ==
    ASSUME NEW own \in Owners, NEW list \in Seq(TokenIds), Distinct(list), NEW from \in Collectors, NEW to \in Collectors,
           \A x \in DOMAIN list : own[list[x]] = from, NEW e, Listed(e, own), e.balance[to] + Len(list) <= MaxOwned
    PROVE  Listed(Handed(e, from, to, list), OwnAfter(own, list, DOMAIN list, to))
<1>0. PICK len \in Nat : len = Len(list) /\ DOMAIN list = 1..len OBVIOUS
<1>1. PICK n : n = e.balance[to] OBVIOUS
<1> DEFINE S == DOMAIN list
           Top(T) == CHOOSE x \in T : \A y \in T : x >= y
           Op(x, i) == EnumerableAdd(EnumerableRemove(x, from, i), to, i)
           Step(g) == [T \in SUBSET S |-> IF T = {} THEN e ELSE Op(g[T \ {Top(T)}], list[Top(T)])]
           G == CHOOSE g : g = Step(g)
           pick == [T \in SUBSET S |-> Top(T)]
           X == ReachedFamily(own, list, to, n)
           All == UNION {X[T] : T \in SUBSET S}
           step == [z \in S |-> [x \in All |-> Op(x, list[z])]]
<1>2. IsFiniteSet(S) /\ \A T \in SUBSET S : T # {} => Top(T) \in T BY <1>0, Positions
<1>3. \A T \in SUBSET S : pick[T] = Top(T) OBVIOUS
<1>4. \A T \in SUBSET S : T # {} => pick[T] \in T BY <1>2, <1>3
<1>5. e \in X[{}] /\ n \in Nat BY <1>1, FamilyStarts
<1>6. \A T \in SUBSET S : X[T] = Reached(own, list, T, to, n) BY DEF ReachedFamily
<1>7. ASSUME NEW T \in SUBSET S, T # {}, NEW x \in X[T \ {Top(T)}]
      PROVE  Op(x, list[Top(T)]) \in X[T] /\ step[Top(T)][x] = Op(x, list[Top(T)])
  <2>1. PICK z \in T : z = Top(T) BY <1>2, <1>7
  <2>2. PICK U \in SUBSET S : U = T \ {z} OBVIOUS
  <2>3. x \in Reached(own, list, U, to, n) BY <1>6, <1>7, <2>1, <2>2
  <2>4. own[list[z]] = from OBVIOUS
  <2>5. n + Len(list) <= MaxOwned BY <1>1
  <2> HIDE DEF Top, S
  <2>6. Op(x, list[z]) \in Reached(own, list, T, to, n)
    <3>1. PICK r : r = EnumerableRemove(x, from, list[z]) OBVIOUS
    <3>2. PICK y : y = EnumerableAdd(r, to, list[z]) OBVIOUS
    <3>3. T \in SUBSET DOMAIN list BY DEF S
    <3>4. y \in Reached(own, list, T, to, n) BY <1>5, <2>2, <2>3, <2>4, <2>5, <3>1, <3>2, <3>3, HandOver
    <3>5. QED BY <3>1, <3>2, <3>4
  <2>7. z \in S /\ x \in All BY <1>7, <2>1, <2>2
  <2> HIDE DEF Op, All, X
  <2>8. step[z][x] = Op(x, list[z]) BY <2>7
  <2>9. QED BY <1>6, <2>1, <2>6, <2>8
<1>8. \A T \in SUBSET S : T # {} => \A x \in X[T \ {pick[T]}] : step[pick[T]][x] \in X[T]
  <2> HIDE DEF X, step, Op, Top, pick, S
  <2>1. QED BY <1>3, <1>7, ZenonT(60)
<1>9. \E F : F = Step(F)
  <2> HIDE DEF X, step, Op, Top, pick, S
  <2>1. PICK F : IsFold(F, S, X, e, pick, step) BY <1>2, <1>4, <1>5, <1>8, FoldTableExists
  <2>2. /\ F = [T \in SUBSET S |-> F[T]] /\ \A T \in SUBSET S : F[T] \in X[T]
        /\ \A T \in SUBSET S : F[T] = IF T = {} THEN e ELSE step[pick[T]][F[T \ {pick[T]}]]
    BY <2>1 DEF IsFold
  <2>3. ASSUME NEW T \in SUBSET S PROVE F[T] = IF T = {} THEN e ELSE Op(F[T \ {Top(T)}], list[Top(T)])
    <3>1. CASE T = {} BY <2>2, <3>1
    <3>2. CASE T # {}
      <4>1. T \ {Top(T)} \in SUBSET S /\ F[T \ {Top(T)}] \in X[T \ {Top(T)}] BY <2>2
      <4>2. F[T] = step[Top(T)][F[T \ {Top(T)}]] BY <1>3, <2>2, <3>2
      <4>3. QED BY <1>7, <3>2, <4>1, <4>2
    <3>3. QED BY <3>1, <3>2
  <2>4. F = Step(F) BY <2>2, <2>3
  <2>5. QED BY <2>4
<1>10. G = Step(G)
  <2> HIDE DEF Step
  <2>1. QED BY <1>9
<1>11. Handed(e, from, to, list) = G[S] BY DEF Handed, FoldLeft, MapThenFoldSet, Max
<1>12. G[S] \in X[S]
  <2> HIDE DEF X, step, Op, Top, pick, S, G
  <2>1. G[{}] = e BY <1>10
  <2>2. ASSUME NEW T \in SUBSET S, T # {}, G[T \ {pick[T]}] \in X[T \ {pick[T]}] PROVE G[T] \in X[T]
    <3>1. G[T] = Op(G[T \ {Top(T)}], list[Top(T)]) BY <1>10, <2>2
    <3>2. QED BY <1>3, <1>7, <2>2, <3>1
  <2>3. QED BY <1>2, <1>4, <1>5, <2>1, <2>2, FoldStays
<1>13. G[S] \in Reached(own, list, S, to, n) BY <1>6, <1>12
<1> HIDE DEF G
<1>14. QED BY <1>11, <1>13 DEF Reached

\* So does a batch of mints.
LEMMA MintedLists ==
    ASSUME NEW own \in Owners, NEW list \in Seq(TokenIds), Distinct(list), NEW to \in Collectors,
           \A x \in DOMAIN list : own[list[x]] = Nobody, NEW e, Listed(e, own), e.balance[to] + Len(list) <= MaxOwned
    PROVE  Listed(FoldLeft(LAMBDA acc, i : EnumerableAdd(acc, to, i), e, list), OwnAfter(own, list, DOMAIN list, to))
<1>0. PICK len \in Nat : len = Len(list) /\ DOMAIN list = 1..len OBVIOUS
<1>1. PICK n : n = e.balance[to] OBVIOUS
<1> DEFINE S == DOMAIN list
           Top(T) == CHOOSE x \in T : \A y \in T : x >= y
           Op(x, i) == EnumerableAdd(x, to, i)
           Step(g) == [T \in SUBSET S |-> IF T = {} THEN e ELSE Op(g[T \ {Top(T)}], list[Top(T)])]
           G == CHOOSE g : g = Step(g)
           pick == [T \in SUBSET S |-> Top(T)]
           X == ReachedFamily(own, list, to, n)
           All == UNION {X[T] : T \in SUBSET S}
           step == [z \in S |-> [x \in All |-> Op(x, list[z])]]
<1>2. IsFiniteSet(S) /\ \A T \in SUBSET S : T # {} => Top(T) \in T BY <1>0, Positions
<1>3. \A T \in SUBSET S : pick[T] = Top(T) OBVIOUS
<1>4. \A T \in SUBSET S : T # {} => pick[T] \in T BY <1>2, <1>3
<1>5. e \in X[{}] /\ n \in Nat BY <1>1, FamilyStarts
<1>6. \A T \in SUBSET S : X[T] = Reached(own, list, T, to, n) BY DEF ReachedFamily
<1>7. ASSUME NEW T \in SUBSET S, T # {}, NEW x \in X[T \ {Top(T)}]
      PROVE  Op(x, list[Top(T)]) \in X[T] /\ step[Top(T)][x] = Op(x, list[Top(T)])
  <2>1. PICK z \in T : z = Top(T) BY <1>2, <1>7
  <2>2. PICK U \in SUBSET S : U = T \ {z} OBVIOUS
  <2>3. x \in Reached(own, list, U, to, n) BY <1>6, <1>7, <2>1, <2>2
  <2>4. own[list[z]] = Nobody OBVIOUS
  <2>5. n + Len(list) <= MaxOwned BY <1>1
  <2> HIDE DEF Top, S
  <2>6. Op(x, list[z]) \in Reached(own, list, T, to, n)
    <3>1. PICK y : y = EnumerableAdd(x, to, list[z]) OBVIOUS
    <3>2. T \in SUBSET DOMAIN list BY DEF S
    <3>3. y \in Reached(own, list, T, to, n) BY <1>5, <2>2, <2>3, <2>4, <2>5, <3>1, <3>2, OneMinted
    <3>4. QED BY <3>1, <3>3
  <2>7. z \in S /\ x \in All BY <1>7, <2>1, <2>2
  <2> HIDE DEF Op, All, X
  <2>8. step[z][x] = Op(x, list[z]) BY <2>7
  <2>9. QED BY <1>6, <2>1, <2>6, <2>8
<1>8. \A T \in SUBSET S : T # {} => \A x \in X[T \ {pick[T]}] : step[pick[T]][x] \in X[T]
  <2> HIDE DEF X, step, Op, Top, pick, S
  <2>1. QED BY <1>3, <1>7, ZenonT(60)
<1>9. \E F : F = Step(F)
  <2> HIDE DEF X, step, Op, Top, pick, S
  <2>1. PICK F : IsFold(F, S, X, e, pick, step) BY <1>2, <1>4, <1>5, <1>8, FoldTableExists
  <2>2. /\ F = [T \in SUBSET S |-> F[T]] /\ \A T \in SUBSET S : F[T] \in X[T]
        /\ \A T \in SUBSET S : F[T] = IF T = {} THEN e ELSE step[pick[T]][F[T \ {pick[T]}]]
    BY <2>1 DEF IsFold
  <2>3. ASSUME NEW T \in SUBSET S PROVE F[T] = IF T = {} THEN e ELSE Op(F[T \ {Top(T)}], list[Top(T)])
    <3>1. CASE T = {} BY <2>2, <3>1
    <3>2. CASE T # {}
      <4>1. T \ {Top(T)} \in SUBSET S /\ F[T \ {Top(T)}] \in X[T \ {Top(T)}] BY <2>2
      <4>2. F[T] = step[Top(T)][F[T \ {Top(T)}]] BY <1>3, <2>2, <3>2
      <4>3. QED BY <1>7, <3>2, <4>1, <4>2
    <3>3. QED BY <3>1, <3>2
  <2>4. F = Step(F) BY <2>2, <2>3
  <2>5. QED BY <2>4
<1>10. G = Step(G)
  <2> HIDE DEF Step
  <2>1. QED BY <1>9
<1>11. FoldLeft(LAMBDA acc, i : EnumerableAdd(acc, to, i), e, list) = G[S] BY DEF FoldLeft, MapThenFoldSet, Max
<1>12. G[S] \in X[S]
  <2> HIDE DEF X, step, Op, Top, pick, S, G
  <2>1. G[{}] = e BY <1>10
  <2>2. ASSUME NEW T \in SUBSET S, T # {}, G[T \ {pick[T]}] \in X[T \ {pick[T]}] PROVE G[T] \in X[T]
    <3>1. G[T] = Op(G[T \ {Top(T)}], list[Top(T)]) BY <1>10, <2>2
    <3>2. QED BY <1>3, <1>7, <2>2, <3>1
  <2>3. QED BY <1>2, <1>4, <1>5, <2>1, <2>2, FoldStays
<1>13. G[S] \in Reached(own, list, S, to, n) BY <1>6, <1>12
<1> HIDE DEF G
<1>14. QED BY <1>11, <1>13 DEF Reached

\* A finite set of numbers can be listed in increasing order.
LEMMA IncreasingList ==
    ASSUME NEW S \in SUBSET Int, IsFiniteSet(S)
    PROVE  \E l \in [1..Cardinality(S) -> S] : \A x, y \in 1..Cardinality(S) : x < y => l[x] < l[y]
<1> DEFINE Good(T) == \E l \in [1..Cardinality(T) -> T] : \A x, y \in 1..Cardinality(T) : x < y => l[x] < l[y]
           D == {T \in SUBSET S : Good(T)}
<1>1. ASSUME NEW T \in SUBSET S, \A U \in SUBSET T : U # T => U \in D PROVE T \in D
  <2>1. CASE T = {}
    <3>1. Cardinality(T) = 0 BY <2>1, FS_EmptySet
    <3>2. 1..Cardinality(T) = {} BY <3>1
    <3> DEFINE l == [x \in {} |-> 0]
    <3>3. l \in [{} -> T] OBVIOUS
    <3>4. QED BY <3>2, <3>3
  <2>2. CASE T # {}
    <3>1. PICK m \in T : \A y \in T : m >= y BY <2>2, TopExists
    <3> DEFINE U == T \ {m}
    <3>2. U \in D BY <1>1, <3>1
    <3>3. IsFiniteSet(T) BY FS_Subset
    <3>4. PICK k \in Nat : k = Cardinality(U) BY <3>3, FS_RemoveElement, FS_CardinalityType
    <3>5. Cardinality(T) = k + 1
      <4>1. Cardinality(U) = Cardinality(T) - 1 BY <3>3, FS_RemoveElement
      <4>2. Cardinality(T) \in Nat BY <3>3, FS_CardinalityType
      <4>3. QED BY <3>4, <4>1, <4>2
    <3>6. PICK l \in [1..k -> U] : \A x, y \in 1..k : x < y => l[x] < l[y] BY <3>2, <3>4
    <3> DEFINE p == [x \in 1..(k + 1) |-> IF x = k + 1 THEN m ELSE l[x]]
    <3>7. \A x \in 1..(k + 1) : x # k + 1 => x \in 1..k OBVIOUS
    <3>8. p \in [1..(k + 1) -> T] BY <3>1, <3>6, <3>7
    <3>9. ASSUME NEW x \in 1..(k + 1), NEW y \in 1..(k + 1), x < y PROVE p[x] < p[y]
      <4>1. x \in 1..k BY <3>9
      <4>2. l[x] \in U /\ p[x] = l[x] BY <3>6, <4>1
      <4>3. CASE y = k + 1
        <5>1. p[y] = m BY <4>3
        <5>2. l[x] \in Int /\ m \in Int /\ m >= l[x] /\ m # l[x] BY <3>1, <4>2
        <5>3. QED BY <4>2, <5>1, <5>2
      <4>4. CASE y # k + 1
        <5>1. y \in 1..k /\ p[y] = l[y] BY <3>7, <4>4
        <5>2. QED BY <3>6, <3>9, <4>1, <4>2, <5>1
      <4>5. QED BY <4>3, <4>4
    <3> HIDE DEF p
    <3>10. QED BY <3>5, <3>8, <3>9
  <2>3. QED BY <2>1, <2>2
<1>2. S \in D
  <2> HIDE DEF D
  <2>1. QED BY <1>1, SubsetInduction
<1>3. QED BY <1>2

\* There are finitely many token ids.
LEMMA TokenIdsFinite == IsFiniteSet(TokenIds) /\ \A S \in SUBSET TokenIds : IsFiniteSet(S) /\ Cardinality(S) \in Nat
<1>1. MaxTokenId \in Nat BY NftAssumption
<1>2. IsFiniteSet(TokenIds) BY <1>1, FS_Interval DEF TokenIds
<1>3. QED BY <1>2, FS_Subset, FS_CardinalityType

\* The collection starts empty.
LEMMA NftStarts == NftInit => NftInv
<1> SUFFICES ASSUME NftInit, ~repeated
             PROVE  nftOwner \in Owners /\ Listed(Enumeration, nftOwner) /\ totalSupply = Cardinality(OwnedTokens)
  BY DEF NftInv
<1>1. MaxOwned \in Nat /\ Nobody \notin Collectors BY NftAssumption
<1>2. nftOwner \in Owners BY DEF NftInit, Owners
<1>3. OwnedTokens = {} BY DEF NftInit, OwnedTokens
<1>4. totalSupply = Cardinality(OwnedTokens) BY <1>3, FS_EmptySet DEF NftInit
<1>5. Enumeration \in Enums BY <1>1 DEF NftInit, Enumeration, Enums
<1>6. \A a \in Collectors : Enumeration.balance[a] = 0 BY DEF Enumeration, NftInit
<1>7. \A x \in Slots : ~(x < 0) BY <1>1 DEF Slots
<1>8. \A i \in TokenIds : nftOwner[i] \notin Collectors BY <1>1 DEF NftInit
<1>9. \A a \in Collectors : ListsOf(Enumeration, nftOwner, a) BY <1>6, <1>7, <1>8 DEF ListsOf
<1>10. QED BY <1>2, <1>4, <1>5, <1>9 DEF Listed

\* The new enumeration is the one that is set.
LEMMA EnumerationSet ==
    ASSUME NEW e \in Enums, SetEnumeration(e)
    PROVE  Enumeration' = e
<1>1. e = [balance |-> e.balance, tokens |-> e.tokens, index |-> e.index] BY EnumParts
<1>2. QED BY <1>1 DEF SetEnumeration, Enumeration

\* mint adds one token to its owner's list.
LEMMA MintKeeps ==
    ASSUME NftInv, ~repeated, NEW to \in Collectors, NEW i \in TokenIds, NEW bps, MintNft(to, i, bps)
    PROVE  NftInv'
<1> DEFINE e == Enumeration
           y == EnumerableAdd(e, to, i)
<1>1. nftOwner \in Owners /\ Listed(e, nftOwner) /\ totalSupply = Cardinality(OwnedTokens) BY DEF NftInv
<1>2. /\ nftOwner[i] = Nobody /\ nftBalance[to] < MaxOwned /\ nftOwner' = [nftOwner EXCEPT ![i] = to]
      /\ totalSupply' = totalSupply + 1 /\ SetEnumeration(y)
  BY DEF MintNft
<1>3. e.balance[to] < MaxOwned BY <1>2 DEF Enumeration
<1>4. Assigns(nftOwner', nftOwner, i, to) BY <1>1, <1>2 DEF Assigns, Owners
<1> HIDE DEF e
<1>5. Listed(y, nftOwner') /\ nftOwner' \in Owners
  <2>1. nftOwner' \in Owners BY <1>4 DEF Assigns
  <2>2. PICK z : z = y OBVIOUS
  <2>3. Listed(z, nftOwner') BY <1>1, <1>2, <1>3, <1>4, <2>2, AddLists
  <2>4. QED BY <2>1, <2>2, <2>3
<1> HIDE DEF y
<1>6. Enumeration' = y BY <1>2, <1>5, EnumerationSet DEF Listed
<1>7. Nobody \notin Collectors BY NftAssumption
<1>8. OwnedTokens' = OwnedTokens \cup {i} /\ i \notin OwnedTokens BY <1>1, <1>2, <1>7 DEF OwnedTokens, Owners
<1>9. IsFiniteSet(OwnedTokens) BY TokenIdsFinite DEF OwnedTokens
<1>10. Cardinality(OwnedTokens') = Cardinality(OwnedTokens) + 1 BY <1>8, <1>9, FS_AddElement
<1>11. QED BY <1>1, <1>2, <1>5, <1>6, <1>10 DEF NftInv

\* burn removes one token from its owner's list.
LEMMA BurnKeeps ==
    ASSUME NftInv, ~repeated, NEW from \in Collectors, NEW i \in TokenIds, BurnNft(from, i)
    PROVE  NftInv'
<1> DEFINE e == Enumeration
           y == EnumerableRemove(e, from, i)
<1>1. nftOwner \in Owners /\ Listed(e, nftOwner) /\ totalSupply = Cardinality(OwnedTokens) BY DEF NftInv
<1>2. /\ nftOwner[i] = from /\ nftOwner' = [nftOwner EXCEPT ![i] = Nobody]
      /\ totalSupply' = totalSupply - 1 /\ SetEnumeration(y)
  BY DEF BurnNft
<1>4. Assigns(nftOwner', nftOwner, i, Nobody) BY <1>1, <1>2 DEF Assigns, Owners
<1> HIDE DEF e
<1>5. Listed(y, nftOwner') /\ nftOwner' \in Owners
  <2>1. nftOwner' \in Owners BY <1>4 DEF Assigns
  <2>2. PICK z : z = y OBVIOUS
  <2>3. Listed(z, nftOwner') BY <1>1, <1>2, <1>4, <2>2, RemoveLists
  <2>4. QED BY <2>1, <2>2, <2>3
<1> HIDE DEF y
<1>6. Enumeration' = y BY <1>2, <1>5, EnumerationSet DEF Listed
<1>7. Nobody \notin Collectors BY NftAssumption
<1>8. OwnedTokens' = OwnedTokens \ {i} /\ i \in OwnedTokens BY <1>1, <1>2, <1>7 DEF OwnedTokens, Owners
<1>9. IsFiniteSet(OwnedTokens) BY TokenIdsFinite DEF OwnedTokens
<1>10. Cardinality(OwnedTokens') = Cardinality(OwnedTokens) - 1 BY <1>8, <1>9, FS_RemoveElement
<1>11. QED BY <1>1, <1>2, <1>5, <1>6, <1>10 DEF NftInv

\* transfer, transfer_from and transfer_batch.
LEMMA MoveKeeps ==
    ASSUME NftInv, NEW from \in Collectors, NEW to \in Collectors, NEW list \in Seq(TokenIds),
           MoveTokens(from, to, list)
    PROVE  NftInv'
<1> DEFINE e == Enumeration
           y == Handed(e, from, to, list)
           moved == {list[x] : x \in DOMAIN list}
<1> SUFFICES ASSUME ~repeated'
             PROVE  /\ nftOwner' \in Owners /\ Listed(Enumeration', nftOwner')
                    /\ totalSupply' = Cardinality(OwnedTokens')
  BY DEF NftInv
<1>1. ~repeated /\ Len(list) = Cardinality(moved) BY DEF MoveTokens
<1>2. nftOwner \in Owners /\ Listed(e, nftOwner) /\ totalSupply = Cardinality(OwnedTokens) BY <1>1 DEF NftInv
<1>3. /\ nftBalance[to] + Len(list) <= MaxOwned /\ \A i \in moved : nftOwner[i] = from
      /\ nftOwner' = [i \in TokenIds |-> IF i \in moved THEN to ELSE nftOwner[i]]
      /\ SetEnumeration(y) /\ totalSupply' = totalSupply
  BY DEF MoveTokens
<1>4. Distinct(list)
  <2>1. PICK n \in Nat : n = Len(list) /\ DOMAIN list = 1..n OBVIOUS
  <2>2. list \in Surjection(DOMAIN list, moved) BY DEF Surjection
  <2>a. IsFiniteSet(1..n) /\ Cardinality(1..n) = n BY FS_Interval
  <2>3. IsFiniteSet(DOMAIN list) /\ Cardinality(DOMAIN list) = n BY <2>1, <2>a
  <2> HIDE DEF moved
  <2>4. list \in Injection(DOMAIN list, moved) BY <1>1, <2>1, <2>2, <2>3, FS_SurjSameCardinalityImpliesInj
  <2>5. QED BY <2>4 DEF Distinct, Injection, IsInjective
<1>5. \A x \in DOMAIN list : nftOwner[list[x]] = from BY <1>3
<1>6. e.balance[to] + Len(list) <= MaxOwned BY <1>3 DEF Enumeration
<1>7. nftOwner' = OwnAfter(nftOwner, list, DOMAIN list, to)
  <2>1. \A i \in TokenIds : i \in moved <=> \E x \in DOMAIN list : list[x] = i OBVIOUS
  <2> HIDE DEF moved
  <2>2. QED BY <1>3, <2>1 DEF OwnAfter
<1> HIDE DEF e
<1>8. Listed(y, nftOwner') BY <1>2, <1>4, <1>5, <1>6, <1>7, HandedLists
<1> HIDE DEF y
<1>9. Enumeration' = y BY <1>3, <1>8, EnumerationSet DEF Listed
<1>10. nftOwner' \in Owners BY <1>2, <1>3 DEF Owners
<1>11. Nobody \notin Collectors BY NftAssumption
<1>12. OwnedTokens' = OwnedTokens
  <2>1. \A i \in TokenIds : nftOwner'[i] # Nobody <=> nftOwner[i] # Nobody BY <1>3, <1>11
  <2>2. QED BY <2>1 DEF OwnedTokens
<1>13. QED BY <1>2, <1>3, <1>8, <1>9, <1>10, <1>12

\* mint_batch takes ids that are free.
LEMMA MintBatchKeeps ==
    ASSUME NftInv, ~repeated, NEW to \in Collectors, NEW n \in MintCounts, MintBatchNft(to, n)
    PROVE  NftInv'
<1> DEFINE e == Enumeration
           ids == FreeIds(n)
           list == CHOOSE l \in [1..n -> ids] : \A x, y \in 1..n : x < y => l[x] < l[y]
           z == FoldLeft(LAMBDA acc, i : EnumerableAdd(acc, to, i), e, list)
<1>1. nftOwner \in Owners /\ Listed(e, nftOwner) /\ totalSupply = Cardinality(OwnedTokens) BY DEF NftInv
<1>2. /\ Cardinality(ids) = n /\ nftBalance[to] + n <= MaxOwned
      /\ nftOwner' = [i \in TokenIds |-> IF i \in ids THEN to ELSE nftOwner[i]]
      /\ totalSupply' = totalSupply + n /\ SetEnumeration(z)
  BY DEF MintBatchNft
<1>3. ids \in SUBSET TokenIds /\ \A i \in ids : nftOwner[i] = Nobody BY DEF FreeIds
<1>4. n \in Nat BY NftAssumption
<1>5. IsFiniteSet(ids) /\ ids \in SUBSET Int
  <2>1. TokenIds \subseteq Int BY DEF TokenIds
  <2>2. QED BY <1>3, <2>1, TokenIdsFinite
<1> HIDE DEF ids
<1>6. list \in [1..n -> ids] /\ \A x, y \in 1..n : x < y => list[x] < list[y]
  <2>1. \E l \in [1..n -> ids] : \A x, y \in 1..n : x < y => l[x] < l[y] BY <1>2, <1>5, IncreasingList
  <2>2. QED BY <2>1
<1> HIDE DEF list
<1>7. list \in Seq(TokenIds) /\ Len(list) = n /\ DOMAIN list = 1..n
  <2>1. list \in [1..n -> TokenIds] BY <1>3, <1>6
  <2>2. QED BY <1>4, <2>1
<1>8. Distinct(list)
  <2>1. ASSUME NEW x \in 1..n, NEW y \in 1..n, list[x] = list[y] PROVE x = y
    <3>1. list[x] \in Int /\ list[y] \in Int BY <1>5, <1>6
    <3>2. ~(x < y) /\ ~(y < x) BY <1>6, <2>1, <3>1
    <3>3. QED BY <1>4, <3>2
  <2>2. QED BY <1>7, <2>1 DEF Distinct
<1>9. \A i \in ids : \E x \in 1..n : list[x] = i
  <2>1. list \in Injection(1..n, ids) BY <1>6, <1>7, <1>8 DEF Injection, IsInjective, Distinct
  <2>2. IsFiniteSet(1..n) /\ Cardinality(1..n) = n BY <1>4, FS_Interval
  <2>3. list \in Surjection(1..n, ids) BY <1>2, <1>5, <2>1, <2>2, FS_Injection
  <2>4. QED BY <2>3 DEF Surjection
<1>10. nftOwner' = OwnAfter(nftOwner, list, DOMAIN list, to)
  <2>1. \A i \in TokenIds : i \in ids <=> \E x \in DOMAIN list : list[x] = i BY <1>6, <1>7, <1>9
  <2>2. QED BY <1>2, <2>1 DEF OwnAfter
<1>11. \A x \in DOMAIN list : nftOwner[list[x]] = Nobody BY <1>3, <1>6, <1>7
<1>12. e.balance[to] + Len(list) <= MaxOwned BY <1>2, <1>7 DEF Enumeration
<1> HIDE DEF e
<1>13. Listed(z, nftOwner') BY <1>1, <1>7, <1>8, <1>10, <1>11, <1>12, MintedLists
<1> HIDE DEF z
<1>14. Enumeration' = z BY <1>2, <1>13, EnumerationSet DEF Listed
<1>15. nftOwner' \in Owners BY <1>1, <1>2 DEF Owners
<1>16. Nobody \notin Collectors BY NftAssumption
<1>17. OwnedTokens' = OwnedTokens \cup ids /\ OwnedTokens \cap ids = {}
  <2>1. \A i \in TokenIds : nftOwner'[i] # Nobody <=> (nftOwner[i] # Nobody \/ i \in ids) BY <1>2, <1>16
  <2>2. QED BY <1>3, <2>1 DEF OwnedTokens
<1>18. IsFiniteSet(OwnedTokens) /\ Cardinality(OwnedTokens) \in Nat BY TokenIdsFinite DEF OwnedTokens
<1>19. Cardinality(OwnedTokens') = Cardinality(OwnedTokens) + n
  <2>1. Cardinality(OwnedTokens \cup ids) = Cardinality(OwnedTokens) + Cardinality(ids) - Cardinality(OwnedTokens \cap ids)
    BY <1>5, <1>18, FS_Union
  <2>2. Cardinality({}) = 0 BY FS_EmptySet
  <2>3. Cardinality(OwnedTokens \cap ids) = 0 /\ Cardinality(ids) = n BY <1>2, <1>17, <2>2
  <2>4. Cardinality(OwnedTokens \cup ids) = Cardinality(OwnedTokens) + n BY <1>4, <1>18, <2>1, <2>3
  <2>5. QED BY <1>17, <2>4
<1>20. QED BY <1>1, <1>2, <1>13, <1>14, <1>15, <1>19 DEF NftInv

\* Every step of the collection keeps the invariant.
LEMMA NftKeeps == NftInv /\ [NftNext]_nftVars => NftInv'
<1> SUFFICES ASSUME NftInv, [NftNext]_nftVars PROVE NftInv' OBVIOUS
<1>a. ASSUME UNCHANGED <<nftOwner, enumVars, totalSupply, repeated>> PROVE NftInv'
  BY <1>a DEF NftInv, Enumeration, OwnedTokens, enumVars
<1>b. CASE repeated
  <2>1. ASSUME NEW a, NEW n, MintBatchNft(a, n) PROVE repeated' BY <1>b, <2>1, Zenon DEF MintBatchNft
  <2>2. ASSUME NEW a, NEW b, NEW l, MoveTokens(a, b, l) PROVE repeated' BY <1>b, <2>2, Zenon DEF MoveTokens
  <2>3. ASSUME NEW a, NEW i, NEW bps, MintNft(a, i, bps) PROVE repeated'
    <3>1. UNCHANGED repeated BY <2>3 DEF MintNft
    <3>2. QED BY <1>b, <3>1, Zenon
  <2>4. ASSUME NEW i, NEW s, ApproveNft(i, s) PROVE repeated' BY <1>b, <2>4, Zenon DEF ApproveNft
  <2>5. ASSUME NEW a, NEW i, BurnNft(a, i) PROVE repeated' BY <1>b, <2>5, Zenon DEF BurnNft
  <2>6. ASSUME InitializeNft PROVE repeated' BY <1>b, <2>6 DEF InitializeNft
  <2>7. ASSUME UNCHANGED nftVars PROVE repeated' BY <1>b, <2>7, Zenon DEF nftVars, nftOnlyVars
  <2>8. ASSUME NftNext PROVE repeated'
    BY <2>1, <2>2, <2>3, <2>4, <2>5, <2>6, <2>8, Zenon DEF NftNext, TransferNft, TransferBatchNft, TransferFromNft
  <2>9. repeated' BY <2>7, <2>8
  <2>10. QED BY <2>9 DEF NftInv
<1>1. CASE InitializeNft BY <1>1, <1>a DEF InitializeNft
<1>2. ASSUME ~repeated, NEW a \in Collectors, NEW i \in TokenIds, NEW bps, MintNft(a, i, bps) PROVE NftInv'
  BY <1>2, MintKeeps
<1>3. ASSUME ~repeated, NEW a \in Collectors, NEW n \in MintCounts, MintBatchNft(a, n) PROVE NftInv'
  BY <1>3, MintBatchKeeps
<1>4. ASSUME NEW a \in Collectors, NEW b \in Collectors, NEW i \in TokenIds, MoveTokens(a, b, <<i>>) PROVE NftInv'
  <2>1. <<i>> \in Seq(TokenIds) OBVIOUS
  <2>2. QED BY <1>4, <2>1, MoveKeeps
<1>5. ASSUME NEW a \in Collectors, NEW b \in Collectors, NEW list \in TokenLists, MoveTokens(a, b, list) PROVE NftInv'
  <2>1. list \in Seq(TokenIds) BY NftAssumption DEF TokenIds
  <2>2. QED BY <1>5, <2>1, MoveKeeps
<1>6. CASE \E i \in TokenIds, s \in Collectors : ApproveNft(i, s) BY <1>6, <1>a DEF ApproveNft
<1>7. ASSUME ~repeated, NEW a \in Collectors, NEW i \in TokenIds, BurnNft(a, i) PROVE NftInv' BY <1>7, BurnKeeps
<1>8. CASE UNCHANGED nftVars BY <1>8, <1>a DEF nftVars, nftOnlyVars
<1>9. CASE ~repeated /\ NftNext
  BY <1>1, <1>2, <1>3, <1>4, <1>5, <1>6, <1>7, <1>9 DEF NftNext, TransferNft, TransferBatchNft, TransferFromNft
<1>10. QED BY <1>8, <1>9, <1>b

\* The invariant is what the property asks.
LEMMA ListedAgrees == NftInv => EnumerationAgrees
<1> SUFFICES ASSUME nftOwner \in Owners, Listed(Enumeration, nftOwner), totalSupply = Cardinality(OwnedTokens),
                    NEW a \in Collectors
             PROVE  /\ nftBalance[a] = Cardinality(OwnedBy(a))
                    /\ \A i \in OwnedBy(a) : ownedIndex[i] \in 0..(nftBalance[a] - 1) /\ ownerTokens[a][ownedIndex[i]] = i
  BY DEF NftInv, EnumerationAgrees, OwnedTokens
<1>1. Enumeration \in Enums /\ ListsOf(Enumeration, nftOwner, a) BY DEF Listed
<1>2. PICK n \in Nat : n = nftBalance[a] /\ n <= MaxOwned BY <1>1, EnumParts DEF Enumeration
<1>3. MaxOwned \in Nat /\ \A x : x \in Slots <=> x \in Nat /\ x <= MaxOwned BY <1>1, EnumParts
<1>4. \A i \in OwnedBy(a) : /\ i \in TokenIds /\ ownedIndex[i] \in Nat /\ ownedIndex[i] < n
                            /\ ownerTokens[a][ownedIndex[i]] = i
  BY <1>1, <1>2 DEF ListsOf, OwnedBy, Enumeration
<1>5. \A x \in 0..(n - 1) : ownerTokens[a][x] \in OwnedBy(a) /\ ownedIndex[ownerTokens[a][x]] = x
  <2>1. SUFFICES ASSUME NEW x \in 0..(n - 1)
                 PROVE  ownerTokens[a][x] \in OwnedBy(a) /\ ownedIndex[ownerTokens[a][x]] = x
    OBVIOUS
  <2>2. x \in Slots /\ x < n BY <1>2, <1>3
  <2>3. QED BY <1>1, <1>2, <2>2 DEF ListsOf, OwnedBy, Enumeration
<1>6. \A i \in OwnedBy(a) : ownedIndex[i] \in 0..(n - 1) BY <1>4
<1> DEFINE f == [x \in 0..(n - 1) |-> ownerTokens[a][x]]
<1>7. f \in Bijection(0..(n - 1), OwnedBy(a))
  <2>1. f \in [0..(n - 1) -> OwnedBy(a)] BY <1>5
  <2>2. \A x, y \in 0..(n - 1) : f[x] = f[y] => x = y BY <1>5
  <2>3. \A i \in OwnedBy(a) : \E x \in 0..(n - 1) : f[x] = i BY <1>4, <1>6
  <2> HIDE DEF f
  <2>4. QED BY <2>1, <2>2, <2>3 DEF Bijection, Injection, Surjection, IsInjective
<1>8. IsFiniteSet(0..(n - 1)) /\ Cardinality(0..(n - 1)) = n
  <2>1. 0 \in Int /\ n - 1 \in Int OBVIOUS
  <2>2. IsFiniteSet(0..(n - 1)) /\ Cardinality(0..(n - 1)) = IF 0 > n - 1 THEN 0 ELSE (n - 1) - 0 + 1
    BY <2>1, FS_Interval
  <2>3. QED BY <2>2
<1>9. Cardinality(OwnedBy(a)) = n
  <2>1. ExistsBijection(0..(n - 1), OwnedBy(a)) BY <1>7 DEF ExistsBijection
  <2>2. QED BY <1>8, <2>1, FS_Bijection
<1>10. QED BY <1>2, <1>4, <1>6, <1>9

\* For any number of tokens and owners, after any mints, transfers and burns: the
\* enumeration lists each owner's tokens once and nothing else, while no batch named
\* a token twice.
THEOREM EnumerationsAgree == NftSpec => []EnumerationAgrees
BY NftStarts, NftKeeps, ListedAgrees, PTL DEF NftSpec

----
(* The marketplace.                                                        *)

Wallets == Collectors \cup {Market, Royal}
Purses == [Wallets -> [PayTokens -> Int]]
Rates == 0..10000

\* A share of an amount, rounded down, is part of it.
LEMMA PartOf ==
    ASSUME NEW a \in Nat, NEW k \in Nat, NEW n \in Nat \ {0}, k <= n
    PROVE  (a * k) \div n \in Nat /\ (a * k) \div n <= a /\ n * ((a * k) \div n) <= a * k
<1>1. a * k \in Nat /\ a * n \in Nat BY SMT
<1>2. a * k <= a * n
  <2>1. PICK d \in Nat : n = k + d BY SMT
  <2>2. a * n = a * k + a * d /\ a * d \in Nat BY <2>1, Distributes
  <2>3. QED BY <1>1, <2>2
<1> DEFINE m == a * k
           q == m \div n
<1>3. m \in Nat BY <1>1
<1> HIDE DEF m
<1>4. q \in Nat /\ n * q <= m /\ m < n * q + n BY <1>3
<1>5. n * q <= a * n /\ a * n = n * a BY <1>1, <1>2, <1>4 DEF m
<1>6. q <= a
  <2> HIDE DEF q
  <2> SUFFICES ASSUME q > a PROVE FALSE BY <1>4
  <2>1. PICK d \in Nat : q = a + 1 + d BY <1>4
  <2>2. n * q = n * a + n * (1 + d) BY <2>1, Distributes
  <2>3. n * (1 + d) = n + n * d /\ n * d \in Nat BY <2>1, Distributes
  <2>4. n * a \in Nat /\ n * q \in Nat BY <1>4
  <2>5. QED BY <1>5, <2>2, <2>3, <2>4
<1>7. QED BY <1>4, <1>6 DEF m

Ledgers == [ok : BOOLEAN, funds : Purses]

\* r is what the books b become when x of token t moves.
Moved(b, r, from, to, t, x) ==
    /\ r \in Ledgers
    /\ \A a \in Wallets, s \in PayTokens :
         r.funds[a][s] = b.funds[a][s] + (IF a = to /\ s = t THEN x ELSE 0) - (IF a = from /\ s = t THEN x ELSE 0)

\* r is what the books b become when payer pays the price, cut going to the royalty.
SoldTo(b, r, payer, seller, t, price, cut) ==
    /\ r \in Ledgers
    /\ \A a \in Wallets, s \in PayTokens :
         r.funds[a][s] = b.funds[a][s] + (IF a = seller /\ s = t THEN price - cut ELSE 0)
                           + (IF a = Royal /\ s = t THEN cut ELSE 0) - (IF a = payer /\ s = t THEN price ELSE 0)

\* A payment takes x from one wallet and puts it into another.
LEMMA PaysMoves ==
    ASSUME NEW b \in Ledgers, NEW from \in Wallets, NEW to \in Wallets, NEW t \in PayTokens, NEW x \in Int,
           NEW r, r = Pays(b, from, to, t, x)
    PROVE  Moved(b, r, from, to, t, x)
<1>1. PICK f : f = b.funds OBVIOUS
<1>2. PICK g : g = [f EXCEPT ![from][t] = f[from][t] - x] OBVIOUS
<1>3. PICK h : h = [g EXCEPT ![to][t] = g[to][t] + x] OBVIOUS
<1>4. f \in Purses BY <1>1 DEF Ledgers
<1>5. /\ g \in Purses
      /\ \A a \in Wallets, s \in PayTokens : g[a][s] = IF a = from /\ s = t THEN f[a][s] - x ELSE f[a][s]
  BY <1>2, <1>4 DEF Purses
<1>6. /\ h \in Purses
      /\ \A a \in Wallets, s \in PayTokens : h[a][s] = IF a = to /\ s = t THEN g[a][s] + x ELSE g[a][s]
  BY <1>3, <1>5 DEF Purses
<1>7. PICK k \in BOOLEAN : r = [ok |-> k, funds |-> h]
  <2> DEFINE c == b.ok /\ g[from][t] >= 0
  <2>1. c \in BOOLEAN OBVIOUS
  <2>2. r = [ok |-> c, funds |-> h] BY <1>1, <1>2, <1>3 DEF Pays
  <2> HIDE DEF c
  <2>3. QED BY <2>1, <2>2
<1>8. r.funds = h /\ r \in Ledgers BY <1>6, <1>7 DEF Ledgers
<1>9. \A a \in Wallets, s \in PayTokens : f[a][s] \in Int BY <1>4 DEF Purses
<1>10. ASSUME NEW a \in Wallets, NEW s \in PayTokens
       PROVE  r.funds[a][s] = b.funds[a][s] + (IF a = to /\ s = t THEN x ELSE 0) - (IF a = from /\ s = t THEN x ELSE 0)
  <2>1. f[a][s] \in Int BY <1>9
  <2>2. h[a][s] = f[a][s] + (IF a = to /\ s = t THEN x ELSE 0) - (IF a = from /\ s = t THEN x ELSE 0)
    BY <1>5, <1>6, <2>1
  <2>3. QED BY <1>1, <1>8, <2>2
<1>11. QED BY <1>8, <1>10 DEF Moved

\* The payments of a sale: the payer's price goes to the seller, less the royalty.
LEMMA SaleMoves ==
    ASSUME NEW b \in Ledgers, NEW payer \in Wallets, NEW seller \in Wallets, NEW t \in PayTokens,
           NEW price \in Int, NEW cut \in Int,
           NEW r, r = Pays(Pays(b, payer, seller, t, price - cut), payer, Royal, t, cut)
    PROVE  SoldTo(b, r, payer, seller, t, price, cut)
<1>1. PICK y : y = Pays(b, payer, seller, t, price - cut) OBVIOUS
<1>2. PICK x \in Int : x = price - cut OBVIOUS
<1>3. Moved(b, y, payer, seller, t, x) BY <1>1, <1>2, PaysMoves
<1>4. r = Pays(y, payer, Royal, t, cut) /\ Royal \in Wallets BY <1>1 DEF Wallets
<1>5. y \in Ledgers BY <1>3 DEF Moved
<1>6. Moved(y, r, payer, Royal, t, cut) BY <1>4, <1>5, PaysMoves
<1>7. r \in Ledgers BY <1>6 DEF Moved
<1>8. \A a \in Wallets, s \in PayTokens : b.funds[a][s] \in Int BY DEF Ledgers, Purses
<1>9. ASSUME NEW a \in Wallets, NEW s \in PayTokens
      PROVE  r.funds[a][s] = b.funds[a][s] + (IF a = seller /\ s = t THEN price - cut ELSE 0)
                               + (IF a = Royal /\ s = t THEN cut ELSE 0) - (IF a = payer /\ s = t THEN price ELSE 0)
  <2>1. PICK n \in Int : n = b.funds[a][s] BY <1>8
  <2>2. PICK m : m = y.funds[a][s] OBVIOUS
  <2>3. m = n + (IF a = seller /\ s = t THEN x ELSE 0) - (IF a = payer /\ s = t THEN x ELSE 0)
    BY <1>3, <2>1, <2>2 DEF Moved
  <2>4. r.funds[a][s] = m + (IF a = Royal /\ s = t THEN cut ELSE 0) - (IF a = payer /\ s = t THEN cut ELSE 0)
    BY <1>6, <2>2 DEF Moved
  <2>5. PICK w : w = r.funds[a][s] OBVIOUS
  <2>6. w = m + (IF a = Royal /\ s = t THEN cut ELSE 0) - (IF a = payer /\ s = t THEN cut ELSE 0) BY <2>4, <2>5
  <2>7. w = n + (IF a = seller /\ s = t THEN price - cut ELSE 0)
            + (IF a = Royal /\ s = t THEN cut ELSE 0) - (IF a = payer /\ s = t THEN price ELSE 0)
    <3>1. CASE s # t BY <2>3, <2>6, <3>1
    <3>2. CASE s = t /\ a = payer BY <1>2, <2>3, <2>6, <3>2
    <3>3. CASE s = t /\ a # payer BY <1>2, <2>3, <2>6, <3>3
    <3>4. QED BY <3>1, <3>2, <3>3
  <2>8. QED BY <2>1, <2>5, <2>7
<1>10. QED BY <1>7, <1>9 DEF SoldTo

ListingRecords == [terms : ListTerms, seller : Collectors, active : BOOLEAN]
BundleRecords == [terms : BundleTerms, seller : Collectors, active : BOOLEAN]
OfferRecords == [amount : Nat, expires : Nat]
WideRecords == [buyer : Collectors, amount : Nat, expires : Nat, open : BOOLEAN]

\* What MayList asked of every listing.
Priced(l) ==
    /\ listings[l].terms.floor > 0 /\ listings[l].terms.price >= listings[l].terms.floor
    /\ listings[l].terms.start # listings[l].terms.stop => listings[l].terms.stop > listings[l].terms.start

ListingsOK ==
    /\ now \in Nat
    /\ listings \in Seq(ListingRecords) /\ Len(listings) <= MaxListings
    /\ \A l \in DOMAIN listings : Priced(l)

BundlesOK ==
    /\ bundles \in Seq(BundleRecords)
    /\ \A n \in DOMAIN bundles : bundles[n].terms.price > 0 /\ bundles[n].terms.tokens # <<>>

RatesOK ==
    /\ tokenBps \in [TokenIds -> Rates \cup {Nobody}] /\ nftConf.bps \in Rates
    /\ splits \in Seq(Nat) /\ SumFunctionOnSet(splits, DOMAIN splits) <= 10000

HeldOK ==
    /\ offers \in [ListingIds -> [Collectors -> OfferRecords]]
    /\ wideOffers \in Seq(WideRecords)
    /\ marketFunds \in Purses /\ overwritten \in [PayTokens -> Int]

MarketTyped == ListingsOK /\ BundlesOK /\ RatesOK /\ HeldOK

NoOffersAhead == \A l \in ListingIds \ DOMAIN listings : \A b \in Collectors : offers[l][b].amount = 0

MarketInv == MarketTyped /\ NoOffersAhead /\ OffersBacked

\* A rate below the whole takes less than the price.
LEMMA LessThanAll ==
    ASSUME NEW price \in Nat, NEW rate \in Nat, rate <= 10000, NEW cut \in Nat, 10000 * cut <= price * rate
    PROVE  cut <= price /\ (price > 0 /\ rate < 10000 => cut < price)
<1>1. PICK e \in Nat : 10000 = rate + e OBVIOUS
<1>2. price * 10000 = price * rate + price * e BY <1>1, Distributes
<1>3. PICK m \in Nat : m = price * rate OBVIOUS
<1>4. PICK k \in Nat : k = price * e OBVIOUS
<1>5. price * 10000 = m + k /\ 10000 * cut <= m BY <1>2, <1>3, <1>4
<1>6. cut <= price BY <1>5
<1>7. ASSUME price > 0, rate < 10000 PROVE cut < price
  <2>1. e > 0 BY <1>1, <1>7
  <2>2. PICK a \in Nat : e = a + 1 BY <2>1
  <2>3. k = price * a + price BY <1>4, <2>2, Distributes
  <2>4. price * a \in Nat OBVIOUS
  <2>5. k > 0 BY <1>7, <2>3, <2>4
  <2>6. QED BY <1>5, <2>5
<1>8. QED BY <1>6, <1>7

\* The royalty is part of the price, and not all of it unless its rate is.
LEMMA RoyaltyIsPart ==
    ASSUME MarketTyped, NEW i \in TokenIds, NEW price \in Nat, NEW d \in Rates
    PROVE  /\ Royalties(i, price, d) \in Nat /\ Royalties(i, price, d) <= price
           /\ price > 0 /\ RoyaltyRate(i) < 10000 => Royalties(i, price, d) < price
<1>1. /\ tokenBps \in [TokenIds -> Rates \cup {Nobody}] /\ nftConf.bps \in Rates
      /\ splits \in Seq(Nat) /\ SumFunctionOnSet(splits, DOMAIN splits) <= 10000
  BY DEF MarketTyped, ListingsOK, RatesOK, HeldOK
<1>a. SingleBps \in 0..10000 BY RateAssumption
<1>2. SingleBps \in Rates /\ SingleBps \in Nat /\ SingleBps <= 10000 BY <1>a DEF Rates
<1>3. PICK own \in Rates : own = RoyaltyBps(i) BY <1>1 DEF RoyaltyBps
<1>4. CASE own > 0
  <2>1. Royalties(i, price, d) = (price * own) \div 10000 BY <1>3, <1>4 DEF Royalties
  <2>2. own \in Nat /\ own <= 10000 BY DEF Rates
  <2>3. 10000 \in Nat \ {0} OBVIOUS
  <2>4. PICK q : q = (price * own) \div 10000 OBVIOUS
  <2>5. q \in Nat /\ 10000 * q <= price * own BY <2>2, <2>3, <2>4, PartOf
  <2>6. q <= price /\ (price > 0 /\ own < 10000 => q < price) BY <2>2, <2>5, LessThanAll
  <2>7. RoyaltyRate(i) = own BY <1>3, <1>4 DEF RoyaltyRate
  <2>8. QED BY <2>1, <2>4, <2>5, <2>6, <2>7
<1>5. CASE ~(own > 0)
  <2>1. PICK shares : shares = Shares OBVIOUS
  <2>2. shares \in Seq(Nat) /\ SumFunctionOnSet(shares, DOMAIN shares) <= 10000
    <3>1. CASE splits = <<>>
      <4>1. PICK one : one = <<SingleBps>> OBVIOUS
      <4>2. one \in Seq(Nat) /\ DOMAIN one = {1} /\ one[1] = SingleBps BY <1>2, <4>1
      <4>a. one[1] \in Int BY <1>2, <4>2
      <4>3. SumFunctionOnSet(one, {1}) = one[1] BY <4>a, SumSingle
      <4>4. shares = one BY <2>1, <3>1, <4>1 DEF Shares
      <4>5. QED BY <1>2, <4>2, <4>3, <4>4
    <3>2. CASE splits # <<>> BY <1>1, <2>1, <3>2 DEF Shares
    <3>3. QED BY <3>1, <3>2
  <2>3. PICK S : S = DOMAIN shares OBVIOUS
  <2>4. IsFiniteSet(S) /\ \A x \in S : shares[x] \in Nat
    <3>1. PICK n \in Nat : n = Len(shares) /\ DOMAIN shares = 1..n BY <2>2
    <3>2. IsFiniteSet(1..n) BY FS_Interval
    <3>3. IsFiniteSet(S) BY <2>3, <3>1, <3>2
    <3>4. QED BY <2>2, <2>3, <3>3
  <2>5. PICK part : part = [x \in S |-> ShareOf(price, shares[x], d)] OBVIOUS
  <2>6. Royalties(i, price, d) = SumFunctionOnSet(part, S) BY <1>3, <1>5, <2>1, <2>3, <2>5 DEF Royalties
  <2>7. \A x \in S : part[x] \in Nat /\ 10000 * part[x] <= price * shares[x]
    <3> SUFFICES ASSUME NEW x \in S PROVE part[x] \in Nat /\ 10000 * part[x] <= price * shares[x] OBVIOUS
    <3>1. PICK bps \in Nat : bps = shares[x] BY <2>4
    <3>2. shares[x] <= 10000
      <4>1. \A z \in S : shares[z] \in Nat BY <2>4
      <4>2. shares[x] <= SumFunctionOnSet(shares, S) /\ SumFunctionOnSet(shares, S) \in Nat BY <2>4, <4>1, SumNat
      <4>3. QED BY <2>2, <2>3, <3>1, <4>2
    <3>3. d \in Nat /\ d <= 10000 BY DEF Rates
    <3>4. PICK off : off = (bps * d) \div 10000 OBVIOUS
    <3>5. off \in Nat /\ off <= bps BY <3>3, <3>4, PartOf
    <3>6. PICK k \in Nat : k = bps - off BY <3>5
    <3>7. k <= 10000 /\ k <= bps BY <3>1, <3>2, <3>5, <3>6
    <3>8. part[x] = (price * k) \div 10000 BY <2>5, <3>1, <3>4, <3>6 DEF ShareOf
    <3>9. part[x] \in Nat /\ 10000 * part[x] <= price * k BY <3>7, <3>8, PartOf
    <3>10. price * k <= price * bps
      <4>1. PICK e \in Nat : bps = k + e BY <3>7
      <4>2. price * bps = price * k + price * e /\ price * e \in Nat /\ price * k \in Nat BY <4>1, Distributes
      <4>3. QED BY <4>2
    <3>11. 10000 * part[x] \in Nat /\ price * k \in Nat /\ price * bps \in Nat BY <3>9
    <3>12. QED BY <3>1, <3>9, <3>10, <3>11
  <2>8. PICK big : big = [x \in S |-> 10000 * part[x]] OBVIOUS
  <2>9. PICK due : due = [x \in S |-> price * shares[x]] OBVIOUS
  <2>10. \A x \in S : part[x] \in Int /\ big[x] = 10000 * part[x] BY <2>7, <2>8
  <2>11. SumFunctionOnSet(big, S) = 10000 * SumFunctionOnSet(part, S) BY <2>4, <2>10, SumScale
  <2>12. PICK c \in Int : c = price OBVIOUS
  <2>13. /\ \A x \in S : due[x] = price * shares[x]
         /\ SumFunctionOnSet(due, S) = price * SumFunctionOnSet(shares, S)
    <3>1. \A x \in S : shares[x] \in Int /\ due[x] = c * shares[x] BY <2>4, <2>9, <2>12
    <3>2. SumFunctionOnSet(due, S) = c * SumFunctionOnSet(shares, S) BY <2>4, <3>1, SumScale
    <3>3. QED BY <2>12, <3>1, <3>2
  <2>14. \A x \in S : big[x] \in Int /\ due[x] \in Int /\ big[x] <= due[x] BY <2>4, <2>7, <2>10, <2>13
  <2>15. SumFunctionOnSet(big, S) <= SumFunctionOnSet(due, S) BY <2>4, <2>14, SumGrows
  <2>16. PICK total \in Nat : total = SumFunctionOnSet(shares, S)
    <3>1. \A z \in S : shares[z] \in Nat BY <2>4
    <3>2. QED BY <2>4, <3>1, SumNat
  <2>17. PICK cut \in Nat : cut = SumFunctionOnSet(part, S)
    <3>1. \A z \in S : part[z] \in Nat BY <2>7
    <3>2. QED BY <2>4, <3>1, SumNat
  <2>18. 10000 * cut <= price * total /\ total <= 10000 BY <2>2, <2>3, <2>11, <2>13, <2>15, <2>16, <2>17
  <2>19. RoyaltyRate(i) = total BY <1>3, <1>5, <2>1, <2>3, <2>16 DEF RoyaltyRate
  <2>20. cut <= price /\ (price > 0 /\ total < 10000 => cut < price) BY <2>18, LessThanAll
  <2>21. QED BY <2>6, <2>17, <2>19, <2>20
<1>6. QED BY <1>4, <1>5

\* The fields of a listing.
LEMMA ListingFields ==
    ASSUME MarketTyped, NEW l \in DOMAIN listings
    PROVE  /\ l \in ListingIds /\ listings[l] \in ListingRecords
           /\ listings[l].seller \in Collectors /\ listings[l].terms.token \in TokenIds
           /\ listings[l].terms.price \in Int /\ listings[l].terms.floor \in Int
           /\ listings[l].terms.start \in Nat /\ listings[l].terms.stop \in Nat
           /\ listings[l].terms.pay \in PayTokens
<1>1. listings \in Seq(ListingRecords) /\ Len(listings) <= MaxListings BY DEF MarketTyped, ListingsOK, RatesOK, HeldOK
<1>2. MaxListings \in Nat BY MarketAssumption
<1>3. l \in ListingIds /\ listings[l] \in ListingRecords BY <1>1, <1>2 DEF ListingIds
<1>4. PICK w : w = listings[l] OBVIOUS
<1>5. w.seller \in Collectors /\ w.terms \in ListTerms BY <1>3, <1>4 DEF ListingRecords
<1>6. PICK t \in ListTerms : t = w.terms BY <1>5
<1>7. t.token \in TokenIds /\ {t.price, t.floor} \subseteq Int /\ {t.start, t.stop} \subseteq Nat /\ t.pay \in PayTokens
  BY TermsAssumption
<1>8. QED BY <1>3, <1>4, <1>5, <1>6, <1>7

\* A Dutch price falls no lower than its floor.
LEMMA AskingIsPositive ==
    ASSUME MarketTyped, NEW l \in DOMAIN listings, Priced(l),
           listings[l].terms.start # listings[l].terms.stop => now >= listings[l].terms.start
    PROVE  AskingPrice(l) \in Nat /\ AskingPrice(l) > 0
<1>1. PICK t : t = listings[l].terms OBVIOUS
<1>2. t.price \in Int /\ t.floor \in Int /\ t.start \in Nat /\ t.stop \in Nat BY <1>1, ListingFields
<1>3. PICK p \in Int : p = t.price BY <1>2
<1>4. PICK f \in Int : f = t.floor BY <1>2
<1>5. PICK s \in Nat : s = t.start BY <1>2
<1>6. PICK e \in Nat : e = t.stop BY <1>2
<1>7. f > 0 /\ p >= f /\ (s # e => e > s /\ now >= s) BY <1>1, <1>3, <1>4, <1>5, <1>6 DEF Priced
<1>8. now \in Nat BY DEF MarketTyped, ListingsOK, RatesOK, HeldOK
<1>9. CASE s = e
  <2>1. AskingPrice(l) = p BY <1>1, <1>3, <1>5, <1>6, <1>9 DEF AskingPrice
  <2>2. QED BY <1>7, <2>1
<1>10. CASE s # e
  <2>1. PICK at : at = IF now > e THEN e ELSE now OBVIOUS
  <2>2. PICK a \in Nat : a = p - f BY <1>7
  <2>3. PICK k \in Nat : k = at - s BY <1>7, <1>8, <1>10, <2>1
  <2>4. PICK n \in Nat \ {0} : n = e - s BY <1>7, <1>10
  <2>5. k <= n BY <1>7, <1>8, <1>10, <2>1, <2>3, <2>4
  <2>6. PICK q : q = (a * k) \div n OBVIOUS
  <2>7. q \in Nat /\ q <= a BY <2>5, <2>6, PartOf
  <2>8. AskingPrice(l) = p - q
    BY <1>1, <1>3, <1>4, <1>5, <1>6, <1>10, <2>1, <2>2, <2>3, <2>4, <2>6 DEF AskingPrice
  <2>9. QED BY <1>7, <2>2, <2>7, <2>8
<1>11. QED BY <1>9, <1>10

\* A batch of purchases is a fold of single ones: it ends in X if each purchase leads
\* from what the earlier ones reached to what it is part of.
LEMMA PurchasesReach ==
    ASSUME NEW buyer, NEW d, NEW ids \in Seq(Nat), NEW X, Books \in X[{}],
           \A T \in SUBSET DOMAIN ids : \A z \in T :
             \A x \in X[T \ {z}] : PayListing(x, buyer, ids[z], d) \in X[T]
    PROVE  Purchases(buyer, ids, d) \in X[DOMAIN ids]
<1>a. PICK st : st = Books OBVIOUS
<1>b. st \in X[{}] BY <1>a
<1>0. PICK len \in Nat : len = Len(ids) /\ DOMAIN ids = 1..len OBVIOUS
<1> DEFINE S == DOMAIN ids
           Top(T) == CHOOSE x \in T : \A y \in T : x >= y
           Op(x, l) == PayListing(x, buyer, l, d)
           Step(g) == [T \in SUBSET S |-> IF T = {} THEN st ELSE Op(g[T \ {Top(T)}], ids[Top(T)])]
           G == CHOOSE g : g = Step(g)
           pick == [T \in SUBSET S |-> Top(T)]
           All == UNION {X[T] : T \in SUBSET S}
           step == [z \in S |-> [x \in All |-> Op(x, ids[z])]]
<1>2. IsFiniteSet(S) /\ \A T \in SUBSET S : T # {} => Top(T) \in T BY <1>0, Positions
<1>3. \A T \in SUBSET S : pick[T] = Top(T) OBVIOUS
<1>4. \A T \in SUBSET S : T # {} => pick[T] \in T BY <1>2, <1>3
<1>7. ASSUME NEW T \in SUBSET S, T # {}, NEW x \in X[T \ {Top(T)}]
      PROVE  Op(x, ids[Top(T)]) \in X[T] /\ step[Top(T)][x] = Op(x, ids[Top(T)])
  <2>1. PICK z \in T : z = Top(T) BY <1>2, <1>7
  <2>2. PICK U \in SUBSET S : U = T \ {z} OBVIOUS
  <2>3. x \in X[T \ {z}] BY <1>7, <2>1
  <2>6. Op(x, ids[z]) \in X[T] BY <2>3
  <2>7. z \in S /\ x \in All BY <1>7, <2>1, <2>2
  <2> HIDE DEF Op, All, Top, S
  <2>8. step[z][x] = Op(x, ids[z]) BY <2>7
  <2>9. QED BY <2>1, <2>6, <2>8
<1>8. \A T \in SUBSET S : T # {} => \A x \in X[T \ {pick[T]}] : step[pick[T]][x] \in X[T]
  <2> HIDE DEF step, Op, Top, pick, S, All
  <2> SUFFICES ASSUME NEW T \in SUBSET S, T # {}, NEW x \in X[T \ {pick[T]}] PROVE step[pick[T]][x] \in X[T] OBVIOUS
  <2>1. pick[T] = Top(T) BY <1>3
  <2>2. x \in X[T \ {Top(T)}] BY <2>1
  <2>3. step[Top(T)][x] \in X[T] BY <1>7, <2>2
  <2>4. QED BY <2>1, <2>3
<1>9. \E F : F = Step(F)
  <2> HIDE DEF step, Op, Top, pick, S
  <2>1. PICK F : IsFold(F, S, X, st, pick, step) BY <1>b, <1>2, <1>4, <1>8, FoldTableExists
  <2>2. /\ F = [T \in SUBSET S |-> F[T]] /\ \A T \in SUBSET S : F[T] \in X[T]
        /\ \A T \in SUBSET S : F[T] = IF T = {} THEN st ELSE step[pick[T]][F[T \ {pick[T]}]]
    BY <2>1 DEF IsFold
  <2>3. ASSUME NEW T \in SUBSET S PROVE F[T] = IF T = {} THEN st ELSE Op(F[T \ {Top(T)}], ids[Top(T)])
    <3>1. CASE T = {} BY <2>2, <3>1
    <3>2. CASE T # {}
      <4>1. T \ {Top(T)} \in SUBSET S /\ F[T \ {Top(T)}] \in X[T \ {Top(T)}] BY <2>2
      <4>2. F[T] = step[Top(T)][F[T \ {Top(T)}]] BY <1>3, <2>2, <3>2
      <4>3. QED BY <1>7, <3>2, <4>1, <4>2
    <3>3. QED BY <3>1, <3>2
  <2>4. F = Step(F) BY <2>2, <2>3
  <2>5. QED BY <2>4
<1>10. G = Step(G)
  <2> HIDE DEF Step
  <2>1. QED BY <1>9
<1>11. Purchases(buyer, ids, d) = G[S] BY <1>a DEF Purchases, FoldLeft, MapThenFoldSet, Max
<1>12. G[S] \in X[S]
  <2> HIDE DEF step, Op, Top, pick, S, G
  <2>1. G[{}] = st BY <1>10
  <2>2. ASSUME NEW T \in SUBSET S, T # {}, G[T \ {pick[T]}] \in X[T \ {pick[T]}] PROVE G[T] \in X[T]
    <3>1. G[T] = Op(G[T \ {Top(T)}], ids[Top(T)]) BY <1>10, <2>2
    <3>2. QED BY <1>3, <1>7, <2>2, <3>1
  <2>3. QED BY <1>b, <1>2, <1>4, <2>1, <2>2, FoldStays
<1> HIDE DEF G
<1>13. QED BY <1>11, <1>12

\* Contract and royalty recipient are not collectors.
LEMMA WalletFacts ==
    /\ Market \notin Collectors /\ Royal \notin Collectors /\ Market # Royal
    /\ Collectors \subseteq Wallets /\ Market \in Wallets /\ Royal \in Wallets
    /\ IsFiniteSet(Collectors)
<1>1. {Market, Royal} \cap Collectors = {} BY MarketAssumption
<1>2. Market # Royal BY MarketAssumption
<1>3. IsFiniteSet(Collectors) BY MarketAssumption
<1>4. QED BY <1>1, <1>2, <1>3 DEF Wallets

\* No royalty takes a whole price.
RoyaltiesLeave == \A j \in TokenIds : RoyaltyRate(j) < 10000

\* A royalty is part of the price.
SoldFor(price, cut) == cut <= price /\ (price > 0 /\ RoyaltiesLeave => cut < price)

\* A sale splits its price into the seller's part and the royalty.
LEMMA SaleFacts ==
    ASSUME MarketTyped, NEW b \in Ledgers, NEW payer \in Wallets, NEW seller \in Wallets, NEW i \in TokenIds,
           NEW t \in PayTokens, NEW price \in Nat, NEW d \in Rates,
           NEW r, r = PaySale(b, payer, seller, i, t, price, d)
    PROVE  \E cut \in Nat : SoldFor(price, cut) /\ SoldTo(b, r, payer, seller, t, price, cut)
<1>1. PICK cut \in Nat : cut = Royalties(i, price, d) /\ SoldFor(price, cut)
  BY RoyaltyIsPart DEF SoldFor, RoyaltiesLeave
<1>2. r = Pays(Pays(b, payer, seller, t, price - cut), payer, Royal, t, cut) BY <1>1 DEF PaySale
<1>3. cut \in Int /\ price \in Int OBVIOUS
<1>4. SoldTo(b, r, payer, seller, t, price, cut) BY <1>2, <1>3, SaleMoves
<1>5. QED BY <1>1, <1>4

\* Nobody but the buyer has lost anything, and the marketplace has what it had.
Grown(f, g, buyer) ==
    /\ \A s \in PayTokens : g[Market][s] = f[Market][s]
    /\ \A a \in Wallets \ {buyer}, s \in PayTokens : g[a][s] >= f[a][s]

\* The seller has gained of token t, unless a royalty takes it all.
Gained(f, g, seller, t) == RoyaltiesLeave => g[seller][t] > f[seller][t]

\* A purchase by a collector.
LEMMA BuyerPays ==
    ASSUME MarketTyped, NEW b \in Ledgers, NEW buyer \in Collectors, NEW seller \in Collectors, NEW i \in TokenIds,
           NEW t \in PayTokens, NEW price \in Nat, price > 0, NEW d \in Rates,
           NEW r, r = PaySale(b, buyer, seller, i, t, price, d)
    PROVE  /\ r \in Ledgers /\ Grown(b.funds, r.funds, buyer)
           /\ seller # buyer => Gained(b.funds, r.funds, seller, t)
<1>1. /\ Market \notin Collectors /\ Royal \notin Collectors /\ Market # Royal
      /\ buyer \in Wallets /\ seller \in Wallets /\ Market \in Wallets /\ Royal \in Wallets
  BY WalletFacts
<1>2. PICK cut \in Nat : SoldFor(price, cut) /\ SoldTo(b, r, buyer, seller, t, price, cut) BY <1>1, SaleFacts
<1>3. r \in Ledgers BY <1>2 DEF SoldTo
<1>4. PICK f \in Purses : f = b.funds BY DEF Ledgers
<1>5. PICK g \in Purses : g = r.funds BY <1>3 DEF Ledgers
<1>6. ASSUME NEW a \in Wallets, NEW s \in PayTokens
      PROVE  f[a][s] \in Int
             /\ g[a][s] = f[a][s] + (IF a = seller /\ s = t THEN price - cut ELSE 0)
                            + (IF a = Royal /\ s = t THEN cut ELSE 0) - (IF a = buyer /\ s = t THEN price ELSE 0)
  <2>1. f[a][s] \in Int BY DEF Purses
  <2>2. QED BY <1>2, <1>4, <1>5, <2>1 DEF SoldTo
<1>7. \A s \in PayTokens : g[Market][s] = f[Market][s]
  <2> SUFFICES ASSUME NEW s \in PayTokens PROVE g[Market][s] = f[Market][s] OBVIOUS
  <2>1. Market # seller /\ Market # buyer BY <1>1
  <2>2. QED BY <1>1, <1>6, <2>1
<1>8. ASSUME NEW a \in Wallets \ {buyer}, NEW s \in PayTokens PROVE g[a][s] >= f[a][s]
  <2>1. PICK n \in Int : n = f[a][s] BY <1>6
  <2>2. g[a][s] = n + (IF a = seller /\ s = t THEN price - cut ELSE 0) + (IF a = Royal /\ s = t THEN cut ELSE 0)
    <3>0. PICK rest \in Int : rest = price - cut OBVIOUS
    <3>1. PICK k \in Int : k = (IF a = seller /\ s = t THEN price - cut ELSE 0)
      <4>1. CASE a = seller /\ s = t BY <3>0, <4>1
      <4>2. CASE ~(a = seller /\ s = t) BY <4>2
      <4>3. QED BY <4>1, <4>2
    <3>2. PICK m \in Int : m = (IF a = Royal /\ s = t THEN cut ELSE 0) OBVIOUS
    <3>3. g[a][s] = n + k + m - 0 BY <1>6, <2>1, <3>1, <3>2
    <3>4. n + k + m - 0 = n + k + m OBVIOUS
    <3>5. QED BY <3>1, <3>2, <3>3, <3>4
  <2>3. cut <= price BY <1>2 DEF SoldFor
  <2>4. QED BY <2>1, <2>2, <2>3
<1>9. ASSUME seller # buyer PROVE Gained(f, g, seller, t)
  <2> SUFFICES ASSUME RoyaltiesLeave PROVE g[seller][t] > f[seller][t] BY DEF Gained
  <2>1. PICK n \in Int : n = f[seller][t] BY <1>1, <1>6
  <2>2. g[seller][t] = n + (price - cut)
    <3>1. seller # Royal BY <1>1
    <3>2. QED BY <1>1, <1>6, <1>9, <2>1, <3>1
  <2>3. cut < price BY <1>2 DEF SoldFor
  <2>4. QED BY <2>1, <2>2, <2>3
<1>10. QED BY <1>3, <1>4, <1>5, <1>7, <1>8, <1>9 DEF Grown

\* Gains of several purchases add up.
LEMMA GrownOn ==
    ASSUME NEW f \in Purses, NEW g \in Purses, NEW h \in Purses, NEW buyer \in Collectors,
           Grown(f, g, buyer), Grown(g, h, buyer)
    PROVE  /\ Grown(f, h, buyer)
           /\ \A seller \in Collectors \ {buyer}, t \in PayTokens :
                Gained(f, g, seller, t) \/ Gained(g, h, seller, t) => Gained(f, h, seller, t)
<1>1. \A a \in Wallets, s \in PayTokens : f[a][s] \in Int /\ g[a][s] \in Int /\ h[a][s] \in Int BY DEF Purses
<1>2. Market \in Wallets BY DEF Wallets
<1>3. \A s \in PayTokens : h[Market][s] = f[Market][s] BY DEF Grown
<1>4. ASSUME NEW a \in Wallets \ {buyer}, NEW s \in PayTokens
      PROVE  /\ h[a][s] >= f[a][s]
             /\ g[a][s] > f[a][s] \/ h[a][s] > g[a][s] => h[a][s] > f[a][s]
  <2>1. g[a][s] >= f[a][s] /\ h[a][s] >= g[a][s] BY DEF Grown
  <2>2. f[a][s] \in Int /\ g[a][s] \in Int /\ h[a][s] \in Int BY <1>1
  <2>3. QED BY <2>1, <2>2
<1>5. ASSUME NEW seller \in Collectors \ {buyer}, NEW t \in PayTokens, Gained(f, g, seller, t) \/ Gained(g, h, seller, t)
      PROVE  Gained(f, h, seller, t)
  <2>1. SUFFICES ASSUME RoyaltiesLeave PROVE h[seller][t] > f[seller][t] BY DEF Gained
  <2>2. g[seller][t] > f[seller][t] \/ h[seller][t] > g[seller][t] BY <1>5, <2>1 DEF Gained
  <2>3. seller \in Wallets \ {buyer} BY WalletFacts
  <2>4. QED BY <1>4, <2>2, <2>3
<1>6. QED BY <1>3, <1>4, <1>5 DEF Grown

\* The books of the payment tokens.
LEMMA BooksTyped ==
    ASSUME MarketTyped
    PROVE  Books \in Ledgers /\ Books.funds = marketFunds /\ marketFunds \in Purses
<1>1. marketFunds \in Purses BY DEF MarketTyped, ListingsOK, RatesOK, HeldOK
<1>2. TRUE \in BOOLEAN OBVIOUS
<1>3. QED BY <1>1, <1>2 DEF Books, Ledgers

\* The ledgers that purchases of the listings at positions T can lead to.
Bought(buyer, ids, T) ==
    {acc \in Ledgers :
       /\ Grown(marketFunds, acc.funds, buyer)
       /\ \A x \in T : listings[ids[x]].seller # buyer =>
            Gained(marketFunds, acc.funds, listings[ids[x]].seller, listings[ids[x]].terms.pay)}

\* A list of purchases.
LEMMA PurchasesPay ==
    ASSUME MarketTyped, NEW buyer \in Collectors, NEW d \in Rates, NEW ids \in Seq(Nat),
           \A x \in DOMAIN ids :
             /\ ids[x] \in DOMAIN listings /\ Priced(ids[x])
             /\ listings[ids[x]].terms.start # listings[ids[x]].terms.stop => now >= listings[ids[x]].terms.start
    PROVE  Purchases(buyer, ids, d) \in Bought(buyer, ids, DOMAIN ids)
<1> DEFINE S == DOMAIN ids
           X == [T \in SUBSET S |-> Bought(buyer, ids, T)]
<1>1. \A T \in SUBSET S : X[T] = Bought(buyer, ids, T) OBVIOUS
<1>2. marketFunds \in Purses BY DEF MarketTyped, ListingsOK, RatesOK, HeldOK
<1>3. Books \in X[{}]
  <2>1. \A a \in Wallets, s \in PayTokens : marketFunds[a][s] \in Int BY <1>2 DEF Purses
  <2>2. Grown(marketFunds, marketFunds, buyer) BY <2>1, WalletFacts DEF Grown
  <2>3. Books \in Ledgers /\ Books.funds = marketFunds BY BooksTyped
  <2>4. Books \in Bought(buyer, ids, {}) BY <2>2, <2>3 DEF Bought
  <2>5. QED BY <1>1, <2>4
<1>4. ASSUME NEW T \in SUBSET S, NEW z \in T, NEW x \in X[T \ {z}]
      PROVE  PayListing(x, buyer, ids[z], d) \in X[T]
  <2>1. PICK U \in SUBSET S : U = T \ {z} OBVIOUS
  <2>2. x \in Bought(buyer, ids, U) BY <1>1, <1>4, <2>1
  <2>3. x \in Ledgers /\ Grown(marketFunds, x.funds, buyer) BY <2>2 DEF Bought
  <2>4. \A y \in U : listings[ids[y]].seller # buyer =>
          Gained(marketFunds, x.funds, listings[ids[y]].seller, listings[ids[y]].terms.pay)
    BY <2>2 DEF Bought
  <2>5. PICK l : l = ids[z] OBVIOUS
  <2>6. /\ l \in DOMAIN listings /\ Priced(l)
        /\ listings[l].terms.start # listings[l].terms.stop => now >= listings[l].terms.start
    BY <1>4, <2>5
  <2>7. PICK price \in Nat : price = AskingPrice(l) /\ price > 0 BY <2>6, AskingIsPositive
  <2>8. PICK seller \in Collectors : seller = listings[l].seller BY <2>6, ListingFields
  <2>9. PICK t \in PayTokens : t = listings[l].terms.pay BY <2>6, ListingFields
  <2>10. PICK i \in TokenIds : i = listings[l].terms.token BY <2>6, ListingFields
  <2>11. PICK r : r = PayListing(x, buyer, l, d) OBVIOUS
  <2>12. r = PaySale(x, buyer, seller, i, t, price, d) BY <2>7, <2>8, <2>9, <2>10, <2>11 DEF PayListing
  <2>13. /\ r \in Ledgers /\ Grown(x.funds, r.funds, buyer)
         /\ seller # buyer => Gained(x.funds, r.funds, seller, t)
    BY <2>3, <2>7, <2>12, BuyerPays
  <2>14. PICK g \in Purses : g = x.funds BY <2>3 DEF Ledgers
  <2>15. PICK h \in Purses : h = r.funds BY <2>13 DEF Ledgers
  <2>16. Grown(marketFunds, g, buyer) /\ Grown(g, h, buyer) BY <2>3, <2>13, <2>14, <2>15
  <2>17. /\ Grown(marketFunds, h, buyer)
         /\ \A who \in Collectors \ {buyer}, s \in PayTokens :
              Gained(marketFunds, g, who, s) \/ Gained(g, h, who, s) => Gained(marketFunds, h, who, s)
    BY <1>2, <2>16, GrownOn
  <2>18. ASSUME NEW y \in T, listings[ids[y]].seller # buyer
         PROVE  Gained(marketFunds, h, listings[ids[y]].seller, listings[ids[y]].terms.pay)
    <3>1. PICK k : k = ids[y] OBVIOUS
    <3>2. k \in DOMAIN listings BY <3>1
    <3>3. PICK who \in Collectors : who = listings[k].seller BY <3>2, ListingFields
    <3>4. PICK s \in PayTokens : s = listings[k].terms.pay BY <3>2, ListingFields
    <3>5. who # buyer BY <2>18, <3>1, <3>3
    <3>6. CASE y = z
      <4>1. who = seller /\ s = t BY <2>5, <2>8, <2>9, <3>1, <3>3, <3>4, <3>6
      <4>2. Gained(g, h, who, s) BY <2>13, <2>14, <2>15, <3>5, <4>1
      <4>3. QED BY <2>17, <3>1, <3>3, <3>4, <3>5, <4>2
    <3>7. CASE y # z
      <4>1. y \in U BY <2>1, <3>7
      <4>2. Gained(marketFunds, g, who, s) BY <2>4, <2>14, <3>1, <3>3, <3>4, <3>5, <4>1
      <4>3. QED BY <2>17, <3>1, <3>3, <3>4, <3>5, <4>2
    <3>8. QED BY <3>6, <3>7
  <2>19. r \in Bought(buyer, ids, T) BY <2>13, <2>15, <2>17, <2>18 DEF Bought
  <2>20. QED BY <1>1, <2>5, <2>11, <2>19
<1>5. DOMAIN ids \in SUBSET DOMAIN ids OBVIOUS
<1> HIDE DEF X
<1>6. Purchases(buyer, ids, d) \in X[DOMAIN ids]
  <2>1. \A T \in SUBSET DOMAIN ids : \A z \in T :
          \A x \in X[T \ {z}] : PayListing(x, buyer, ids[z], d) \in X[T]
    BY <1>4
  <2>2. QED BY <1>3, <2>1, PurchasesReach
<1>7. X[DOMAIN ids] = Bought(buyer, ids, DOMAIN ids) BY <1>1, <1>5
<1>8. QED BY <1>6, <1>7

\* The listings keep their terms; some may be closed.
SameTerms ==
    /\ listings' \in Seq(ListingRecords) /\ Len(listings') = Len(listings)
    /\ \A l \in DOMAIN listings : listings'[l].terms = listings[l].terms

\* Closing listings leaves their terms and sellers alone.
LEMMA ClosedTerms ==
    ASSUME MarketTyped, NEW S, listings' = Closed(S)
    PROVE  SameTerms
<1>1. listings \in Seq(ListingRecords) BY DEF MarketTyped, ListingsOK, RatesOK, HeldOK
<1>2. PICK n \in Nat : n = Len(listings) /\ DOMAIN listings = 1..n BY <1>1
<1>3. ASSUME NEW l \in DOMAIN listings
      PROVE  /\ listings'[l] \in ListingRecords /\ listings'[l].terms = listings[l].terms
  <2>1. PICK w : w = listings[l] OBVIOUS
  <2>2. w \in ListingRecords BY <1>1, <2>1
  <2>3. PICK v : v = [w EXCEPT !.active = FALSE] OBVIOUS
  <2>4. v \in ListingRecords /\ v.terms = w.terms BY <2>2, <2>3 DEF ListingRecords
  <2>5. listings'[l] = IF l \in S THEN v ELSE w BY <2>1, <2>3 DEF Closed
  <2>6. QED BY <2>1, <2>2, <2>4, <2>5
<1>4. listings' = [l \in 1..n |-> listings'[l]] BY <1>2 DEF Closed
<1>5. listings' \in [1..n -> ListingRecords] BY <1>2, <1>3, <1>4
<1>6. listings' \in Seq(ListingRecords) /\ Len(listings') = n BY <1>5, LenProperties, IsASeq
<1>7. QED BY <1>2, <1>3, <1>6 DEF SameTerms

\* So does a step that leaves the listings alone.
LEMMA KeptTerms ==
    ASSUME MarketTyped, UNCHANGED listings
    PROVE  SameTerms
<1>1. listings \in Seq(ListingRecords) BY DEF MarketTyped, ListingsOK, RatesOK, HeldOK
<1>2. QED BY <1>1 DEF SameTerms

OfferSum(t) == SumFunctionOnSet(OfferedIn(t), ListingIds)
WideSum(t) == SumFunctionOnSet(WideIn(t), DOMAIN wideOffers)

\* There are finitely many listing ids.
LEMMA IdsFinite == IsFiniteSet(ListingIds) /\ MaxListings \in Nat
<1>1. MaxListings \in Nat BY MarketAssumption
<1>2. IsFiniteSet(1..MaxListings) BY <1>1, FS_Interval
<1>3. QED BY <1>1, <1>2 DEF ListingIds

\* The amounts offered are numbers.
LEMMA OffersTyped ==
    ASSUME MarketTyped
    PROVE  /\ \A l \in ListingIds, b \in Collectors : offers[l][b].amount \in Nat
           /\ \A l \in ListingIds : OffersOn(l) \in Nat
           /\ \A t : \A l \in ListingIds : OfferedIn(t)[l] \in Nat
           /\ \A t : OfferSum(t) \in Nat
<1>1. offers \in [ListingIds -> [Collectors -> OfferRecords]] BY DEF MarketTyped, ListingsOK, RatesOK, HeldOK
<1>2. ASSUME NEW l \in ListingIds, NEW b \in Collectors PROVE offers[l][b].amount \in Nat
  <2>1. offers[l][b] \in OfferRecords BY <1>1
  <2>2. QED BY <2>1 DEF OfferRecords
<1>3. ASSUME NEW l \in ListingIds PROVE OffersOn(l) \in Nat
  <2>1. PICK f : f = [b \in Collectors |-> offers[l][b].amount] OBVIOUS
  <2>2. \A b \in Collectors : f[b] \in Nat BY <1>2, <2>1
  <2>3. SumFunctionOnSet(f, Collectors) \in Nat BY <2>2, WalletFacts, SumNat
  <2>4. QED BY <2>1, <2>3 DEF OffersOn
<1>4. ASSUME NEW t, NEW l \in ListingIds PROVE OfferedIn(t)[l] \in Nat
  <2>1. PICK n \in Nat : n = OffersOn(l) BY <1>3
  <2>2. OfferedIn(t)[l] = IF l \in DOMAIN listings /\ listings[l].terms.pay = t THEN n ELSE 0 BY <2>1 DEF OfferedIn
  <2>3. QED BY <2>2
<1>5. ASSUME NEW t PROVE OfferSum(t) \in Nat
  <2>1. PICK f : f = OfferedIn(t) OBVIOUS
  <2>2. \A l \in ListingIds : f[l] \in Nat BY <1>4, <2>1
  <2>3. SumFunctionOnSet(f, ListingIds) \in Nat BY <2>2, IdsFinite, SumNat
  <2>4. QED BY <2>1, <2>3 DEF OfferSum
<1>6. QED BY <1>2, <1>3, <1>4, <1>5

\* Collection offers are records, with natural numbers to add up.
LEMMA WideTyped ==
    ASSUME MarketTyped
    PROVE  /\ IsFiniteSet(DOMAIN wideOffers)
           /\ \A n \in DOMAIN wideOffers : wideOffers[n] \in WideRecords
           /\ \A t : \A n \in DOMAIN wideOffers : WideIn(t)[n] \in Nat
           /\ \A t : WideSum(t) \in Nat
<1>1. wideOffers \in Seq(WideRecords) BY DEF MarketTyped, ListingsOK, RatesOK, HeldOK
<1>2. PICK n \in Nat : n = Len(wideOffers) /\ DOMAIN wideOffers = 1..n BY <1>1
<1>3. IsFiniteSet(1..n) BY FS_Interval
<1>4. IsFiniteSet(DOMAIN wideOffers) BY <1>2, <1>3
<1>5. \A m \in DOMAIN wideOffers : wideOffers[m] \in WideRecords BY <1>1
<1>6. ASSUME NEW t, NEW m \in DOMAIN wideOffers PROVE WideIn(t)[m] \in Nat
  <2>1. PICK w \in WideRecords : w = wideOffers[m] BY <1>5
  <2>2. PICK x \in Nat : x = w.amount BY <2>1 DEF WideRecords
  <2>3. WideIn(t)[m] = IF w.open /\ t = DefaultToken THEN x ELSE 0 BY <2>1, <2>2 DEF WideIn
  <2>4. QED BY <2>3
<1>7. ASSUME NEW t PROVE WideSum(t) \in Nat
  <2>1. PICK f : f = WideIn(t) OBVIOUS
  <2>2. \A m \in DOMAIN wideOffers : f[m] \in Nat BY <1>6, <2>1
  <2>3. SumFunctionOnSet(f, DOMAIN wideOffers) \in Nat BY <1>4, <2>2, SumNat
  <2>4. QED BY <2>1, <2>3 DEF WideSum
<1>8. QED BY <1>4, <1>5, <1>6, <1>7

\* While the terms stay, offers on l that come to d more change what is offered in
\* the listing's payment token by as much.
LEMMA OfferMoves ==
    ASSUME MarketTyped, SameTerms, NEW l \in DOMAIN listings, NEW d \in Int, OffersOn(l)' = OffersOn(l) + d,
           \A k \in ListingIds : k # l => offers'[k] = offers[k], NEW t
    PROVE  OfferSum(t)' = OfferSum(t) + (IF t = listings[l].terms.pay THEN d ELSE 0)
<1>1. l \in ListingIds BY ListingFields
<1>2. listings \in Seq(ListingRecords) BY DEF MarketTyped, ListingsOK, RatesOK, HeldOK
<1>3. DOMAIN listings' = DOMAIN listings BY <1>2 DEF SameTerms
<1>4. PICK e \in Int : e = IF t = listings[l].terms.pay THEN d ELSE 0 OBVIOUS
<1>5. PICK f : f = OfferedIn(t) OBVIOUS
<1>6. PICK g : g = OfferedIn(t)' OBVIOUS
<1>7. \A k \in ListingIds : f[k] \in Nat BY <1>5, OffersTyped
<1>8. \A k \in ListingIds : k # l => g[k] = f[k]
  <2> SUFFICES ASSUME NEW k \in ListingIds, k # l PROVE g[k] = f[k] OBVIOUS
  <2>1. offers'[k] = offers[k] OBVIOUS
  <2>2. OffersOn(k)' = OffersOn(k) BY <2>1 DEF OffersOn
  <2>3. f[k] = IF k \in DOMAIN listings /\ listings[k].terms.pay = t THEN OffersOn(k) ELSE 0 BY <1>5 DEF OfferedIn
  <2>4. g[k] = IF k \in DOMAIN listings' /\ listings'[k].terms.pay = t THEN OffersOn(k)' ELSE 0 BY <1>6 DEF OfferedIn
  <2>5. k \in DOMAIN listings => listings'[k].terms = listings[k].terms BY DEF SameTerms
  <2>6. QED BY <1>3, <2>2, <2>3, <2>4, <2>5
<1>9. g[l] = f[l] + e
  <2>1. PICK n \in Nat : n = OffersOn(l) BY <1>1, OffersTyped
  <2>2. f[l] = IF listings[l].terms.pay = t THEN n ELSE 0 BY <1>1, <1>5, <2>1 DEF OfferedIn
  <2>3. listings'[l].terms = listings[l].terms BY DEF SameTerms
  <2>4. g[l] = IF listings[l].terms.pay = t THEN n + d ELSE 0 BY <1>1, <1>3, <1>6, <2>1, <2>3 DEF OfferedIn
  <2>5. QED BY <1>4, <2>2, <2>4
<1>10. IsFiniteSet(ListingIds) BY IdsFinite
<1>11. \A k \in ListingIds : f[k] \in Int BY <1>7
<1>12. SumFunctionOnSet(g, ListingIds) = SumFunctionOnSet(f, ListingIds) + e
  BY <1>1, <1>8, <1>9, <1>10, <1>11, SumBump
<1>13. QED BY <1>4, <1>5, <1>6, <1>12 DEF OfferSum

\* Offers that stay on listings that keep their terms.
LEMMA OffersStay ==
    ASSUME MarketTyped, SameTerms, UNCHANGED offers, NEW t
    PROVE  OfferSum(t)' = OfferSum(t)
<1>1. listings \in Seq(ListingRecords) BY DEF MarketTyped, ListingsOK, RatesOK, HeldOK
<1>2. DOMAIN listings' = DOMAIN listings BY <1>1 DEF SameTerms
<1>3. \A k \in ListingIds : OffersOn(k)' = OffersOn(k) BY DEF OffersOn
<1>4. \A k \in DOMAIN listings : listings'[k].terms = listings[k].terms BY DEF SameTerms
<1>5. OfferedIn(t)' = OfferedIn(t) BY <1>2, <1>3, <1>4 DEF OfferedIn
<1>6. QED BY <1>5 DEF OfferSum

\* The sum of the collection offers depends on nothing else.
LEMMA WidesStay ==
    ASSUME UNCHANGED wideOffers, NEW t
    PROVE  WideSum(t)' = WideSum(t)
<1>1. WideIn(t)' = WideIn(t) BY DEF WideIn
<1>2. QED BY <1>1 DEF WideSum

\* A collection offer of x is added.
LEMMA WideAdded ==
    ASSUME MarketTyped, NEW w \in WideRecords, w.open, wideOffers' = Append(wideOffers, w), NEW t
    PROVE  /\ wideOffers' \in Seq(WideRecords)
           /\ WideSum(t)' = WideSum(t) + (IF t = DefaultToken THEN w.amount ELSE 0)
<1>1. wideOffers \in Seq(WideRecords) BY DEF MarketTyped, ListingsOK, RatesOK, HeldOK
<1>2. PICK n \in Nat : n = Len(wideOffers) /\ DOMAIN wideOffers = 1..n BY <1>1
<1>3. PICK x \in Nat : x = w.amount BY DEF WideRecords
<1>4. /\ wideOffers' \in Seq(WideRecords) /\ DOMAIN wideOffers' = 1..(n + 1) /\ wideOffers'[n + 1] = w
      /\ \A m \in 1..n : wideOffers'[m] = wideOffers[m]
  BY <1>1, <1>2
<1>5. PICK S : S = DOMAIN wideOffers OBVIOUS
<1>6. PICK z : z = n + 1 OBVIOUS
<1>7. DOMAIN wideOffers' = S \cup {z} /\ z \notin S BY <1>2, <1>4, <1>5, <1>6
<1>8. PICK f : f = WideIn(t) OBVIOUS
<1>9. PICK g : g = WideIn(t)' OBVIOUS
<1>10. \A m \in S : f[m] \in Nat BY <1>5, <1>8, WideTyped
<1>11. \A m \in S : g[m] = f[m]
  <2> SUFFICES ASSUME NEW m \in S PROVE g[m] = f[m] OBVIOUS
  <2>1. wideOffers'[m] = wideOffers[m] /\ m \in DOMAIN wideOffers' BY <1>2, <1>4, <1>5, <1>7
  <2>2. f[m] = IF wideOffers[m].open /\ t = DefaultToken THEN wideOffers[m].amount ELSE 0 BY <1>5, <1>8 DEF WideIn
  <2>3. g[m] = IF wideOffers'[m].open /\ t = DefaultToken THEN wideOffers'[m].amount ELSE 0 BY <1>9, <2>1 DEF WideIn
  <2>4. QED BY <2>1, <2>2, <2>3
<1>12. g[z] = IF t = DefaultToken THEN x ELSE 0
  <2>1. z \in DOMAIN wideOffers' BY <1>7
  <2>2. g[z] = IF wideOffers'[z].open /\ t = DefaultToken THEN wideOffers'[z].amount ELSE 0 BY <1>9, <2>1 DEF WideIn
  <2>3. QED BY <1>3, <1>4, <1>6, <2>2
<1>13. IsFiniteSet(S) BY <1>5, WideTyped
<1>14. \A m \in S \cup {z} : g[m] \in Int BY <1>3, <1>10, <1>11, <1>12
<1>15. SumFunctionOnSet(g, S \cup {z}) = g[z] + SumFunctionOnSet(g, S) BY <1>7, <1>13, <1>14, SumInsert
<1>16. \A m \in S : f[m] \in Int BY <1>10
<1>17. SumFunctionOnSet(g, S) = SumFunctionOnSet(f, S) /\ SumFunctionOnSet(f, S) \in Int BY <1>11, <1>13, <1>16, SumBasics
<1>18. PICK total : total = SumFunctionOnSet(f, S) OBVIOUS
<1>19. WideSum(t)' = g[z] + total /\ WideSum(t) = total /\ total \in Int
  BY <1>5, <1>7, <1>8, <1>9, <1>15, <1>17, <1>18 DEF WideSum
<1>20. QED BY <1>3, <1>4, <1>12, <1>19

\* One entry of a sequence is replaced.
LEMMA ReplacedIn ==
    ASSUME NEW S, NEW s \in Seq(S), NEW i \in DOMAIN s, NEW e \in S, NEW r, r = [s EXCEPT ![i] = e]
    PROVE  /\ r \in Seq(S) /\ Len(r) = Len(s) /\ DOMAIN r = DOMAIN s
           /\ r[i] = e /\ \A j \in DOMAIN s : j # i => r[j] = s[j]
<1>1. i \in 1..Len(s) /\ DOMAIN s = 1..Len(s) OBVIOUS
<1>2. r \in Seq(S) /\ Len(r) = Len(s) /\ \A j \in 1..Len(s) : r[j] = IF j = i THEN e ELSE s[j] BY <1>1, ExceptSeq
<1>3. DOMAIN r = 1..Len(r) BY <1>2
<1>4. QED BY <1>1, <1>2, <1>3

\* A collection offer is closed.
LEMMA WideClosed ==
    ASSUME MarketTyped, NEW n \in DOMAIN wideOffers, wideOffers[n].open,
           wideOffers' = [wideOffers EXCEPT ![n].open = FALSE], NEW t
    PROVE  /\ wideOffers' \in Seq(WideRecords) /\ wideOffers[n].amount \in Nat
           /\ WideSum(t)' = WideSum(t) - (IF t = DefaultToken THEN wideOffers[n].amount ELSE 0)
<1>1. wideOffers \in Seq(WideRecords) BY DEF MarketTyped, ListingsOK, RatesOK, HeldOK
<1>2. PICK w : w = wideOffers[n] OBVIOUS
<1>3. w \in WideRecords BY <1>1, <1>2
<1>4. PICK v : v = [w EXCEPT !.open = FALSE] OBVIOUS
<1>5. v \in WideRecords /\ v.open = FALSE BY <1>3, <1>4 DEF WideRecords
<1>6. wideOffers' = [wideOffers EXCEPT ![n] = v] BY <1>2, <1>4
<1>7. /\ wideOffers' \in Seq(WideRecords) /\ DOMAIN wideOffers' = DOMAIN wideOffers
      /\ wideOffers'[n] = v /\ \A m \in DOMAIN wideOffers : m # n => wideOffers'[m] = wideOffers[m]
  <2>1. PICK r : r = wideOffers' OBVIOUS
  <2>2. PICK s : s = wideOffers OBVIOUS
  <2>3. r = [s EXCEPT ![n] = v] /\ s \in Seq(WideRecords) /\ n \in DOMAIN s /\ v \in WideRecords BY <1>1, <1>5, <1>6, <2>1, <2>2
  <2>4. /\ r \in Seq(WideRecords) /\ DOMAIN r = DOMAIN s /\ r[n] = v /\ \A j \in DOMAIN s : j # n => r[j] = s[j]
    BY <2>3, ReplacedIn
  <2>5. QED BY <2>1, <2>2, <2>4
<1>8. PICK x \in Nat : x = w.amount BY <1>3 DEF WideRecords
<1>9. PICK f : f = WideIn(t) OBVIOUS
<1>10. PICK g : g = WideIn(t)' OBVIOUS
<1>11. \A m \in DOMAIN wideOffers : f[m] \in Nat BY <1>9, WideTyped
<1>12. \A m \in DOMAIN wideOffers : m # n => g[m] = f[m]
  <2> SUFFICES ASSUME NEW m \in DOMAIN wideOffers, m # n PROVE g[m] = f[m] OBVIOUS
  <2>1. wideOffers'[m] = wideOffers[m] /\ m \in DOMAIN wideOffers' BY <1>7
  <2>2. f[m] = IF wideOffers[m].open /\ t = DefaultToken THEN wideOffers[m].amount ELSE 0 BY <1>9 DEF WideIn
  <2>3. g[m] = IF wideOffers'[m].open /\ t = DefaultToken THEN wideOffers'[m].amount ELSE 0 BY <1>10, <2>1 DEF WideIn
  <2>4. QED BY <2>1, <2>2, <2>3
<1>13. PICK e \in Int : e = IF t = DefaultToken THEN -x ELSE 0 OBVIOUS
<1>14. g[n] = f[n] + e
  <2>1. f[n] = IF t = DefaultToken THEN x ELSE 0 BY <1>2, <1>8, <1>9 DEF WideIn
  <2>2. g[n] = IF wideOffers'[n].open /\ t = DefaultToken THEN wideOffers'[n].amount ELSE 0 BY <1>7, <1>10 DEF WideIn
  <2>3. g[n] = 0 BY <1>5, <1>7, <2>2
  <2>4. QED BY <1>13, <2>1, <2>3
<1>15. IsFiniteSet(DOMAIN wideOffers) BY WideTyped
<1>16. \A m \in DOMAIN wideOffers : f[m] \in Int BY <1>11
<1>17. SumFunctionOnSet(g, DOMAIN wideOffers) = SumFunctionOnSet(f, DOMAIN wideOffers) + e
  BY <1>12, <1>14, <1>15, <1>16, SumBump
<1>18. WideSum(t)' = WideSum(t) + e BY <1>7, <1>9, <1>10, <1>17 DEF WideSum
<1>19. WideSum(t) \in Nat BY WideTyped
<1>20. WideSum(t)' = WideSum(t) - (IF t = DefaultToken THEN x ELSE 0) BY <1>13, <1>18, <1>19
<1>21. QED BY <1>2, <1>7, <1>8, <1>20

\* What the marketplace holds moves with what is offered and what is left behind.
LEMMA BackedOn ==
    ASSUME MarketTyped, OffersBacked, NEW t \in PayTokens, NEW d \in Int, NEW e \in Int, NEW x \in Int,
           OfferSum(t)' = OfferSum(t) + d, WideSum(t)' = WideSum(t) + e, overwritten'[t] = overwritten[t] + x,
           marketFunds'[Market][t] = marketFunds[Market][t] + d + e + x
    PROVE  marketFunds'[Market][t] = Promised(t)' + overwritten'[t]
<1>1. OfferSum(t) \in Nat /\ WideSum(t) \in Nat
  <2>1. OfferSum(t) \in Nat BY OffersTyped
  <2>2. WideSum(t) \in Nat BY WideTyped
  <2>3. QED BY <2>1, <2>2
<1>2. overwritten[t] \in Int BY DEF MarketTyped, ListingsOK, RatesOK, HeldOK
<1>3. marketFunds[Market][t] = OfferSum(t) + WideSum(t) + overwritten[t] BY DEF OffersBacked, Promised, OfferSum, WideSum
<1>4. Promised(t)' = OfferSum(t)' + WideSum(t)' BY DEF Promised, OfferSum, WideSum
<1>5. QED BY <1>1, <1>2, <1>3, <1>4

\* The invariant, taken apart.
LEMMA InvParts ==
    ASSUME MarketInv
    PROVE  MarketTyped /\ RatesOK /\ BundlesOK /\ ListingsOK /\ HeldOK /\ NoOffersAhead /\ OffersBacked
BY DEF MarketInv, MarketTyped

\* The invariant, put together.
LEMMA InvMade ==
    ASSUME RatesOK', BundlesOK', ListingsOK', HeldOK', NoOffersAhead', OffersBacked'
    PROVE  MarketInv'
BY DEF MarketInv, MarketTyped

\* Rates and splits that do not change stay in range.
LEMMA RatesKept == ASSUME RatesOK, UNCHANGED <<tokenBps, nftConf, splits>> PROVE RatesOK'
BY DEF RatesOK

\* Bundles that do not change stay in order.
LEMMA BundlesKept == ASSUME BundlesOK, UNCHANGED bundles PROVE BundlesOK'
BY DEF BundlesOK

\* Listings whose terms do not change stay in order.
LEMMA ListingsKept ==
    ASSUME ListingsOK, SameTerms, now' \in Nat
    PROVE  ListingsOK'
<1>1. /\ listings \in Seq(ListingRecords) /\ Len(listings) <= MaxListings /\ \A l \in DOMAIN listings : Priced(l)
  BY DEF ListingsOK
<1>2. /\ listings' \in Seq(ListingRecords) /\ Len(listings') = Len(listings)
      /\ \A l \in DOMAIN listings : listings'[l].terms = listings[l].terms
  BY DEF SameTerms
<1>3. DOMAIN listings' = DOMAIN listings BY <1>1, <1>2
<1>4. ASSUME NEW l \in DOMAIN listings PROVE Priced(l)'
  <2>1. listings'[l].terms = listings[l].terms BY <1>2
  <2>2. Priced(l) BY <1>1
  <2>3. QED BY <2>1, <2>2 DEF Priced
<1>5. \A l \in DOMAIN listings' : Priced(l)' BY <1>3, <1>4
<1>6. Len(listings') <= MaxListings BY <1>1, <1>2
<1>7. QED BY <1>2, <1>5, <1>6 DEF ListingsOK

\* Steps about listings on record put no offer on a later one.
LEMMA NoneAhead ==
    ASSUME ListingsOK, NoOffersAhead, SameTerms, \A k \in ListingIds \ DOMAIN listings : offers'[k] = offers[k]
    PROVE  NoOffersAhead'
<1>1. listings \in Seq(ListingRecords) BY DEF ListingsOK
<1>2. DOMAIN listings' = DOMAIN listings BY <1>1 DEF SameTerms
<1>3. ASSUME NEW k \in ListingIds \ DOMAIN listings, NEW b \in Collectors PROVE offers'[k][b].amount = 0
  <2>1. offers'[k] = offers[k] OBVIOUS
  <2>2. offers[k][b].amount = 0 BY DEF NoOffersAhead
  <2>3. QED BY <2>1, <2>2
<1>4. QED BY <1>2, <1>3 DEF NoOffersAhead

\* A step that touches no escrow.
LEMMA EscrowQuiet ==
    ASSUME MarketInv, SameTerms, UNCHANGED <<offers, wideOffers, overwritten>>, marketFunds' \in Purses,
           \A t \in PayTokens : marketFunds'[Market][t] = marketFunds[Market][t],
           RatesOK', BundlesOK', now' \in Nat
    PROVE  MarketInv'
<1>1. MarketTyped /\ ListingsOK /\ HeldOK /\ NoOffersAhead /\ OffersBacked BY InvParts
<1>2. ListingsOK' BY <1>1, ListingsKept
<1>3. NoOffersAhead' BY <1>1, NoneAhead
<1>4. HeldOK' BY <1>1 DEF HeldOK
<1>5. ASSUME NEW t \in PayTokens PROVE marketFunds'[Market][t] = Promised(t)' + overwritten'[t]
  <2>1. OfferSum(t)' = OfferSum(t) BY <1>1, OffersStay
  <2>2. WideSum(t)' = WideSum(t) BY WidesStay
  <2>3. Promised(t)' = Promised(t) BY <2>1, <2>2 DEF Promised, OfferSum, WideSum
  <2>4. marketFunds[Market][t] = Promised(t) + overwritten[t] BY <1>1 DEF OffersBacked
  <2>5. QED BY <2>3, <2>4
<1>6. OffersBacked' BY <1>5 DEF OffersBacked
<1>7. QED BY <1>2, <1>3, <1>4, <1>6, InvMade

\* A step after which the offers on l come to d more.
LEMMA EscrowMoves ==
    ASSUME MarketInv, SameTerms, NEW l \in DOMAIN listings, NEW d \in Int, OffersOn(l)' = OffersOn(l) + d,
           \A k \in ListingIds : k # l => offers'[k] = offers[k],
           offers' \in [ListingIds -> [Collectors -> OfferRecords]],
           UNCHANGED <<wideOffers, overwritten>>, marketFunds' \in Purses,
           \A t \in PayTokens :
             marketFunds'[Market][t] = marketFunds[Market][t] + (IF t = listings[l].terms.pay THEN d ELSE 0),
           RatesOK', BundlesOK', now' \in Nat
    PROVE  MarketInv'
<1>1. MarketTyped /\ ListingsOK /\ HeldOK /\ NoOffersAhead /\ OffersBacked BY InvParts
<1>2. ListingsOK' BY <1>1, ListingsKept
<1>3. NoOffersAhead'
  <2>1. \A k \in ListingIds \ DOMAIN listings : offers'[k] = offers[k] OBVIOUS
  <2>2. QED BY <1>1, <2>1, NoneAhead
<1>4. HeldOK' BY <1>1 DEF HeldOK
<1>5. ASSUME NEW t \in PayTokens PROVE marketFunds'[Market][t] = Promised(t)' + overwritten'[t]
  <2>0. PICK z \in Int : z = 0 OBVIOUS
  <2>1. PICK e \in Int : e = IF t = listings[l].terms.pay THEN d ELSE 0 OBVIOUS
  <2>2. OfferSum(t)' = OfferSum(t) + e BY <1>1, <2>1, OfferMoves
  <2>3. WideSum(t) \in Nat BY <1>1, WideTyped
  <2>4. WideSum(t)' = WideSum(t) + z
    <3>1. WideSum(t)' = WideSum(t) BY WidesStay
    <3>2. QED BY <2>0, <2>3, <3>1
  <2>5. overwritten[t] \in Int /\ marketFunds[Market][t] \in Int
    <3>1. Market \in Wallets BY WalletFacts
    <3>2. QED BY <1>1, <3>1 DEF HeldOK, Purses
  <2>6. overwritten'[t] = overwritten[t] + z BY <2>0, <2>5
  <2>7. marketFunds'[Market][t] = marketFunds[Market][t] + e + z + z BY <2>0, <2>1, <2>5
  <2>8. QED BY <1>1, <2>2, <2>4, <2>6, <2>7, BackedOn
<1>6. OffersBacked' BY <1>5 DEF OffersBacked
<1>7. QED BY <1>2, <1>3, <1>4, <1>6, InvMade

\* A step after which the collection offers come to d more.
LEMMA EscrowWidens ==
    ASSUME MarketInv, SameTerms, NEW d \in Int,
           \A t : WideSum(t)' = WideSum(t) + (IF t = DefaultToken THEN d ELSE 0),
           wideOffers' \in Seq(WideRecords),
           UNCHANGED <<offers, overwritten>>, marketFunds' \in Purses,
           \A t \in PayTokens :
             marketFunds'[Market][t] = marketFunds[Market][t] + (IF t = DefaultToken THEN d ELSE 0),
           RatesOK', BundlesOK', now' \in Nat
    PROVE  MarketInv'
<1>1. MarketTyped /\ ListingsOK /\ HeldOK /\ NoOffersAhead /\ OffersBacked BY InvParts
<1>2. ListingsOK' BY <1>1, ListingsKept
<1>3. NoOffersAhead' BY <1>1, NoneAhead
<1>4. HeldOK' BY <1>1 DEF HeldOK
<1>5. ASSUME NEW t \in PayTokens PROVE marketFunds'[Market][t] = Promised(t)' + overwritten'[t]
  <2>0. PICK z \in Int : z = 0 OBVIOUS
  <2>1. PICK e \in Int : e = IF t = DefaultToken THEN d ELSE 0 OBVIOUS
  <2>2. WideSum(t)' = WideSum(t) + e BY <2>1
  <2>3. OfferSum(t) \in Nat BY <1>1, OffersTyped
  <2>4. OfferSum(t)' = OfferSum(t) + z
    <3>1. OfferSum(t)' = OfferSum(t) BY <1>1, OffersStay
    <3>2. QED BY <2>0, <2>3, <3>1
  <2>5. overwritten[t] \in Int /\ marketFunds[Market][t] \in Int
    <3>1. Market \in Wallets BY WalletFacts
    <3>2. QED BY <1>1, <3>1 DEF HeldOK, Purses
  <2>6. overwritten'[t] = overwritten[t] + z BY <2>0, <2>5
  <2>7. marketFunds'[Market][t] = marketFunds[Market][t] + z + e + z BY <2>0, <2>1, <2>5
  <2>8. QED BY <1>1, <2>2, <2>4, <2>6, <2>7, BackedOn
<1>6. OffersBacked' BY <1>5 DEF OffersBacked
<1>7. QED BY <1>2, <1>3, <1>4, <1>6, InvMade

\* What a payment that succeeds does to the books.
LEMMA PaidMoves ==
    ASSUME MarketTyped, NEW from \in Wallets, NEW to \in Wallets, NEW t \in PayTokens, NEW x \in Int,
           Paid(Pays(Books, from, to, t, x))
    PROVE  /\ marketFunds' \in Purses
           /\ \A a \in Wallets, s \in PayTokens :
                /\ marketFunds[a][s] \in Int
                /\ marketFunds'[a][s] = marketFunds[a][s] + (IF a = to /\ s = t THEN x ELSE 0)
                                          - (IF a = from /\ s = t THEN x ELSE 0)
<1>1. PICK b : b = Books OBVIOUS
<1>2. PICK r : r = Pays(b, from, to, t, x) OBVIOUS
<1>3. b \in Ledgers /\ b.funds = marketFunds /\ marketFunds \in Purses BY <1>1, BooksTyped
<1>4. Moved(b, r, from, to, t, x) BY <1>2, <1>3, PaysMoves
<1>5. marketFunds' = r.funds BY <1>1, <1>2 DEF Paid
<1>6. r \in Ledgers BY <1>4 DEF Moved
<1>7. marketFunds' \in Purses BY <1>5, <1>6 DEF Ledgers
<1>8. \A a \in Wallets, s \in PayTokens : marketFunds[a][s] \in Int BY <1>3 DEF Purses
<1>9. ASSUME NEW a \in Wallets, NEW s \in PayTokens
      PROVE  marketFunds'[a][s] = marketFunds[a][s] + (IF a = to /\ s = t THEN x ELSE 0)
                                    - (IF a = from /\ s = t THEN x ELSE 0)
  <2>1. r.funds[a][s] = b.funds[a][s] + (IF a = to /\ s = t THEN x ELSE 0) - (IF a = from /\ s = t THEN x ELSE 0)
    BY <1>4 DEF Moved
  <2>2. QED BY <1>3, <1>5, <2>1
<1>10. QED BY <1>7, <1>8, <1>9

\* A collector pays into the escrow.
LEMMA PaidIn ==
    ASSUME MarketTyped, NEW b \in Collectors, NEW t \in PayTokens, NEW x \in Int, Paid(Pays(Books, b, Market, t, x))
    PROVE  /\ marketFunds' \in Purses
           /\ \A s \in PayTokens : marketFunds'[Market][s] = marketFunds[Market][s] + (IF s = t THEN x ELSE 0)
<1>1. b \in Wallets /\ Market \in Wallets /\ b # Market BY WalletFacts
<1>2. /\ marketFunds' \in Purses
      /\ \A s \in PayTokens :
           /\ marketFunds[Market][s] \in Int
           /\ marketFunds'[Market][s] = marketFunds[Market][s] + (IF Market = Market /\ s = t THEN x ELSE 0)
                                     - (IF Market = b /\ s = t THEN x ELSE 0)
  BY <1>1, PaidMoves
<1>3. QED BY <1>1, <1>2

\* The escrow pays a collector.
LEMMA PaidOut ==
    ASSUME MarketTyped, NEW b \in Collectors, NEW t \in PayTokens, NEW x \in Int, Paid(Pays(Books, Market, b, t, x))
    PROVE  /\ marketFunds' \in Purses
           /\ \A s \in PayTokens : marketFunds'[Market][s] = marketFunds[Market][s] + (IF s = t THEN -x ELSE 0)
<1>1. b \in Wallets /\ Market \in Wallets /\ b # Market BY WalletFacts
<1>2. /\ marketFunds' \in Purses
      /\ \A s \in PayTokens :
           /\ marketFunds[Market][s] \in Int
           /\ marketFunds'[Market][s] = marketFunds[Market][s] + (IF Market = b /\ s = t THEN x ELSE 0)
                                     - (IF Market = Market /\ s = t THEN x ELSE 0)
  BY <1>1, PaidMoves
<1>3. QED BY <1>1, <1>2

\* An offer pays for a sale: the escrow gives up its amount, and the seller or the
\* royalty recipients gain.
LEMMA SaleOut ==
    ASSUME MarketTyped, NEW seller \in Collectors, NEW i \in TokenIds, NEW t \in PayTokens, NEW price \in Nat,
           NEW d \in Rates, Paid(PaySale(Books, Market, seller, i, t, price, d))
    PROVE  /\ marketFunds' \in Purses
           /\ \A s \in PayTokens : marketFunds'[Market][s] = marketFunds[Market][s] + (IF s = t THEN -price ELSE 0)
           /\ price > 0 => Gained(marketFunds, marketFunds', seller, t)
<1>1. seller \in Wallets /\ Market \in Wallets /\ Royal \in Wallets /\ seller # Market /\ Market # Royal /\ seller # Royal
  BY WalletFacts
<1>2. PICK b : b = Books OBVIOUS
<1>3. b \in Ledgers /\ b.funds = marketFunds /\ marketFunds \in Purses BY <1>2, BooksTyped
<1>4. PICK r : r = PaySale(b, Market, seller, i, t, price, d) OBVIOUS
<1>5. PICK cut \in Nat : SoldFor(price, cut) /\ SoldTo(b, r, Market, seller, t, price, cut) BY <1>1, <1>3, <1>4, SaleFacts
<1>6. marketFunds' = r.funds BY <1>2, <1>4 DEF Paid
<1>7. r \in Ledgers BY <1>5 DEF SoldTo
<1>8. PICK f \in Purses : f = marketFunds BY <1>3
<1>9. PICK g \in Purses : g = marketFunds' BY <1>6, <1>7 DEF Ledgers
<1>10. ASSUME NEW a \in Wallets, NEW s \in PayTokens
       PROVE  f[a][s] \in Int
              /\ g[a][s] = f[a][s] + (IF a = seller /\ s = t THEN price - cut ELSE 0)
                             + (IF a = Royal /\ s = t THEN cut ELSE 0) - (IF a = Market /\ s = t THEN price ELSE 0)
  <2>1. f[a][s] \in Int BY DEF Purses
  <2>2. QED BY <1>3, <1>5, <1>6, <1>8, <1>9, <2>1 DEF SoldTo
<1>11. ASSUME NEW s \in PayTokens PROVE g[Market][s] = f[Market][s] + (IF s = t THEN -price ELSE 0)
  <2>1. PICK n \in Int : n = f[Market][s] BY <1>1, <1>10
  <2>2. g[Market][s] = n + 0 + 0 - (IF s = t THEN price ELSE 0) BY <1>1, <1>10, <2>1
  <2>3. QED BY <2>1, <2>2
<1>12. ASSUME price > 0 PROVE Gained(f, g, seller, t)
  <2> SUFFICES ASSUME RoyaltiesLeave PROVE g[seller][t] > f[seller][t] BY DEF Gained
  <2>1. PICK n \in Int : n = f[seller][t] BY <1>1, <1>10
  <2>2. g[seller][t] = n + (price - cut) BY <1>1, <1>10, <2>1
  <2>3. cut < price BY <1>5, <1>12 DEF SoldFor
  <2>4. QED BY <2>1, <2>2, <2>3
<1>13. QED BY <1>8, <1>9, <1>11, <1>12

\* A collector pays for a sale: the escrow keeps what it has.
LEMMA SaleIn ==
    ASSUME MarketTyped, NEW buyer \in Collectors, NEW seller \in Collectors, NEW i \in TokenIds,
           NEW t \in PayTokens, NEW price \in Nat, price > 0, NEW d \in Rates,
           Paid(PaySale(Books, buyer, seller, i, t, price, d))
    PROVE  /\ marketFunds' \in Purses /\ Grown(marketFunds, marketFunds', buyer)
           /\ seller # buyer => Gained(marketFunds, marketFunds', seller, t)
<1>1. PICK b : b = Books OBVIOUS
<1>2. b \in Ledgers /\ b.funds = marketFunds /\ marketFunds \in Purses BY <1>1, BooksTyped
<1>3. PICK r : r = PaySale(b, buyer, seller, i, t, price, d) OBVIOUS
<1>4. /\ r \in Ledgers /\ Grown(b.funds, r.funds, buyer)
      /\ seller # buyer => Gained(b.funds, r.funds, seller, t)
  BY <1>2, <1>3, BuyerPays
<1>5. marketFunds' = r.funds BY <1>1, <1>3 DEF Paid
<1>6. marketFunds' \in Purses BY <1>4, <1>5 DEF Ledgers
<1>7. QED BY <1>2, <1>4, <1>5, <1>6

\* Books that do not change.
LEMMA FundsKept ==
    ASSUME MarketTyped, UNCHANGED marketFunds
    PROVE  marketFunds' \in Purses /\ \A t \in PayTokens : marketFunds'[Market][t] = marketFunds[Market][t]
BY DEF MarketTyped, HeldOK

\* The clock is a number.
LEMMA ClockTyped == ASSUME MarketTyped PROVE now \in Nat
BY DEF MarketTyped, ListingsOK

\* Listings are closed, or nothing that trades depend on changes.
LEMMA CloseKeeps ==
    ASSUME MarketInv, SameTerms, UNCHANGED <<bundles, offers, wideOffers, marketFunds, overwritten, tokenBps, nftConf, splits>>,
           now' \in Nat
    PROVE  MarketInv'
<1>1. MarketTyped /\ RatesOK /\ BundlesOK BY InvParts
<1>2. RatesOK' /\ BundlesOK' BY <1>1, RatesKept, BundlesKept
<1>3. marketFunds' \in Purses /\ \A t \in PayTokens : marketFunds'[Market][t] = marketFunds[Market][t] BY <1>1, FundsKept
<1>4. QED BY <1>2, <1>3, EscrowQuiet

\* set_royalty_splits checks the sum of the shares.
LEMMA SplitsKeep ==
    ASSUME MarketInv, NEW s \in Splits, SetRoyaltySplits(s)
    PROVE  MarketInv'
<1>1. MarketTyped /\ RatesOK /\ BundlesOK /\ now \in Nat BY InvParts, ClockTyped
<1>2. /\ SumFunctionOnSet(s, DOMAIN s) <= 10000 /\ splits' = s
      /\ UNCHANGED <<now, tokenBps, nftConf, listings, bundles, offers, wideOffers, marketFunds, overwritten>>
  BY DEF SetRoyaltySplits, nftVars, nftOnlyVars
<1>3. s \in Seq(Nat) BY RateAssumption
<1>4. RatesOK' BY <1>1, <1>2, <1>3 DEF RatesOK
<1>5. BundlesOK' BY <1>1, <1>2, BundlesKept
<1>6. SameTerms BY <1>1, <1>2, KeptTerms
<1>7. marketFunds' \in Purses /\ \A t \in PayTokens : marketFunds'[Market][t] = marketFunds[Market][t]
  BY <1>1, <1>2, FundsKept
<1>8. QED BY <1>1, <1>2, <1>4, <1>5, <1>6, <1>7, EscrowQuiet

\* A bundle is created with a price and with tokens.
LEMMA CreateBundleKeeps ==
    ASSUME MarketInv, NEW a \in Collectors, NEW t \in BundleTerms, CreateBundle(a, t)
    PROVE  MarketInv'
<1>1. MarketTyped /\ RatesOK /\ BundlesOK /\ now \in Nat BY InvParts, ClockTyped
<1>2. /\ t.tokens # <<>> /\ t.price > 0 /\ bundles' = Append(bundles, [terms |-> t, seller |-> a, active |-> TRUE])
      /\ UNCHANGED <<now, tokenBps, nftConf, splits, listings, offers, wideOffers, marketFunds, overwritten>>
  BY DEF CreateBundle, nftVars, nftOnlyVars, marketSetup
<1>3. RatesOK' BY <1>1, <1>2, RatesKept
<1>4. BundlesOK'
  <2>1. PICK w : w = [terms |-> t, seller |-> a, active |-> TRUE] OBVIOUS
  <2>2. w \in BundleRecords /\ w.terms = t BY <2>1 DEF BundleRecords
  <2>3. bundles \in Seq(BundleRecords) BY <1>1 DEF BundlesOK
  <2>4. \A n \in DOMAIN bundles : bundles[n].terms.price > 0 /\ bundles[n].terms.tokens # <<>> BY <1>1 DEF BundlesOK
  <2>5. bundles' = Append(bundles, w) BY <1>2, <2>1
  <2>6. PICK m \in Nat : m = Len(bundles) /\ DOMAIN bundles = 1..m BY <2>3
  <2>7. /\ bundles' \in Seq(BundleRecords) /\ DOMAIN bundles' = 1..(m + 1) /\ bundles'[m + 1] = w
        /\ \A n \in 1..m : bundles'[n] = bundles[n]
    BY <2>2, <2>3, <2>5, <2>6
  <2>8. ASSUME NEW n \in DOMAIN bundles' PROVE bundles'[n].terms.price > 0 /\ bundles'[n].terms.tokens # <<>>
    <3>1. CASE n = m + 1 BY <1>2, <2>2, <2>7, <3>1
    <3>2. CASE n # m + 1
      <4>1. n \in 1..m BY <2>7, <3>2
      <4>2. QED BY <2>4, <2>6, <2>7, <4>1
    <3>3. QED BY <3>1, <3>2
  <2>9. QED BY <2>7, <2>8 DEF BundlesOK
<1>5. SameTerms BY <1>1, <1>2, KeptTerms
<1>6. marketFunds' \in Purses /\ \A s \in PayTokens : marketFunds'[Market][s] = marketFunds[Market][s]
  BY <1>1, <1>2, FundsKept
<1>7. QED BY <1>1, <1>2, <1>3, <1>4, <1>5, <1>6, EscrowQuiet

\* A bundle that ends keeps its terms.
LEMMA BundleOver ==
    ASSUME BundlesOK, NEW n \in DOMAIN bundles, bundles' = [bundles EXCEPT ![n].active = FALSE]
    PROVE  BundlesOK'
<1>1. bundles \in Seq(BundleRecords) BY DEF BundlesOK
<1>2. \A m \in DOMAIN bundles : bundles[m].terms.price > 0 /\ bundles[m].terms.tokens # <<>> BY DEF BundlesOK
<1>3. PICK w : w = bundles[n] OBVIOUS
<1>4. w \in BundleRecords BY <1>1, <1>3
<1>5. PICK v : v = [w EXCEPT !.active = FALSE] OBVIOUS
<1>6. v \in BundleRecords /\ v.terms = w.terms BY <1>4, <1>5 DEF BundleRecords
<1>7. bundles' = [bundles EXCEPT ![n] = v] BY <1>3, <1>5
<1>8. PICK r : r = bundles' OBVIOUS
<1>9. PICK s : s = bundles OBVIOUS
<1>10. r = [s EXCEPT ![n] = v] /\ s \in Seq(BundleRecords) /\ n \in DOMAIN s BY <1>1, <1>7, <1>8, <1>9
<1>11. /\ r \in Seq(BundleRecords) /\ DOMAIN r = DOMAIN s /\ r[n] = v /\ \A j \in DOMAIN s : j # n => r[j] = s[j]
  BY <1>6, <1>10, ReplacedIn
<1>12. ASSUME NEW m \in DOMAIN r PROVE r[m].terms.price > 0 /\ r[m].terms.tokens # <<>>
  <2>1. CASE m = n
    <3>1. r[m].terms = bundles[n].terms BY <1>3, <1>6, <1>11, <2>1
    <3>2. QED BY <1>2, <3>1
  <2>2. CASE m # n
    <3>1. r[m] = bundles[m] /\ m \in DOMAIN bundles BY <1>9, <1>11, <2>2
    <3>2. QED BY <1>2, <3>1
  <2>3. QED BY <2>1, <2>2
<1>13. QED BY <1>8, <1>11, <1>12 DEF BundlesOK

\* delist_bundle moves no money.
LEMMA DelistBundleKeeps ==
    ASSUME MarketInv, NEW n, DelistBundle(n)
    PROVE  MarketInv'
<1>1. MarketTyped /\ RatesOK /\ BundlesOK /\ now \in Nat BY InvParts, ClockTyped
<1>2. /\ n \in DOMAIN bundles /\ bundles' = [bundles EXCEPT ![n].active = FALSE]
      /\ UNCHANGED <<now, tokenBps, nftConf, splits, listings, offers, wideOffers, marketFunds, overwritten>>
  BY DEF DelistBundle, nftVars, nftOnlyVars, marketSetup
<1>3. RatesOK' /\ BundlesOK' BY <1>1, <1>2, RatesKept, BundleOver
<1>4. SameTerms BY <1>1, <1>2, KeptTerms
<1>5. marketFunds' \in Purses /\ \A s \in PayTokens : marketFunds'[Market][s] = marketFunds[Market][s]
  BY <1>1, <1>2, FundsKept
<1>6. QED BY <1>1, <1>2, <1>3, <1>4, <1>5, EscrowQuiet

\* The terms of a bundle.
LEMMA BundleFields ==
    ASSUME BundlesOK, NEW n \in DOMAIN bundles
    PROVE  /\ bundles[n].seller \in Collectors /\ bundles[n].terms.price \in Nat /\ bundles[n].terms.price > 0
           /\ bundles[n].terms.tokens \in Seq(TokenIds) /\ bundles[n].terms.pay \in PayTokens
           /\ 1 \in DOMAIN bundles[n].terms.tokens /\ bundles[n].terms.tokens[1] \in TokenIds
<1>1. bundles \in Seq(BundleRecords) /\ bundles[n].terms.price > 0 /\ bundles[n].terms.tokens # <<>> BY DEF BundlesOK
<1>2. PICK w : w = bundles[n] OBVIOUS
<1>3. w \in BundleRecords BY <1>1, <1>2
<1>4. PICK t \in BundleTerms : t = w.terms BY <1>3 DEF BundleRecords
<1>5. t.tokens \in Seq(TokenIds) /\ t.price \in Int /\ t.pay \in PayTokens BY TermsAssumption
<1>6. PICK s \in Seq(TokenIds) : s = t.tokens BY <1>5
<1>7. s # <<>> BY <1>1, <1>2, <1>4, <1>6
<1>8. 1 \in DOMAIN s /\ s[1] \in TokenIds BY <1>7
<1>9. w.seller \in Collectors BY <1>3 DEF BundleRecords
<1>10. PICK p \in Int : p = t.price BY <1>5
<1>11. p > 0 BY <1>1, <1>2, <1>4, <1>10
<1>12. p \in Nat BY <1>11
<1>13. QED BY <1>2, <1>4, <1>5, <1>6, <1>8, <1>9, <1>10, <1>11, <1>12

\* A bundle is paid by its buyer, past the escrow.
LEMMA BuyBundleKeeps ==
    ASSUME MarketInv, NEW b \in Collectors, NEW n, BuyBundle(b, n)
    PROVE  MarketInv'
<1>1. MarketTyped /\ RatesOK /\ BundlesOK /\ now \in Nat BY InvParts, ClockTyped
<1>2. /\ n \in DOMAIN bundles /\ bundles' = [bundles EXCEPT ![n].active = FALSE]
      /\ Paid(PaySale(Books, b, bundles[n].seller, bundles[n].terms.tokens[1], bundles[n].terms.pay, bundles[n].terms.price, 0))
      /\ UNCHANGED <<now, tokenBps, nftConf, splits, listings, offers, wideOffers, overwritten>>
  BY DEF BuyBundle, Deliver, marketSetup
<1>3. RatesOK' /\ BundlesOK' BY <1>1, <1>2, RatesKept, BundleOver
<1>4. SameTerms BY <1>1, <1>2, KeptTerms
<1>5. PICK seller \in Collectors : seller = bundles[n].seller BY <1>1, <1>2, BundleFields
<1>6. PICK price \in Nat : price = bundles[n].terms.price /\ price > 0 BY <1>1, <1>2, BundleFields
<1>7. PICK t \in PayTokens : t = bundles[n].terms.pay BY <1>1, <1>2, BundleFields
<1>8. PICK i \in TokenIds : i = bundles[n].terms.tokens[1] BY <1>1, <1>2, BundleFields
<1>9. PICK d \in Rates : d = 0 BY DEF Rates
<1>10. Paid(PaySale(Books, b, seller, i, t, price, d)) BY <1>2, <1>5, <1>6, <1>7, <1>8, <1>9
<1>11. marketFunds' \in Purses /\ Grown(marketFunds, marketFunds', b) BY <1>1, <1>6, <1>10, SaleIn
<1>12. \A s \in PayTokens : marketFunds'[Market][s] = marketFunds[Market][s] BY <1>11 DEF Grown
<1>13. QED BY <1>1, <1>2, <1>3, <1>4, <1>11, <1>12, EscrowQuiet

\* What the payments of a purchase lead to.
LEMMA BuyPays ==
    ASSUME MarketInv, NEW b \in Collectors, NEW ids \in IdLists, NEW x, NEW d \in Discounts, Buy(b, ids, x, d)
    PROVE  /\ marketFunds' \in Purses /\ Grown(marketFunds, marketFunds', b)
           /\ \A z \in DOMAIN ids : listings[ids[z]].seller # b =>
                Gained(marketFunds, marketFunds', listings[ids[z]].seller, listings[ids[z]].terms.pay)
<1>1. MarketTyped /\ ListingsOK BY InvParts
<1>2. /\ {ids[z] : z \in DOMAIN ids} \subseteq DOMAIN listings
      /\ \A l \in {ids[z] : z \in DOMAIN ids} : listings[l].terms.start # listings[l].terms.stop => now >= listings[l].terms.start
      /\ Paid(Purchases(b, ids, d))
  BY DEF Buy
<1>3. ids \in Seq(Nat) /\ d \in Rates BY RateAssumption, OfferAssumption DEF Rates
<1>4. \A l \in DOMAIN listings : Priced(l) BY <1>1 DEF ListingsOK
<1>5. \A z \in DOMAIN ids :
        /\ ids[z] \in DOMAIN listings /\ Priced(ids[z])
        /\ listings[ids[z]].terms.start # listings[ids[z]].terms.stop => now >= listings[ids[z]].terms.start
  BY <1>2, <1>4
<1>6. PICK r : r = Purchases(b, ids, d) OBVIOUS
<1>7. r \in Bought(b, ids, DOMAIN ids) BY <1>1, <1>3, <1>5, <1>6, PurchasesPay
<1>8. marketFunds' = r.funds BY <1>2, <1>6 DEF Paid
<1>9. r \in Ledgers BY <1>7 DEF Bought
<1>10. marketFunds' \in Purses BY <1>8, <1>9 DEF Ledgers
<1>11. QED BY <1>7, <1>8, <1>10 DEF Bought

\* So are listings.
LEMMA BuyKeeps ==
    ASSUME MarketInv, NEW b \in Collectors, NEW ids \in IdLists, NEW x, NEW d \in Discounts, Buy(b, ids, x, d)
    PROVE  MarketInv'
<1>1. MarketTyped /\ RatesOK /\ BundlesOK /\ now \in Nat BY InvParts, ClockTyped
<1>2. /\ listings' = Closed({ids[z] : z \in DOMAIN ids})
      /\ UNCHANGED <<now, tokenBps, nftConf, splits, bundles, offers, wideOffers, overwritten>>
  BY DEF Buy, Deliver, marketSetup
<1>3. RatesOK' /\ BundlesOK' BY <1>1, <1>2, RatesKept, BundlesKept
<1>4. SameTerms BY <1>1, <1>2, ClosedTerms
<1>5. marketFunds' \in Purses /\ Grown(marketFunds, marketFunds', b) BY BuyPays
<1>6. \A s \in PayTokens : marketFunds'[Market][s] = marketFunds[Market][s] BY <1>5 DEF Grown
<1>7. QED BY <1>1, <1>2, <1>3, <1>4, <1>5, <1>6, EscrowQuiet

\* One offer is replaced.
LEMMA OfferReplaced ==
    ASSUME MarketTyped, NEW l \in ListingIds, NEW b \in Collectors, NEW o \in OfferRecords,
           offers' = [offers EXCEPT ![l][b] = o]
    PROVE  /\ offers' \in [ListingIds -> [Collectors -> OfferRecords]]
           /\ \A k \in ListingIds : k # l => offers'[k] = offers[k]
           /\ offers[l][b].amount \in Nat /\ o.amount \in Nat
           /\ OffersOn(l)' = OffersOn(l) + (o.amount - offers[l][b].amount)
<1>1. offers \in [ListingIds -> [Collectors -> OfferRecords]] BY DEF MarketTyped, HeldOK
<1>2. /\ offers' \in [ListingIds -> [Collectors -> OfferRecords]]
      /\ \A k \in ListingIds : k # l => offers'[k] = offers[k]
      /\ offers'[l][b] = o /\ \A c \in Collectors : c # b => offers'[l][c] = offers[l][c]
  BY <1>1
<1>3. PICK f : f = [c \in Collectors |-> offers[l][c].amount] OBVIOUS
<1>4. PICK g : g = [c \in Collectors |-> offers'[l][c].amount] OBVIOUS
<1>5. \A c \in Collectors : f[c] \in Nat BY <1>3, OffersTyped
<1>6. PICK y \in Nat : y = o.amount BY DEF OfferRecords
<1>7. PICK n \in Nat : n = offers[l][b].amount BY OffersTyped
<1>8. PICK e \in Int : e = y - n OBVIOUS
<1>9. g[b] = f[b] + e BY <1>2, <1>3, <1>4, <1>6, <1>7, <1>8
<1>10. \A c \in Collectors : c # b => g[c] = f[c] BY <1>2, <1>3, <1>4
<1>11. IsFiniteSet(Collectors) BY WalletFacts
<1>12. \A c \in Collectors : f[c] \in Int BY <1>5
<1>13. SumFunctionOnSet(g, Collectors) = SumFunctionOnSet(f, Collectors) + e BY <1>9, <1>10, <1>11, <1>12, SumBump
<1>14. OffersOn(l)' = OffersOn(l) + e BY <1>3, <1>4, <1>13 DEF OffersOn
<1>15. QED BY <1>2, <1>6, <1>7, <1>8, <1>14

\* An offer pulls, or pays back, the difference to the one it replaces.
LEMMA MakeOfferKeeps ==
    ASSUME MarketInv, NEW b \in Collectors, NEW l \in ListingIds, NEW x \in OfferAmounts, NEW u \in OfferExpiries,
           MakeOffer(b, l, x, u)
    PROVE  MarketInv'
<1>1. MarketTyped /\ RatesOK /\ BundlesOK /\ now \in Nat BY InvParts, ClockTyped
<1>2. /\ l \in DOMAIN listings /\ x > 0 /\ Paid(Pays(Books, b, Market, listings[l].terms.pay, Delta(l, b, x)))
      /\ offers' = [offers EXCEPT ![l][b] = [amount |-> x, expires |-> u]]
      /\ UNCHANGED <<now, tokenBps, nftConf, splits, listings, bundles, wideOffers, overwritten>>
  BY DEF MakeOffer, nftVars, nftOnlyVars, marketSetup
<1>3. x \in Int /\ u \in Nat BY OfferAssumption
<1>4. x \in Nat BY <1>2, <1>3
<1>a. PICK o : o = [amount |-> x, expires |-> u] OBVIOUS
<1>5. o = [amount |-> x, expires |-> u] /\ o.amount = x /\ o \in OfferRecords BY <1>a, <1>3, <1>4 DEF OfferRecords
<1>6. offers' = [offers EXCEPT ![l][b] = o] BY <1>2, <1>5
<1>7. /\ offers' \in [ListingIds -> [Collectors -> OfferRecords]]
      /\ \A k \in ListingIds : k # l => offers'[k] = offers[k]
      /\ offers[l][b].amount \in Nat
      /\ OffersOn(l)' = OffersOn(l) + (o.amount - offers[l][b].amount)
  BY <1>1, <1>5, <1>6, OfferReplaced, ZenonT(60)
<1>8. PICK d \in Int : d = x - offers[l][b].amount BY <1>4, <1>7
<1>9. OffersOn(l)' = OffersOn(l) + d BY <1>5, <1>7, <1>8
<1>10. PICK t \in PayTokens : t = listings[l].terms.pay BY <1>1, <1>2, ListingFields
<1>11. Paid(Pays(Books, b, Market, t, d)) BY <1>2, <1>8, <1>10 DEF Delta
<1>12. /\ marketFunds' \in Purses
       /\ \A s \in PayTokens : marketFunds'[Market][s] = marketFunds[Market][s] + (IF s = t THEN d ELSE 0)
  BY <1>1, <1>11, PaidIn
<1>13. RatesOK' /\ BundlesOK' BY <1>1, <1>2, RatesKept, BundlesKept
<1>14. SameTerms BY <1>1, <1>2, KeptTerms
<1>15. now' \in Nat BY <1>1, <1>2
<1>16. QED BY <1>2, <1>7, <1>9, <1>10, <1>12, <1>13, <1>14, <1>15, EscrowMoves

\* The price an accepted offer pays, and what it leaves.
LEMMA AcceptOfferPays ==
    ASSUME MarketInv, NEW l \in ListingIds, NEW b \in Collectors, NEW r \in Discounts, AcceptOffer(l, b, r)
    PROVE  /\ MarketInv'
           /\ offers[l][b].amount > 0 => Gained(marketFunds, marketFunds', listings[l].seller, listings[l].terms.pay)
<1>1. MarketTyped /\ RatesOK /\ BundlesOK /\ now \in Nat BY InvParts, ClockTyped
<1>2. /\ l \in DOMAIN listings /\ listings' = Closed({l}) /\ offers' = [offers EXCEPT ![l][b] = NoOffer]
      /\ Paid(PaySale(Books, Market, listings[l].seller, listings[l].terms.token, listings[l].terms.pay, offers[l][b].amount, r))
      /\ UNCHANGED <<now, tokenBps, nftConf, splits, bundles, wideOffers, overwritten>>
  BY DEF AcceptOffer, Deliver, marketSetup
<1>a. PICK o : o = NoOffer OBVIOUS
<1>3. o = NoOffer /\ o.amount = 0 /\ o \in OfferRecords BY <1>a DEF NoOffer, OfferRecords
<1>4. offers' = [offers EXCEPT ![l][b] = o] BY <1>2, <1>3
<1>5. /\ offers' \in [ListingIds -> [Collectors -> OfferRecords]]
      /\ \A k \in ListingIds : k # l => offers'[k] = offers[k]
      /\ offers[l][b].amount \in Nat
      /\ OffersOn(l)' = OffersOn(l) + (o.amount - offers[l][b].amount)
  BY <1>1, <1>3, <1>4, OfferReplaced
<1>6. PICK price \in Nat : price = offers[l][b].amount BY <1>5
<1>7. PICK d \in Int : d = -price OBVIOUS
<1>8. o.amount - offers[l][b].amount = d BY <1>3, <1>6, <1>7
<1>9. OffersOn(l)' = OffersOn(l) + d BY <1>5, <1>8
<1>10. PICK t \in PayTokens : t = listings[l].terms.pay BY <1>1, <1>2, ListingFields
<1>11. PICK seller \in Collectors : seller = listings[l].seller BY <1>1, <1>2, ListingFields
<1>12. PICK i \in TokenIds : i = listings[l].terms.token BY <1>1, <1>2, ListingFields
<1>13. r \in Rates BY RateAssumption DEF Rates
<1>14. Paid(PaySale(Books, Market, seller, i, t, price, r)) BY <1>2, <1>6, <1>10, <1>11, <1>12
<1>15. /\ marketFunds' \in Purses
       /\ \A s \in PayTokens : marketFunds'[Market][s] = marketFunds[Market][s] + (IF s = t THEN -price ELSE 0)
       /\ price > 0 => Gained(marketFunds, marketFunds', seller, t)
  BY <1>1, <1>13, <1>14, SaleOut
<1>16. RatesOK' /\ BundlesOK' BY <1>1, <1>2, RatesKept, BundlesKept
<1>17. SameTerms BY <1>1, <1>2, ClosedTerms
<1>18. now' \in Nat BY <1>1, <1>2
<1>19. \A s \in PayTokens : marketFunds'[Market][s] = marketFunds[Market][s] + (IF s = t THEN d ELSE 0) BY <1>7, <1>15
<1>20. MarketInv' BY <1>2, <1>5, <1>9, <1>10, <1>15, <1>16, <1>17, <1>18, <1>19, EscrowMoves
<1>21. QED BY <1>6, <1>10, <1>11, <1>15, <1>20

\* The offers of some buyers are refunded.
LEMMA RefundKeeps ==
    ASSUME MarketInv, NEW l \in ListingIds, NEW buyers \in SUBSET Collectors, RefundOffers(l, buyers)
    PROVE  MarketInv'
<1>1. MarketTyped /\ RatesOK /\ BundlesOK /\ now \in Nat BY InvParts, ClockTyped
<1>2. PICK f : f = [b \in Collectors |-> offers[l][b].amount] OBVIOUS
<1>3. PICK due : due = SumFunctionOnSet(f, buyers) OBVIOUS
<1>4. \A b \in Collectors : f[b] \in Nat BY <1>1, <1>2, OffersTyped
<1>5. \A b \in Collectors : f[b] \in Int BY <1>4
<1>6. IsFiniteSet(Collectors) BY WalletFacts
<1>7. due \in Nat
  <2>1. IsFiniteSet(buyers) BY <1>6, FS_Subset
  <2>2. \A b \in buyers : f[b] \in Nat BY <1>4
  <2>3. QED BY <1>3, <2>1, <2>2, SumNat
<1>8. PICK owed : owed = [a \in Wallets |-> IF a = Market THEN -due ELSE IF a \in buyers THEN f[a] ELSE 0] OBVIOUS
<1>9. PICK t : t = listings[l].terms.pay OBVIOUS
<1>10. l \in DOMAIN listings BY DEF RefundOffers
<1>11. t \in PayTokens BY <1>1, <1>9, <1>10, ListingFields
<1>12. UNCHANGED <<now, tokenBps, nftConf, splits, listings, bundles, wideOffers, overwritten>>
  BY DEF RefundOffers, nftVars, nftOnlyVars, marketSetup
<1>13. marketFunds \in Purses /\ offers \in [ListingIds -> [Collectors -> OfferRecords]] BY <1>1 DEF MarketTyped, HeldOK
<1>14. /\ offers' \in [ListingIds -> [Collectors -> OfferRecords]]
       /\ \A k \in ListingIds : k # l => offers'[k] = offers[k]
       /\ \A b \in Collectors : offers'[l][b] = IF b \in buyers THEN NoOffer ELSE offers[l][b]
  <2>1. PICK row : row = [b \in Collectors |-> IF b \in buyers THEN NoOffer ELSE offers[l][b]] OBVIOUS
  <2>2. offers' = [offers EXCEPT ![l] = row] BY <1>13, <2>1 DEF RefundOffers
  <2>3. NoOffer \in OfferRecords BY DEF NoOffer, OfferRecords
  <2>4. row \in [Collectors -> OfferRecords] BY <1>13, <2>1, <2>3
  <2>5. QED BY <1>13, <2>1, <2>2, <2>4
<1>15. PICK g : g = [b \in Collectors |-> offers'[l][b].amount] OBVIOUS
<1>16. \A b \in Collectors : g[b] = IF b \in buyers THEN 0 ELSE f[b]
  <2>1. NoOffer.amount = 0 BY DEF NoOffer
  <2>2. QED BY <1>2, <1>14, <1>15, <2>1
<1>17. SumFunctionOnSet(g, Collectors) = SumFunctionOnSet(f, Collectors) - SumFunctionOnSet(f, buyers)
  BY <1>5, <1>6, <1>16, SumCleared
<1>18. PICK d \in Int : d = -due BY <1>7
<1>19. OffersOn(l)' = OffersOn(l) + d
  <2>1. OffersOn(l)' = SumFunctionOnSet(g, Collectors) /\ OffersOn(l) = SumFunctionOnSet(f, Collectors)
    BY <1>2, <1>15 DEF OffersOn
  <2>2. OffersOn(l) \in Nat BY <1>1, OffersTyped
  <2>3. QED BY <1>3, <1>7, <1>17, <1>18, <2>1, <2>2
<1>20. \A a \in Wallets : owed[a] \in Int BY <1>5, <1>7, <1>8
<1>21. marketFunds' = [a \in DOMAIN marketFunds |-> [marketFunds[a] EXCEPT ![t] = marketFunds[a][t] + owed[a]]]
  <2>1. DOMAIN marketFunds = Wallets BY <1>13 DEF Purses
  <2>2. marketFunds' = [a \in DOMAIN marketFunds |-> [marketFunds[a] EXCEPT ![t] = @ +
          (IF a = Market THEN -SumFunctionOnSet([b \in Collectors |-> offers[l][b].amount], buyers)
           ELSE IF a \in buyers THEN offers[l][a].amount ELSE 0)]]
    BY <1>9 DEF RefundOffers
  <2>3. \A a \in Wallets : owed[a] = IF a = Market THEN -SumFunctionOnSet([b \in Collectors |-> offers[l][b].amount], buyers)
                                     ELSE IF a \in buyers THEN offers[l][a].amount ELSE 0
    BY <1>2, <1>3, <1>8
  <2>4. QED BY <2>1, <2>2, <2>3
<1>22. /\ marketFunds' \in Purses
       /\ \A s \in PayTokens : marketFunds'[Market][s] = marketFunds[Market][s] + (IF s = t THEN d ELSE 0)
  <2>1. Market \in Wallets /\ owed[Market] = d BY <1>8, <1>18, WalletFacts
  <2>2. \A a \in Wallets, s \in PayTokens : marketFunds[a][s] \in Int BY <1>13 DEF Purses
  <2>3. marketFunds' \in Purses BY <1>11, <1>13, <1>20, <1>21, <2>2 DEF Purses
  <2>4. ASSUME NEW s \in PayTokens PROVE marketFunds'[Market][s] = marketFunds[Market][s] + (IF s = t THEN d ELSE 0)
    <3>1. marketFunds'[Market] = [marketFunds[Market] EXCEPT ![t] = marketFunds[Market][t] + d]
      BY <1>13, <1>21, <2>1 DEF Purses
    <3>2. marketFunds[Market] \in [PayTokens -> Int] BY <1>13, <2>1 DEF Purses
    <3>3. QED BY <1>11, <3>1, <3>2
  <2>5. QED BY <2>3, <2>4
<1>23. RatesOK' /\ BundlesOK' BY <1>1, <1>12, RatesKept, BundlesKept
<1>24. SameTerms BY <1>1, <1>12, KeptTerms
<1>25. now' \in Nat BY <1>1, <1>12
<1>26. QED BY <1>9, <1>10, <1>12, <1>14, <1>19, <1>22, <1>23, <1>24, <1>25, EscrowMoves

\* A collection offer is escrowed in full.
LEMMA MakeCollectionOfferKeeps ==
    ASSUME MarketInv, NEW b \in Collectors, NEW x \in OfferAmounts, NEW u \in OfferExpiries, MakeCollectionOffer(b, x, u)
    PROVE  MarketInv'
<1>1. MarketTyped /\ RatesOK /\ BundlesOK /\ now \in Nat BY InvParts, ClockTyped
<1>2. PICK w : w = [buyer |-> b, amount |-> x, expires |-> u, open |-> TRUE] OBVIOUS
<1>3. /\ x > 0 /\ Paid(Pays(Books, b, Market, DefaultToken, x)) /\ wideOffers' = Append(wideOffers, w)
      /\ UNCHANGED <<now, tokenBps, nftConf, splits, listings, bundles, offers, overwritten>>
  BY <1>2 DEF MakeCollectionOffer, nftVars, nftOnlyVars, marketSetup
<1>4. x \in Int /\ u \in Nat /\ DefaultToken \in PayTokens BY MarketAssumption, OfferAssumption, SMTT(60)
<1>5. x \in Nat BY <1>3, <1>4
<1>6. w \in WideRecords /\ w.open /\ w.amount = x BY <1>2, <1>4, <1>5 DEF WideRecords
<1>7. \A t : wideOffers' \in Seq(WideRecords) /\ WideSum(t)' = WideSum(t) + (IF t = DefaultToken THEN w.amount ELSE 0)
  BY <1>1, <1>3, <1>6, WideAdded
<1>8. \A t : WideSum(t)' = WideSum(t) + (IF t = DefaultToken THEN x ELSE 0) BY <1>6, <1>7
<1>9. /\ marketFunds' \in Purses
      /\ \A s \in PayTokens : marketFunds'[Market][s] = marketFunds[Market][s] + (IF s = DefaultToken THEN x ELSE 0)
  BY <1>1, <1>3, <1>4, PaidIn
<1>10. RatesOK' /\ BundlesOK' BY <1>1, <1>3, RatesKept, BundlesKept
<1>11. SameTerms BY <1>1, <1>3, KeptTerms
<1>12. now' \in Nat /\ wideOffers' \in Seq(WideRecords) BY <1>1, <1>3, <1>7
<1>13. QED BY <1>3, <1>4, <1>8, <1>9, <1>10, <1>11, <1>12, EscrowWidens

\* A collection offer is over, and its amount has left the escrow.
LEMMA WideOver ==
    ASSUME MarketInv, NEW n \in DOMAIN wideOffers, wideOffers[n].open,
           wideOffers' = [wideOffers EXCEPT ![n].open = FALSE],
           UNCHANGED <<now, tokenBps, nftConf, splits, listings, bundles, offers, overwritten>>, marketFunds' \in Purses,
           NEW x \in Nat, x = wideOffers[n].amount,
           \A s \in PayTokens : marketFunds'[Market][s] = marketFunds[Market][s] + (IF s = DefaultToken THEN -x ELSE 0)
    PROVE  MarketInv'
<1>1. MarketTyped /\ RatesOK /\ BundlesOK /\ now \in Nat BY InvParts, ClockTyped
<1>2. \A t : wideOffers' \in Seq(WideRecords)
             /\ WideSum(t)' = WideSum(t) - (IF t = DefaultToken THEN wideOffers[n].amount ELSE 0)
  BY <1>1, WideClosed
<1>3. PICK d \in Int : d = -x OBVIOUS
<1>4. ASSUME NEW t PROVE WideSum(t)' = WideSum(t) + (IF t = DefaultToken THEN d ELSE 0)
  <2>1. WideSum(t)' = WideSum(t) - (IF t = DefaultToken THEN x ELSE 0) BY <1>2
  <2>2. WideSum(t) \in Nat BY <1>1, WideTyped
  <2>3. QED BY <1>3, <2>1, <2>2
<1>5. \A s \in PayTokens : marketFunds'[Market][s] = marketFunds[Market][s] + (IF s = DefaultToken THEN d ELSE 0) BY <1>3
<1>6. RatesOK' /\ BundlesOK' BY <1>1, RatesKept, BundlesKept
<1>7. SameTerms BY <1>1, KeptTerms
<1>8. now' \in Nat /\ wideOffers' \in Seq(WideRecords) BY <1>1, <1>2
<1>9. \A t : WideSum(t)' = WideSum(t) + (IF t = DefaultToken THEN d ELSE 0) BY <1>4
<1>10. QED BY <1>5, <1>6, <1>7, <1>8, <1>9, EscrowWidens

\* The fields of a collection offer.
LEMMA WideFields ==
    ASSUME MarketTyped, NEW n \in DOMAIN wideOffers
    PROVE  wideOffers[n].buyer \in Collectors /\ wideOffers[n].amount \in Nat
<1>1. PICK w \in WideRecords : w = wideOffers[n] BY WideTyped
<1>2. w.buyer \in Collectors /\ w.amount \in Nat BY DEF WideRecords
<1>3. QED BY <1>1, <1>2

\* A cancelled collection offer is refunded in full.
LEMMA CancelCollectionOfferKeeps ==
    ASSUME MarketInv, NEW n, CancelCollectionOffer(n)
    PROVE  MarketInv'
<1>1. MarketTyped BY InvParts
<1>2. /\ n \in DOMAIN wideOffers /\ wideOffers[n].open
      /\ Paid(Pays(Books, Market, wideOffers[n].buyer, DefaultToken, wideOffers[n].amount))
      /\ wideOffers' = [wideOffers EXCEPT ![n].open = FALSE]
      /\ UNCHANGED <<now, tokenBps, nftConf, splits, listings, bundles, offers, overwritten>>
  BY DEF CancelCollectionOffer, nftVars, nftOnlyVars, marketSetup
<1>3. PICK b \in Collectors : b = wideOffers[n].buyer BY <1>1, <1>2, WideFields
<1>4. PICK x \in Nat : x = wideOffers[n].amount BY <1>1, <1>2, WideFields
<1>5. x \in Int /\ DefaultToken \in PayTokens BY MarketAssumption
<1>6. Paid(Pays(Books, Market, b, DefaultToken, x)) BY <1>2, <1>3, <1>4
<1>7. /\ marketFunds' \in Purses
      /\ \A s \in PayTokens : marketFunds'[Market][s] = marketFunds[Market][s] + (IF s = DefaultToken THEN -x ELSE 0)
  BY <1>1, <1>5, <1>6, PaidOut
<1>8. QED BY <1>2, <1>4, <1>7, WideOver

\* An accepted collection offer pays the seller out of the escrow.
LEMMA AcceptCollectionOfferPays ==
    ASSUME MarketInv, NEW n, NEW a \in Collectors, NEW i \in TokenIds, NEW d \in Discounts, AcceptCollectionOffer(n, a, i, d)
    PROVE  /\ MarketInv'
           /\ wideOffers[n].amount > 0 => Gained(marketFunds, marketFunds', a, DefaultToken)
<1>1. MarketTyped BY InvParts
<1>2. /\ n \in DOMAIN wideOffers /\ wideOffers[n].open
      /\ Paid(PaySale(Books, Market, a, i, DefaultToken, wideOffers[n].amount, d))
      /\ wideOffers' = [wideOffers EXCEPT ![n].open = FALSE]
      /\ UNCHANGED <<now, tokenBps, nftConf, splits, listings, bundles, offers, overwritten>>
  BY DEF AcceptCollectionOffer, Deliver, marketSetup
<1>3. PICK x \in Nat : x = wideOffers[n].amount BY <1>1, <1>2, WideFields
<1>4. DefaultToken \in PayTokens /\ d \in Rates BY MarketAssumption, RateAssumption DEF Rates
<1>5. Paid(PaySale(Books, Market, a, i, DefaultToken, x, d)) BY <1>2, <1>3
<1>6. /\ marketFunds' \in Purses
      /\ \A s \in PayTokens : marketFunds'[Market][s] = marketFunds[Market][s] + (IF s = DefaultToken THEN -x ELSE 0)
      /\ x > 0 => Gained(marketFunds, marketFunds', a, DefaultToken)
  BY <1>1, <1>4, <1>5, SaleOut
<1>7. MarketInv' BY <1>2, <1>3, <1>6, WideOver
<1>8. QED BY <1>3, <1>6, <1>7

\* New listings have no offers yet.
LEMMA ListKeeps ==
    ASSUME MarketInv, NEW a \in Collectors, NEW batch \in Seq(ListTerms), List(a, batch)
    PROVE  MarketInv'
<1>1. MarketTyped /\ RatesOK /\ BundlesOK /\ ListingsOK /\ HeldOK /\ NoOffersAhead /\ OffersBacked BY InvParts
<1>2. PICK rows : rows = [x \in DOMAIN batch |-> [terms |-> batch[x], seller |-> a, active |-> TRUE]] OBVIOUS
<1>3. /\ Len(listings) + Len(batch) <= MaxListings /\ \A x \in DOMAIN batch : MayList(batch[x])
      /\ listings' = listings \o rows
      /\ UNCHANGED <<now, tokenBps, nftConf, splits, bundles, offers, wideOffers, marketFunds, overwritten>>
  BY <1>2 DEF List, nftVars, nftOnlyVars, marketSetup
<1>4. PICK m \in Nat : m = Len(batch) /\ DOMAIN batch = 1..m OBVIOUS
<1>5. rows \in Seq(ListingRecords) /\ Len(rows) = m /\ \A x \in 1..m : rows[x].terms = batch[x]
  <2>1. ASSUME NEW x \in 1..m PROVE rows[x] \in ListingRecords /\ rows[x].terms = batch[x]
    <3>1. PICK t \in ListTerms : t = batch[x] BY <1>4
    <3>2. PICK w : w = [terms |-> t, seller |-> a, active |-> TRUE] OBVIOUS
    <3>3. w \in ListingRecords /\ w.terms = t BY <3>2 DEF ListingRecords
    <3>4. rows[x] = w BY <1>2, <1>4, <3>1, <3>2
    <3>5. QED BY <3>1, <3>3, <3>4
  <2>2. rows = [x \in 1..m |-> rows[x]] BY <1>2, <1>4
  <2>3. rows \in [1..m -> ListingRecords] BY <2>1, <2>2
  <2>4. rows \in Seq(ListingRecords) /\ Len(rows) = m BY <2>3, LenProperties, IsASeq
  <2>5. QED BY <2>1, <2>4
<1>6. listings \in Seq(ListingRecords) /\ now \in Nat /\ \A k \in DOMAIN listings : Priced(k) BY <1>1 DEF ListingsOK
<1>7. PICK n \in Nat : n = Len(listings) /\ DOMAIN listings = 1..n BY <1>6
<1>8. /\ listings' \in Seq(ListingRecords) /\ Len(listings') = n + m /\ DOMAIN listings' = 1..(n + m)
      /\ \A k \in 1..n : listings'[k] = listings[k]
      /\ \A k \in 1..(n + m) : k > n => listings'[k] = rows[k - n] /\ k - n \in 1..m
  <2>1. listings' = listings \o rows BY <1>3
  <2>2. listings \in Seq(ListingRecords) /\ rows \in Seq(ListingRecords) /\ Len(rows) = m BY <1>5, <1>6
  <2>3. n = Len(listings) BY <1>7
  <2>4. /\ listings' \in Seq(ListingRecords) /\ Len(listings') = n + m
        /\ \A k \in 1..(n + m) : listings'[k] = IF k <= n THEN listings[k] ELSE rows[k - n]
    BY <2>1, <2>2, <2>3, ConcatProperties
  <2>5. DOMAIN listings' = 1..(n + m) BY <2>4
  <2>6. \A k \in 1..(n + m) : k > n => k - n \in 1..m OBVIOUS
  <2>7. \A k \in 1..n : k \in 1..(n + m) /\ k <= n OBVIOUS
  <2>8. \A k \in 1..n : listings'[k] = listings[k] BY <2>4, <2>7
  <2>9. \A k \in 1..(n + m) : k > n => listings'[k] = rows[k - n] BY <2>4
  <2>10. QED BY <2>4, <2>5, <2>6, <2>8, <2>9
<1>9. ASSUME NEW k \in DOMAIN listings' PROVE Priced(k)'
  <2>1. CASE k <= n
    <3>1. k \in DOMAIN listings /\ listings'[k] = listings[k] BY <1>7, <1>8, <2>1
    <3>2. Priced(k) BY <1>6, <3>1
    <3>3. QED BY <3>1, <3>2 DEF Priced
  <2>2. CASE k > n
    <3>1. PICK x \in 1..m : x = k - n BY <1>8, <2>2
    <3>2. listings'[k].terms = batch[x] BY <1>5, <1>8, <2>2, <3>1
    <3>3. MayList(batch[x]) BY <1>3, <1>4
    <3>4. QED BY <3>2, <3>3 DEF MayList, Priced
  <2>3. QED BY <1>8, <2>1, <2>2
<1>10. ListingsOK'
  <2>1. Len(listings') <= MaxListings BY <1>3, <1>4, <1>7, <1>8
  <2>2. QED BY <1>3, <1>6, <1>8, <1>9, <2>1 DEF ListingsOK
<1>11. RatesOK' /\ BundlesOK' BY <1>1, <1>3, RatesKept, BundlesKept
<1>12. HeldOK' BY <1>1, <1>3 DEF HeldOK
<1>13. DOMAIN listings \subseteq DOMAIN listings' BY <1>7, <1>8
<1>14. NoOffersAhead' BY <1>1, <1>3, <1>13 DEF NoOffersAhead
<1>15. ASSUME NEW k \in ListingIds \ DOMAIN listings PROVE OffersOn(k) = 0
  <2>1. PICK f : f = [b \in Collectors |-> offers[k][b].amount] OBVIOUS
  <2>2. \A b \in Collectors : f[b] = 0 BY <1>1, <2>1 DEF NoOffersAhead
  <2>3. SumFunctionOnSet(f, Collectors) = 0 BY <2>2, WalletFacts, SumOfZeros
  <2>4. QED BY <2>1, <2>3 DEF OffersOn
<1>16. ASSUME NEW t PROVE OfferSum(t)' = OfferSum(t)
  <2>1. ASSUME NEW k \in ListingIds
        PROVE  (IF k \in DOMAIN listings' /\ listings'[k].terms.pay = t THEN OffersOn(k)' ELSE 0)
               = (IF k \in DOMAIN listings /\ listings[k].terms.pay = t THEN OffersOn(k) ELSE 0)
    <3>1. OffersOn(k)' = OffersOn(k) BY <1>3 DEF OffersOn
    <3>2. CASE k \in DOMAIN listings
      <4>1. listings'[k] = listings[k] /\ k \in DOMAIN listings' BY <1>7, <1>8, <1>13, <3>2
      <4>2. QED BY <3>1, <3>2, <4>1
    <3>3. CASE k \notin DOMAIN listings
      <4>1. OffersOn(k) = 0 BY <1>15, <3>3
      <4>2. QED BY <3>1, <3>3, <4>1
    <3>4. QED BY <3>2, <3>3
  <2>2. OfferedIn(t)' = OfferedIn(t) BY <2>1 DEF OfferedIn
  <2>3. QED BY <2>2 DEF OfferSum
<1>17. ASSUME NEW t \in PayTokens PROVE marketFunds'[Market][t] = Promised(t)' + overwritten'[t]
  <2>1. WideSum(t)' = WideSum(t) BY <1>3, WidesStay
  <2>2. Promised(t)' = Promised(t) BY <1>16, <2>1 DEF Promised, OfferSum, WideSum
  <2>3. marketFunds[Market][t] = Promised(t) + overwritten[t] BY <1>1 DEF OffersBacked
  <2>4. QED BY <1>3, <2>2, <2>3
<1>18. OffersBacked' BY <1>17 DEF OffersBacked
<1>19. QED BY <1>10, <1>11, <1>12, <1>14, <1>18, InvMade

\* The largest of some numbers is one of them.
LEMMA MaxIn ==
    ASSUME NEW S \in SUBSET Int, IsFiniteSet(S), S # {}
    PROVE  Max(S) \in S
<1>1. S \in SUBSET S OBVIOUS
<1>2. \E x \in S : \A y \in S : x >= y BY <1>1, TopExists
<1>3. QED BY <1>2 DEF Max

\* A listing that is found is on record.
LEMMA ListingOfToken ==
    ASSUME MarketTyped, NEW i, ListingOf(i) # 0
    PROVE  ListingOf(i) \in DOMAIN listings
<1>1. listings \in Seq(ListingRecords) BY DEF MarketTyped, ListingsOK
<1>2. PICK n \in Nat : n = Len(listings) /\ DOMAIN listings = 1..n BY <1>1
<1>3. PICK A : A = {l \in DOMAIN listings : listings[l].active /\ listings[l].terms.token = i} OBVIOUS
<1>4. PICK S : S = A \cup {0} OBVIOUS
<1>5. A \subseteq 1..n BY <1>2, <1>3
<1>6. IsFiniteSet(A)
  <2>1. IsFiniteSet(1..n) BY FS_Interval
  <2>2. QED BY <1>5, <2>1, FS_Subset
<1>7. IsFiniteSet(S) BY <1>4, <1>6, FS_AddElement
<1>8. S \in SUBSET Int /\ S # {} BY <1>4, <1>5
<1>9. Max(S) \in S BY <1>7, <1>8, MaxIn
<1>10. ListingOf(i) = Max(S) BY <1>3, <1>4 DEF ListingOf
<1>11. QED BY <1>3, <1>4, <1>9, <1>10

\* A batch of offers takes its whole sum, and stores only the last offer of a listing.
LEMMA MakeOffersBatchKeeps ==
    ASSUME MarketInv, NEW b \in Collectors, NEW batch \in OfferLists, NEW u \in OfferExpiries, MakeOffersBatch(b, batch, u)
    PROVE  /\ MarketInv'
           /\ \A l \in ListingIds, c \in Collectors : offers'[l][c] = offers[l][c] \/ offers'[l][c].amount > 0
<1>1. MarketTyped /\ RatesOK /\ BundlesOK /\ ListingsOK /\ HeldOK /\ NoOffersAhead /\ OffersBacked BY InvParts
<1>2. PICK E : E = [l \in ListingIds |-> {x \in DOMAIN batch : ListingOf(batch[x].token) = l}] OBVIOUS
<1>3. PICK total : total = SumFunctionOnSet([x \in DOMAIN batch |-> batch[x].amount], DOMAIN batch) OBVIOUS
<1>4. PICK delta : delta = [l \in ListingIds |-> offers'[l][b].amount - offers[l][b].amount] OBVIOUS
<1>5. PICK added : added = SumFunctionOnSet(delta, ListingIds) OBVIOUS
<1>6. offers' = [l \in ListingIds |-> IF E[l] = {} THEN offers[l]
                   ELSE [offers[l] EXCEPT ![b] = [amount |-> batch[Max(E[l])].amount, expires |-> u]]]
  BY <1>2 DEF MakeOffersBatch
<1>7. \A x \in DOMAIN batch :
        /\ ListingOf(batch[x].token) # 0 /\ batch[x].amount > 0
        /\ listings[ListingOf(batch[x].token)].terms.pay = DefaultToken
  BY DEF MakeOffersBatch
<1>8. /\ Paid(Pays(Books, b, Market, DefaultToken, total))
      /\ UNCHANGED <<now, tokenBps, nftConf, splits, listings, bundles, wideOffers>>
  BY <1>3 DEF MakeOffersBatch, nftVars, nftOnlyVars, marketSetup
<1>9. overwritten' = [overwritten EXCEPT ![DefaultToken] = overwritten[DefaultToken] + total - added]
  BY <1>3, <1>4, <1>5 DEF MakeOffersBatch
<1>c. batch \in Seq(OfferEntries) BY OfferAssumption
<1>10. u \in Nat /\ DefaultToken \in PayTokens BY MarketAssumption, OfferAssumption, SMTT(60)
<1>11. PICK m \in Nat : m = Len(batch) /\ DOMAIN batch = 1..m BY <1>c
<1>12. IsFiniteSet(DOMAIN batch) /\ DOMAIN batch \subseteq Int
  <2>1. IsFiniteSet(1..m) BY FS_Interval
  <2>2. QED BY <1>11, <2>1
<1>13. ASSUME NEW x \in DOMAIN batch PROVE batch[x].amount \in Nat /\ batch[x].amount \in Int
  <2>1. PICK o : o = batch[x] OBVIOUS
  <2>2. o \in OfferEntries BY <1>c, <2>1
  <2>3. o.amount \in Int BY <2>2 DEF OfferEntries
  <2>4. QED BY <1>7, <2>1, <2>3
<1>14. ASSUME NEW l \in ListingIds, E[l] # {}
       PROVE  /\ Max(E[l]) \in DOMAIN batch
              /\ l \in DOMAIN listings /\ listings[l].terms.pay = DefaultToken
  <2>1. PICK S : S = E[l] OBVIOUS
  <2>2. S \subseteq DOMAIN batch /\ S # {} BY <1>2, <1>14, <2>1
  <2>3. IsFiniteSet(S) /\ S \in SUBSET Int BY <1>12, <2>2, FS_Subset
  <2>4. Max(S) \in S BY <2>2, <2>3, MaxIn
  <2>5. PICK x \in DOMAIN batch : ListingOf(batch[x].token) = l BY <1>2, <2>1, <2>2
  <2>6. ListingOf(batch[x].token) # 0 BY <1>7
  <2>7. ListingOf(batch[x].token) \in DOMAIN listings BY <1>1, <2>6, ListingOfToken
  <2>8. QED BY <1>7, <2>1, <2>2, <2>4, <2>5, <2>7
<1>15. offers \in [ListingIds -> [Collectors -> OfferRecords]] BY <1>1 DEF HeldOK
<1>16. ASSUME NEW l \in ListingIds
       PROVE  /\ offers'[l] \in [Collectors -> OfferRecords]
              /\ \A c \in Collectors : offers'[l][c] = offers[l][c] \/ offers'[l][c].amount > 0
              /\ \A c \in Collectors : c # b => offers'[l][c] = offers[l][c]
              /\ E[l] = {} => offers'[l] = offers[l]
  <2>1. CASE E[l] = {}
    <3>1. offers'[l] = offers[l] BY <1>6, <2>1
    <3>2. QED BY <1>15, <3>1
  <2>2. CASE E[l] # {}
    <3>1. PICK x \in DOMAIN batch : x = Max(E[l]) BY <1>14, <2>2
    <3>2. PICK y \in Nat : y = batch[x].amount /\ y > 0 BY <1>7, <1>13
    <3>3. PICK o : o = [amount |-> y, expires |-> u] OBVIOUS
    <3>4. o \in OfferRecords /\ o.amount = y BY <1>10, <3>3 DEF OfferRecords
    <3>5. offers'[l] = [offers[l] EXCEPT ![b] = o] BY <1>6, <2>2, <3>1, <3>2, <3>3
    <3>6. offers[l] \in [Collectors -> OfferRecords] BY <1>15
    <3>7. /\ offers'[l] \in [Collectors -> OfferRecords] /\ offers'[l][b] = o
          /\ \A c \in Collectors : c # b => offers'[l][c] = offers[l][c]
      BY <3>4, <3>5, <3>6
    <3>8. QED BY <2>2, <3>2, <3>4, <3>7
  <2>3. QED BY <2>1, <2>2
<1>17. offers' \in [ListingIds -> [Collectors -> OfferRecords]]
  <2>1. offers' = [l \in ListingIds |-> offers'[l]] BY <1>6
  <2>2. QED BY <1>16, <2>1
<1>18. ASSUME NEW l \in ListingIds PROVE delta[l] \in Int /\ OffersOn(l)' = OffersOn(l) + delta[l]
  <2>1. PICK f : f = [c \in Collectors |-> offers[l][c].amount] OBVIOUS
  <2>2. PICK g : g = [c \in Collectors |-> offers'[l][c].amount] OBVIOUS
  <2>3. \A c \in Collectors : f[c] \in Nat BY <1>1, <2>1, OffersTyped
  <2>4. \A c \in Collectors : f[c] \in Int BY <2>3
  <2>5. offers'[l][b].amount \in Nat
    <3>1. offers'[l][b] \in OfferRecords BY <1>16
    <3>2. QED BY <3>1 DEF OfferRecords
  <2>6. PICK e \in Int : e = delta[l] /\ g[b] = f[b] + e BY <1>4, <2>1, <2>2, <2>3, <2>5
  <2>7. \A c \in Collectors : c # b => g[c] = f[c] BY <1>16, <2>1, <2>2
  <2>8. IsFiniteSet(Collectors) BY WalletFacts
  <2>9. SumFunctionOnSet(g, Collectors) = SumFunctionOnSet(f, Collectors) + e BY <2>4, <2>6, <2>7, <2>8, SumBump
  <2>10. OffersOn(l)' = OffersOn(l) + e BY <2>1, <2>2, <2>9 DEF OffersOn
  <2>11. QED BY <2>6, <2>10
<1>19. ASSUME NEW l \in ListingIds, E[l] = {} PROVE delta[l] = 0
  <2>1. offers'[l] = offers[l] BY <1>16, <1>19
  <2>2. PICK n \in Nat : n = offers[l][b].amount BY <1>1, OffersTyped
  <2>3. QED BY <1>4, <2>1, <2>2
<1>20. added \in Int
  <2>1. \A l \in ListingIds : delta[l] \in Int BY <1>18
  <2>2. QED BY <1>5, <2>1, IdsFinite, SumBasics
<1>21. total \in Int
  <2>1. PICK f : f = [x \in DOMAIN batch |-> batch[x].amount] OBVIOUS
  <2>2. \A x \in DOMAIN batch : f[x] \in Int BY <1>13, <2>1
  <2>3. SumFunctionOnSet(f, DOMAIN batch) \in Int BY <1>12, <2>2, SumBasics
  <2>4. QED BY <1>3, <2>1, <2>3
<1>22. ASSUME NEW t PROVE OfferSum(t)' = OfferSum(t) + (IF t = DefaultToken THEN added ELSE 0)
  <2>1. PICK f : f = OfferedIn(t) OBVIOUS
  <2>2. PICK g : g = OfferedIn(t)' OBVIOUS
  <2>3. PICK h : h = [l \in ListingIds |-> IF t = DefaultToken THEN delta[l] ELSE 0] OBVIOUS
  <2>4. \A l \in ListingIds : f[l] \in Nat BY <1>1, <2>1, OffersTyped
  <2>5. ASSUME NEW l \in ListingIds PROVE f[l] \in Int /\ h[l] \in Int /\ g[l] = f[l] + h[l]
    <3>1. PICK n \in Nat : n = OffersOn(l) BY <1>1, OffersTyped
    <3>2. PICK e \in Int : e = delta[l] /\ OffersOn(l)' = n + e BY <1>18, <3>1
    <3>3. f[l] = IF l \in DOMAIN listings /\ listings[l].terms.pay = t THEN n ELSE 0 BY <2>1, <3>1 DEF OfferedIn
    <3>4. g[l] = IF l \in DOMAIN listings /\ listings[l].terms.pay = t THEN n + e ELSE 0 BY <1>8, <2>2, <3>2 DEF OfferedIn
    <3>5. h[l] = IF t = DefaultToken THEN e ELSE 0 BY <2>3, <3>2
    <3>6. CASE E[l] = {}
      <4>1. e = 0 BY <1>19, <3>2, <3>6
      <4>2. QED BY <3>3, <3>4, <3>5, <4>1
    <3>7. CASE E[l] # {}
      <4>1. l \in DOMAIN listings /\ listings[l].terms.pay = DefaultToken BY <1>14, <3>7
      <4>2. QED BY <3>3, <3>4, <3>5, <4>1
    <3>8. QED BY <3>6, <3>7
  <2>6. \A l \in ListingIds : f[l] \in Int /\ h[l] \in Int /\ g[l] = f[l] + h[l] BY <2>5
  <2>7. IsFiniteSet(ListingIds) BY IdsFinite
  <2>8. SumFunctionOnSet(g, ListingIds) = SumFunctionOnSet(f, ListingIds) + SumFunctionOnSet(h, ListingIds)
    BY <2>6, <2>7, SumPlus
  <2>9. SumFunctionOnSet(h, ListingIds) = IF t = DefaultToken THEN added ELSE 0
    <3>1. CASE t = DefaultToken
      <4>1. \A l \in ListingIds : delta[l] \in Int /\ h[l] = delta[l] BY <1>18, <2>3, <3>1
      <4>2. SumFunctionOnSet(h, ListingIds) = SumFunctionOnSet(delta, ListingIds) BY <2>7, <4>1, SumBasics
      <4>3. QED BY <1>5, <3>1, <4>2
    <3>2. CASE t # DefaultToken
      <4>1. \A l \in ListingIds : h[l] = 0 BY <2>3, <3>2
      <4>2. SumFunctionOnSet(h, ListingIds) = 0 BY <2>7, <4>1, SumOfZeros
      <4>3. QED BY <3>2, <4>2
    <3>3. QED BY <3>1, <3>2
  <2>10. QED BY <2>1, <2>2, <2>8, <2>9 DEF OfferSum
<1>23. overwritten \in [PayTokens -> Int] BY <1>1 DEF HeldOK
<1>24. /\ overwritten' \in [PayTokens -> Int]
       /\ \A t \in PayTokens : overwritten'[t] = overwritten[t] + (IF t = DefaultToken THEN total - added ELSE 0)
  BY <1>9, <1>10, <1>20, <1>21, <1>23
<1>25. /\ marketFunds' \in Purses
       /\ \A t \in PayTokens : marketFunds'[Market][t] = marketFunds[Market][t] + (IF t = DefaultToken THEN total ELSE 0)
  BY <1>1, <1>8, <1>10, <1>21, PaidIn
<1>26. ASSUME NEW t \in PayTokens PROVE marketFunds'[Market][t] = Promised(t)' + overwritten'[t]
  <2>1. PICK e \in Int : e = IF t = DefaultToken THEN added ELSE 0 BY <1>20
  <2>x. PICK rest \in Int : rest = total - added BY <1>20, <1>21
  <2>2. PICK x \in Int : x = IF t = DefaultToken THEN rest ELSE 0 OBVIOUS
  <2>3. PICK z \in Int : z = 0 OBVIOUS
  <2>4. OfferSum(t)' = OfferSum(t) + e BY <1>22, <2>1
  <2>5. WideSum(t)' = WideSum(t) + z
    <3>1. WideSum(t)' = WideSum(t) BY <1>8, WidesStay
    <3>2. WideSum(t) \in Nat BY <1>1, WideTyped
    <3>3. QED BY <2>3, <3>1, <3>2
  <2>6. overwritten'[t] = overwritten[t] + x BY <1>24, <2>x, <2>2
  <2>7. marketFunds'[Market][t] = marketFunds[Market][t] + e + z + x
    <3>1. marketFunds[Market][t] \in Int
      <4>1. Market \in Wallets BY WalletFacts
      <4>2. QED BY <1>1, <4>1 DEF HeldOK, Purses
    <3>2. QED BY <1>20, <1>21, <1>25, <2>1, <2>x, <2>2, <2>3, <3>1
  <2>8. QED BY <1>1, <2>4, <2>5, <2>6, <2>7, BackedOn
<1>27. OffersBacked' BY <1>26 DEF OffersBacked
<1>28. SameTerms BY <1>1, <1>8, KeptTerms
<1>29. ListingsOK'
  <2>1. now' \in Nat BY <1>1, <1>8 DEF ListingsOK
  <2>2. QED BY <1>1, <1>28, <2>1, ListingsKept
<1>30. NoOffersAhead'
  <2>1. \A k \in ListingIds \ DOMAIN listings : offers'[k] = offers[k] BY <1>14, <1>16
  <2>2. QED BY <1>1, <1>28, <2>1, NoneAhead
<1>31. RatesOK' /\ BundlesOK' BY <1>1, <1>8, RatesKept, BundlesKept
<1>32. HeldOK' BY <1>1, <1>8, <1>17, <1>24, <1>25 DEF HeldOK
<1>33. QED BY <1>16, <1>27, <1>29, <1>30, <1>31, <1>32, InvMade

\* The marketplace starts without offers and without money.
LEMMA MarketStarts == MintedInit /\ MarketInit => MarketInv
<1> SUFFICES ASSUME MintedInit, MarketInit PROVE MarketInv OBVIOUS
<1>1. now = 0 /\ nftConf.bps = 0 /\ tokenBps = [i \in TokenIds |-> IF i = 1 THEN Nobody ELSE 5000] BY DEF MintedInit
<1>2. /\ splits = <<>> /\ listings = <<>> /\ bundles = <<>> /\ wideOffers = <<>>
      /\ offers = [l \in ListingIds |-> [b \in Collectors |-> NoOffer]]
      /\ marketFunds = [a \in Wallets |-> [t \in PayTokens |-> IF a \in Collectors THEN CollectorFunds[a] ELSE 0]]
      /\ overwritten = [t \in PayTokens |-> 0]
  BY DEF MarketInit, Wallets
<1>3. MaxListings \in Nat /\ CollectorFunds \in [Collectors -> Nat] BY MarketAssumption
<1>4. ListingsOK
  <2>1. listings \in Seq(ListingRecords) /\ Len(listings) = 0 /\ DOMAIN listings = {} BY <1>2
  <2>2. QED BY <1>1, <1>3, <2>1 DEF ListingsOK
<1>5. BundlesOK BY <1>2 DEF BundlesOK
<1>6. RatesOK
  <2>1. tokenBps \in [TokenIds -> Rates \cup {Nobody}] BY <1>1 DEF Rates
  <2>2. nftConf.bps \in Rates BY <1>1 DEF Rates
  <2>3. splits \in Seq(Nat) /\ DOMAIN splits = {} BY <1>2
  <2>4. IsFiniteSet({}) BY FS_EmptySet
  <2>5. SumFunctionOnSet(splits, {}) = 0
    <3>1. \A x \in {} : splits[x] \in Int OBVIOUS
    <3>2. QED BY <2>4, <3>1, SumBasics
  <2>6. SumFunctionOnSet(splits, DOMAIN splits) <= 10000 BY <2>3, <2>5
  <2>7. QED BY <2>1, <2>2, <2>3, <2>6 DEF RatesOK
<1>7. HeldOK
  <2>1. NoOffer \in OfferRecords BY DEF NoOffer, OfferRecords
  <2>2. offers \in [ListingIds -> [Collectors -> OfferRecords]] BY <1>2, <2>1
  <2>3. marketFunds \in Purses BY <1>2, <1>3 DEF Purses
  <2>4. wideOffers \in Seq(WideRecords) BY <1>2
  <2>5. overwritten \in [PayTokens -> Int] BY <1>2
  <2>6. QED BY <2>2, <2>3, <2>4, <2>5 DEF HeldOK
<1>8. MarketTyped BY <1>4, <1>5, <1>6, <1>7 DEF MarketTyped
<1>9. NoOffersAhead BY <1>2 DEF NoOffersAhead, NoOffer
<1>10. ASSUME NEW t \in PayTokens PROVE marketFunds[Market][t] = Promised(t) + overwritten[t]
  <2>1. PICK f : f = OfferedIn(t) OBVIOUS
  <2>2. \A l \in ListingIds : f[l] = 0 BY <1>2, <2>1 DEF OfferedIn
  <2>3. SumFunctionOnSet(f, ListingIds) = 0 BY <2>2, IdsFinite, SumOfZeros
  <2>4. PICK g : g = WideIn(t) OBVIOUS
  <2>5. IsFiniteSet({}) /\ DOMAIN wideOffers = {} BY <1>2, FS_EmptySet
  <2>6. \A n \in {} : g[n] = 0 OBVIOUS
  <2>7. SumFunctionOnSet(g, {}) = 0 BY <2>5, <2>6, SumOfZeros
  <2>8. Promised(t) = 0 + 0 BY <2>1, <2>3, <2>4, <2>5, <2>7 DEF Promised
  <2>9. marketFunds[Market][t] = 0 BY <1>2, WalletFacts
  <2>10. overwritten[t] = 0 BY <1>2
  <2>11. QED BY <2>8, <2>9, <2>10
<1>11. OffersBacked BY <1>10 DEF OffersBacked
<1>12. QED BY <1>8, <1>9, <1>11 DEF MarketInv

\* Every step of the marketplace or around it keeps the invariant.
LEMMA MarketKeeps == MarketInv /\ [MarketNext]_marketVars => MarketInv'
<1> SUFFICES ASSUME MarketInv, [MarketNext]_marketVars PROVE MarketInv' OBVIOUS
<1>1. MarketTyped /\ now \in Nat BY InvParts, ClockTyped
<1>a. ASSUME UNCHANGED <<now, listings, bundles, offers, wideOffers, marketFunds, overwritten, tokenBps, nftConf, splits>>
      PROVE  MarketInv'
  <2>1. SameTerms BY <1>1, <1>a, KeptTerms
  <2>2. QED BY <1>1, <1>a, <2>1, CloseKeeps
<1>b. ASSUME NEW S, listings' = Closed(S),
             UNCHANGED <<now, bundles, offers, wideOffers, marketFunds, overwritten, tokenBps, nftConf, splits>>
      PROVE  MarketInv'
  <2>1. SameTerms BY <1>1, <1>b, ClosedTerms
  <2>2. QED BY <1>1, <1>b, <2>1, CloseKeeps
<1>2. CASE UNCHANGED marketVars
  BY <1>a, <1>2 DEF marketVars, nftVars, nftOnlyVars, marketOnlyVars, marketSetup
<1>3. CASE InitializeMarket BY <1>a, <1>3 DEF InitializeMarket, nftVars, nftOnlyVars
<1>4. ASSUME NEW s, SetWhitelist(s) PROVE MarketInv' BY <1>a, <1>4 DEF SetWhitelist, nftVars, nftOnlyVars
<1>5. ASSUME NEW bps, SetMinCounterOfferBps(bps) PROVE MarketInv'
  BY <1>a, <1>5 DEF SetMinCounterOfferBps, nftVars, nftOnlyVars
<1>6. ASSUME NEW s \in Splits, SetRoyaltySplits(s) PROVE MarketInv' BY <1>6, SplitsKeep
<1>7. ASSUME NEW a \in Collectors, NEW l \in ListTerms, NEW m \in ListTerms, List(a, <<l>>) \/ List(a, <<l, m>>)
      PROVE  MarketInv'
  <2>1. <<l>> \in Seq(ListTerms) /\ <<l, m>> \in Seq(ListTerms) OBVIOUS
  <2>2. QED BY <1>7, <2>1, ListKeeps
<1>8. ASSUME NEW b \in Collectors, NEW ids \in IdLists, NEW x \in OfferAmounts, NEW d \in Discounts, Buy(b, ids, x, d)
      PROVE  MarketInv'
  BY <1>8, BuyKeeps
<1>9. ASSUME NEW a, NEW ids, CancelListings(a, ids) PROVE MarketInv'
  <2>1. /\ listings' = Closed({ids[x] : x \in DOMAIN ids})
        /\ UNCHANGED <<now, bundles, offers, wideOffers, marketFunds, overwritten, tokenBps, nftConf, splits>>
    BY <1>9 DEF CancelListings, nftVars, nftOnlyVars, marketSetup
  <2>2. PICK S : S = {ids[x] : x \in DOMAIN ids} OBVIOUS
  <2>3. listings' = Closed(S) BY <2>1, <2>2
  <2>4. QED BY <1>b, <2>1, <2>3
<1>10. ASSUME NEW l, InvalidateListing(l) PROVE MarketInv'
  <2>1. /\ listings' = Closed({l})
        /\ UNCHANGED <<now, bundles, offers, wideOffers, marketFunds, overwritten, tokenBps, nftConf, splits>>
    BY <1>10 DEF InvalidateListing, nftVars, nftOnlyVars, marketSetup
  <2>2. PICK S : S = {l} OBVIOUS
  <2>3. listings' = Closed(S) BY <2>1, <2>2
  <2>4. QED BY <1>b, <2>1, <2>3
<1>11. ASSUME NEW a \in Collectors, NEW t \in BundleTerms, CreateBundle(a, t) PROVE MarketInv' BY <1>11, CreateBundleKeeps
<1>12. ASSUME NEW b \in Collectors, NEW n, BuyBundle(b, n) PROVE MarketInv' BY <1>12, BuyBundleKeeps
<1>13. ASSUME NEW n, DelistBundle(n) PROVE MarketInv' BY <1>13, DelistBundleKeeps
<1>14. ASSUME NEW b \in Collectors, NEW l \in ListingIds, NEW x \in OfferAmounts, NEW u \in OfferExpiries, MakeOffer(b, l, x, u)
       PROVE  MarketInv'
  BY <1>14, MakeOfferKeeps
<1>15. ASSUME NEW b \in Collectors, NEW batch \in OfferLists, NEW u \in OfferExpiries, MakeOffersBatch(b, batch, u)
       PROVE  MarketInv'
  BY <1>15, MakeOffersBatchKeeps
<1>16. ASSUME NEW l \in ListingIds, NEW b \in Collectors, NEW d \in Discounts, AcceptOffer(l, b, d) PROVE MarketInv'
  BY <1>16, AcceptOfferPays
<1>17. ASSUME NEW l \in ListingIds, NEW b \in Collectors, CancelOffer(l, b) PROVE MarketInv'
  <2>1. {b} \in SUBSET Collectors OBVIOUS
  <2>2. RefundOffers(l, {b}) BY <1>17 DEF CancelOffer
  <2>3. PICK S : S = {b} OBVIOUS
  <2>4. S \in SUBSET Collectors /\ RefundOffers(l, S) BY <2>1, <2>2, <2>3
  <2>5. QED BY <2>4, RefundKeeps
<1>18. ASSUME NEW l \in ListingIds, NEW s \in SUBSET Collectors, SweepOffers(l, s) PROVE MarketInv'
  <2>1. RefundOffers(l, s) BY <1>18 DEF SweepOffers
  <2>2. QED BY <2>1, RefundKeeps
<1>19. ASSUME NEW b \in Collectors, NEW x \in OfferAmounts, NEW u \in OfferExpiries, MakeCollectionOffer(b, x, u)
       PROVE  MarketInv'
  BY <1>19, MakeCollectionOfferKeeps
<1>20. ASSUME NEW n, NEW a \in Collectors, NEW i \in TokenIds, NEW d \in Discounts, AcceptCollectionOffer(n, a, i, d)
       PROVE  MarketInv'
  BY <1>20, AcceptCollectionOfferPays
<1>21. ASSUME NEW n, CancelCollectionOffer(n) PROVE MarketInv' BY <1>21, CancelCollectionOfferKeeps
<1>22. ASSUME UNCHANGED <<now, nftConf, tokenBps>>, UNCHANGED marketOnlyVars PROVE MarketInv'
  BY <1>a, <1>22 DEF marketOnlyVars, marketSetup
<1>23. ASSUME NEW i, NEW s, ApproveNft(i, s) PROVE UNCHANGED <<now, nftConf, tokenBps>> BY <1>23 DEF ApproveNft
<1>24. ASSUME NEW a, NEW b, NEW i, TransferNft(a, b, i) PROVE UNCHANGED <<now, nftConf, tokenBps>>
  BY <1>24 DEF TransferNft, MoveTokens
<1>25. ASSUME NEW a, NEW i, BurnNft(a, i) PROVE UNCHANGED <<now, nftConf, tokenBps>> BY <1>25 DEF BurnNft
<1>26. CASE LedgerCloses /\ UNCHANGED <<nftOnlyVars, marketOnlyVars>>
  <2>1. now' = now + 1 BY <1>26 DEF LedgerCloses
  <2>2. now' \in Nat BY <1>1, <2>1
  <2>3. UNCHANGED <<listings, bundles, offers, wideOffers, marketFunds, overwritten, tokenBps, nftConf, splits>>
    BY <1>26 DEF nftOnlyVars, marketOnlyVars, marketSetup
  <2>4. SameTerms BY <1>1, <2>3, KeptTerms
  <2>5. QED BY <2>2, <2>3, <2>4, CloseKeeps
<1>27. QED
  BY <1>2, <1>3, <1>4, <1>5, <1>6, <1>7, <1>8, <1>9, <1>10, <1>11, <1>12, <1>13, <1>14, <1>15, <1>16, <1>17, <1>18,
     <1>19, <1>20, <1>21, <1>22, <1>23, <1>24, <1>25, <1>26, Zenon
  DEF MarketNext

\* The marketplace always holds every open offer and collection offer in full, and
\* beyond them only what make_offers_batch left behind.
THEOREM OffersAreBacked == MarketSpec => []OffersBacked
<1>1. MarketInv => OffersBacked BY DEF MarketInv
<1>2. QED BY MarketStarts, MarketKeeps, <1>1, PTL DEF MarketSpec

\* Every offer that is there is for something.
RealOffers ==
    /\ \A l \in ListingIds, b \in Collectors : offers[l][b] = NoOffer \/ offers[l][b].amount > 0
    /\ \A n \in DOMAIN wideOffers : wideOffers[n].amount > 0

\* There are no offers at first.
LEMMA RealStarts == MarketInit => RealOffers
<1> SUFFICES ASSUME MarketInit PROVE RealOffers OBVIOUS
<1>1. offers = [l \in ListingIds |-> [b \in Collectors |-> NoOffer]] /\ wideOffers = <<>> BY DEF MarketInit
<1>2. \A l \in ListingIds, b \in Collectors : offers[l][b] = NoOffer BY <1>1
<1>3. DOMAIN wideOffers = {} BY <1>1
<1>4. QED BY <1>2, <1>3 DEF RealOffers

\* Offers and collection offers stay, are cleared or closed, or are made of positive amounts.
LEMMA RealOn ==
    ASSUME RealOffers,
           \A l \in ListingIds, b \in Collectors :
             offers'[l][b] = offers[l][b] \/ offers'[l][b] = NoOffer \/ offers'[l][b].amount > 0,
           \A n \in DOMAIN wideOffers' :
             (n \in DOMAIN wideOffers /\ wideOffers'[n].amount = wideOffers[n].amount) \/ wideOffers'[n].amount > 0
    PROVE  RealOffers'
<1>1. ASSUME NEW l \in ListingIds, NEW b \in Collectors PROVE offers'[l][b] = NoOffer \/ offers'[l][b].amount > 0
  <2>1. offers[l][b] = NoOffer \/ offers[l][b].amount > 0 BY DEF RealOffers
  <2>2. offers'[l][b] = offers[l][b] \/ offers'[l][b] = NoOffer \/ offers'[l][b].amount > 0 OBVIOUS
  <2>3. QED BY <2>1, <2>2
<1>2. ASSUME NEW n \in DOMAIN wideOffers' PROVE wideOffers'[n].amount > 0
  <2>1. n \in DOMAIN wideOffers => wideOffers[n].amount > 0 BY DEF RealOffers
  <2>2. QED BY <2>1
<1>3. QED BY <1>1, <1>2 DEF RealOffers, NoOffer

\* Every offer that is made is for something, and stays so until it is cleared.
LEMMA RealKept ==
    ASSUME MarketInv, RealOffers, [MarketNext]_marketVars
    PROVE  RealOffers'
<1>1. MarketTyped BY InvParts
<1>2. offers \in [ListingIds -> [Collectors -> OfferRecords]] /\ wideOffers \in Seq(WideRecords)
  BY <1>1 DEF MarketTyped, HeldOK
<1>a. ASSUME UNCHANGED <<offers, wideOffers>> PROVE RealOffers' BY <1>a DEF RealOffers
<1>b. ASSUME NEW l \in ListingIds, NEW b \in Collectors, NEW o, o = NoOffer \/ o.amount > 0,
             offers' = [offers EXCEPT ![l][b] = o], UNCHANGED wideOffers
      PROVE  RealOffers'
  <2>1. ASSUME NEW k \in ListingIds, NEW c \in Collectors
        PROVE  offers'[k][c] = offers[k][c] \/ offers'[k][c] = NoOffer \/ offers'[k][c].amount > 0
    <3>1. offers'[k][c] = IF k = l /\ c = b THEN o ELSE offers[k][c] BY <1>2, <1>b
    <3>2. QED BY <1>b, <3>1
  <2>2. \A n \in DOMAIN wideOffers' : n \in DOMAIN wideOffers /\ wideOffers'[n].amount = wideOffers[n].amount BY <1>b
  <2>3. QED BY <2>1, <2>2, RealOn
<1>c. ASSUME NEW n, n \in DOMAIN wideOffers, wideOffers' = [wideOffers EXCEPT ![n].open = FALSE], UNCHANGED offers
      PROVE  RealOffers'
  <2>1. PICK w : w = wideOffers[n] OBVIOUS
  <2>2. w \in WideRecords BY <1>2, <1>c, <2>1
  <2>3. PICK v : v = [w EXCEPT !.open = FALSE] OBVIOUS
  <2>4. v.amount = w.amount BY <2>2, <2>3 DEF WideRecords
  <2>5. wideOffers' = [wideOffers EXCEPT ![n] = v] BY <1>c, <2>1, <2>3
  <2>6. \A m \in DOMAIN wideOffers' : m \in DOMAIN wideOffers /\ wideOffers'[m] = IF m = n THEN v ELSE wideOffers[m]
    BY <2>5
  <2>7. \A m \in DOMAIN wideOffers' : m \in DOMAIN wideOffers /\ wideOffers'[m].amount = wideOffers[m].amount
    BY <2>1, <2>4, <2>6
  <2>8. \A k \in ListingIds, c \in Collectors : offers'[k][c] = offers[k][c] BY <1>c
  <2>9. QED BY <2>7, <2>8, RealOn
<1>d. ASSUME NEW l \in ListingIds, NEW S, RefundOffers(l, S) PROVE RealOffers'
  <2>1. PICK row : row = [b \in Collectors |-> IF b \in S THEN NoOffer ELSE offers[l][b]] OBVIOUS
  <2>2. offers' = [offers EXCEPT ![l] = row] /\ UNCHANGED wideOffers BY <1>2, <1>d, <2>1 DEF RefundOffers
  <2>3. \A k \in ListingIds, c \in Collectors : offers'[k][c] = offers[k][c] \/ offers'[k][c] = NoOffer
    <3> SUFFICES ASSUME NEW k \in ListingIds, NEW c \in Collectors PROVE offers'[k][c] = offers[k][c] \/ offers'[k][c] = NoOffer
      OBVIOUS
    <3>1. CASE k = l
      <4>1. offers'[k] = row BY <1>2, <2>2, <3>1
      <4>2. QED BY <2>1, <3>1, <4>1
    <3>2. CASE k # l BY <1>2, <2>2, <3>2
    <3>3. QED BY <3>1, <3>2
  <2>4. \A n \in DOMAIN wideOffers' : n \in DOMAIN wideOffers /\ wideOffers'[n].amount = wideOffers[n].amount BY <2>2
  <2>5. QED BY <2>3, <2>4, RealOn
<1>3. CASE UNCHANGED marketVars BY <1>a, <1>3 DEF marketVars, marketOnlyVars
<1>4. CASE InitializeMarket BY <1>a, <1>4 DEF InitializeMarket
<1>5. ASSUME NEW s, SetWhitelist(s) PROVE RealOffers' BY <1>a, <1>5 DEF SetWhitelist
<1>6. ASSUME NEW bps, SetMinCounterOfferBps(bps) PROVE RealOffers' BY <1>a, <1>6 DEF SetMinCounterOfferBps
<1>7. ASSUME NEW s, SetRoyaltySplits(s) PROVE RealOffers' BY <1>a, <1>7 DEF SetRoyaltySplits
<1>8. ASSUME NEW a, NEW batch, List(a, batch) PROVE RealOffers' BY <1>a, <1>8 DEF List
<1>9. ASSUME NEW b, NEW ids, NEW x, NEW d, Buy(b, ids, x, d) PROVE RealOffers' BY <1>a, <1>9 DEF Buy
<1>10. ASSUME NEW a, NEW ids, CancelListings(a, ids) PROVE RealOffers' BY <1>a, <1>10 DEF CancelListings
<1>11. ASSUME NEW l, InvalidateListing(l) PROVE RealOffers' BY <1>a, <1>11 DEF InvalidateListing
<1>12. ASSUME NEW a, NEW t, CreateBundle(a, t) PROVE RealOffers' BY <1>a, <1>12 DEF CreateBundle
<1>13. ASSUME NEW b, NEW n, BuyBundle(b, n) PROVE RealOffers' BY <1>a, <1>13 DEF BuyBundle
<1>14. ASSUME NEW n, DelistBundle(n) PROVE RealOffers' BY <1>a, <1>14 DEF DelistBundle
<1>15. ASSUME NEW b \in Collectors, NEW l \in ListingIds, NEW x, NEW u, MakeOffer(b, l, x, u) PROVE RealOffers'
  <2>1. PICK o : o = [amount |-> x, expires |-> u] OBVIOUS
  <2>2. x > 0 /\ offers' = [offers EXCEPT ![l][b] = o] /\ UNCHANGED wideOffers BY <1>15, <2>1 DEF MakeOffer
  <2>3. o.amount > 0 BY <2>1, <2>2
  <2>4. QED BY <1>b, <2>2, <2>3
<1>16. ASSUME NEW b \in Collectors, NEW batch \in OfferLists, NEW u \in OfferExpiries, MakeOffersBatch(b, batch, u)
       PROVE  RealOffers'
  <2>1. \A l \in ListingIds, c \in Collectors : offers'[l][c] = offers[l][c] \/ offers'[l][c].amount > 0
    BY <1>16, MakeOffersBatchKeeps
  <2>2. UNCHANGED wideOffers BY <1>16 DEF MakeOffersBatch
  <2>3. \A n \in DOMAIN wideOffers' : n \in DOMAIN wideOffers /\ wideOffers'[n].amount = wideOffers[n].amount BY <2>2
  <2>4. QED BY <2>1, <2>3, RealOn
<1>17. ASSUME NEW l \in ListingIds, NEW b \in Collectors, NEW d, AcceptOffer(l, b, d) PROVE RealOffers'
  <2>1. PICK o : o = NoOffer OBVIOUS
  <2>2. offers' = [offers EXCEPT ![l][b] = o] /\ UNCHANGED wideOffers BY <1>17, <2>1 DEF AcceptOffer
  <2>3. QED BY <1>b, <2>1, <2>2
<1>18. ASSUME NEW l \in ListingIds, NEW b, CancelOffer(l, b) PROVE RealOffers' BY <1>d, <1>18 DEF CancelOffer
<1>19. ASSUME NEW l \in ListingIds, NEW s, SweepOffers(l, s) PROVE RealOffers' BY <1>d, <1>19 DEF SweepOffers
<1>20. ASSUME NEW b \in Collectors, NEW x, NEW u, MakeCollectionOffer(b, x, u) PROVE RealOffers'
  <2>1. PICK w : w = [buyer |-> b, amount |-> x, expires |-> u, open |-> TRUE] OBVIOUS
  <2>2. x > 0 /\ wideOffers' = Append(wideOffers, w) /\ UNCHANGED offers BY <1>20, <2>1 DEF MakeCollectionOffer
  <2>3. w.amount > 0 BY <2>1, <2>2
  <2>4. \A n \in DOMAIN wideOffers' : (n \in DOMAIN wideOffers /\ wideOffers'[n] = wideOffers[n]) \/ wideOffers'[n] = w
    BY <1>2, <2>2
  <2>5. \A k \in ListingIds, c \in Collectors : offers'[k][c] = offers[k][c] BY <2>2
  <2>6. \A n \in DOMAIN wideOffers' :
          (n \in DOMAIN wideOffers /\ wideOffers'[n].amount = wideOffers[n].amount) \/ wideOffers'[n].amount > 0
    BY <2>3, <2>4
  <2>7. QED BY <2>5, <2>6, RealOn
<1>21. ASSUME NEW n, NEW a, NEW i, NEW d, AcceptCollectionOffer(n, a, i, d) PROVE RealOffers'
  BY <1>c, <1>21 DEF AcceptCollectionOffer
<1>22. ASSUME NEW n, CancelCollectionOffer(n) PROVE RealOffers' BY <1>c, <1>22 DEF CancelCollectionOffer
<1>23. ASSUME UNCHANGED marketOnlyVars PROVE RealOffers' BY <1>a, <1>23 DEF marketOnlyVars
<1>24. QED
  BY <1>3, <1>4, <1>5, <1>6, <1>7, <1>8, <1>9, <1>10, <1>11, <1>12, <1>13, <1>14, <1>15, <1>16, <1>17, <1>18,
     <1>19, <1>20, <1>21, <1>22, <1>23, Zenon
  DEF MarketNext

\* A token that changes hands was its seller's, who is not the one it goes to.
LEMMA Delivered ==
    ASSUME NEW from, NEW to, NEW list, Deliver(from, to, list), NEW i \in TokenIds, nftOwner'[i] # nftOwner[i]
    PROVE  \E x \in DOMAIN list : list[x] = i /\ nftOwner[i] = from[x] /\ from[x] # to
<1>1. PICK given : given = {list[x] : x \in DOMAIN list} OBVIOUS
<1>2. /\ \A x \in DOMAIN list : Gives(from[x], list[x])
      /\ nftOwner' = [j \in TokenIds |-> IF j \in given THEN to ELSE nftOwner[j]]
  BY <1>1, Zenon DEF Deliver
<1>3. i \in given /\ nftOwner'[i] = to BY <1>2
<1>4. PICK x \in DOMAIN list : list[x] = i BY <1>1, <1>3
<1>5. nftOwner[i] = from[x] BY <1>2, <1>4 DEF Gives
<1>6. QED BY <1>3, <1>4, <1>5

\* What a sale of token i comes to.
SoldWell(i) ==
    RoyaltiesLeave => \E t \in PayTokens : marketFunds'[nftOwner[i]][t] > marketFunds[nftOwner[i]][t]

\* A gain of the owner is what the property asks.
LEMMA GainIsPay ==
    ASSUME NEW i, NEW seller, nftOwner[i] = seller, NEW t \in PayTokens,
           Gained(marketFunds, marketFunds', seller, t)
    PROVE  SoldWell(i)
BY DEF Gained, SoldWell

\* buy and buy_batch.
LEMMA BuySells ==
    ASSUME MarketInv, NEW b \in Collectors, NEW ids \in IdLists, NEW x, NEW d \in Discounts, Buy(b, ids, x, d),
           NEW i \in TokenIds, nftOwner'[i] # nftOwner[i]
    PROVE  SoldWell(i)
<1>1. MarketTyped BY InvParts
<1>2. PICK from : from = [z \in DOMAIN ids |-> listings[ids[z]].seller] OBVIOUS
<1>3. PICK list : list = [z \in DOMAIN ids |-> listings[ids[z]].terms.token] OBVIOUS
<1>4. Deliver(from, b, list) /\ {ids[z] : z \in DOMAIN ids} \subseteq DOMAIN listings BY <1>2, <1>3 DEF Buy
<1>5. PICK z \in DOMAIN list : list[z] = i /\ nftOwner[i] = from[z] /\ from[z] # b
  BY <1>4, Delivered
<1>6. z \in DOMAIN ids /\ ids[z] \in DOMAIN listings BY <1>3, <1>4, <1>5
<1>7. from[z] = listings[ids[z]].seller BY <1>2, <1>6
<1>8. PICK l : l = ids[z] OBVIOUS
<1>9. PICK t \in PayTokens : t = listings[l].terms.pay BY <1>1, <1>6, <1>8, ListingFields
<1>10. Gained(marketFunds, marketFunds', listings[l].seller, t) BY <1>5, <1>6, <1>7, <1>8, <1>9, BuyPays
<1>11. nftOwner[i] = listings[l].seller BY <1>5, <1>7, <1>8
<1>12. QED BY <1>5, <1>10, <1>11, GainIsPay

\* buy_bundle.
LEMMA BuyBundleSells ==
    ASSUME MarketInv, NEW b \in Collectors, NEW n, BuyBundle(b, n), NEW i \in TokenIds, nftOwner'[i] # nftOwner[i]
    PROVE  SoldWell(i)
<1>1. MarketTyped /\ BundlesOK BY InvParts
<1>2. PICK list : list = bundles[n].terms.tokens OBVIOUS
<1>3. PICK from : from = [x \in DOMAIN list |-> bundles[n].seller] OBVIOUS
<1>4. /\ n \in DOMAIN bundles /\ Deliver(from, b, list)
      /\ Paid(PaySale(Books, b, bundles[n].seller, bundles[n].terms.tokens[1], bundles[n].terms.pay, bundles[n].terms.price, 0))
  BY <1>2, <1>3 DEF BuyBundle
<1>5. PICK seller \in Collectors : seller = bundles[n].seller BY <1>1, <1>4, BundleFields
<1>6. PICK price \in Nat : price = bundles[n].terms.price /\ price > 0 BY <1>1, <1>4, BundleFields
<1>7. PICK t \in PayTokens : t = bundles[n].terms.pay BY <1>1, <1>4, BundleFields
<1>8. PICK j \in TokenIds : j = bundles[n].terms.tokens[1] BY <1>1, <1>4, BundleFields
<1>9. PICK d \in Rates : d = 0 BY DEF Rates
<1>10. Paid(PaySale(Books, b, seller, j, t, price, d)) BY <1>4, <1>5, <1>6, <1>7, <1>8, <1>9
<1>11. PICK x \in DOMAIN list : nftOwner[i] = from[x] /\ from[x] # b BY <1>4, Delivered
<1>12. from[x] = seller BY <1>3, <1>5, <1>11
<1>13. Gained(marketFunds, marketFunds', seller, t) BY <1>1, <1>6, <1>10, <1>11, <1>12, SaleIn
<1>14. QED BY <1>11, <1>12, <1>13, GainIsPay

\* The case of a single token.
LEMMA DeliveredOne ==
    ASSUME NEW seller, NEW to, NEW j, Deliver(<<seller>>, to, <<j>>), NEW i \in TokenIds, nftOwner'[i] # nftOwner[i]
    PROVE  nftOwner[i] = seller
<1>1. PICK from : from = <<seller>> OBVIOUS
<1>2. PICK list : list = <<j>> OBVIOUS
<1>3. Deliver(from, to, list) BY <1>1, <1>2
<1>4. PICK x \in DOMAIN list : nftOwner[i] = from[x] BY <1>3, Delivered
<1>5. x = 1 BY <1>2, <1>4
<1>6. QED BY <1>1, <1>4, <1>5

\* accept_offer.
LEMMA AcceptOfferSells ==
    ASSUME MarketInv, RealOffers, NEW l \in ListingIds, NEW b \in Collectors, NEW r \in Discounts, AcceptOffer(l, b, r),
           NEW i \in TokenIds, nftOwner'[i] # nftOwner[i]
    PROVE  SoldWell(i)
<1>1. MarketTyped BY InvParts
<1>2. PICK seller : seller = listings[l].seller OBVIOUS
<1>3. PICK j : j = listings[l].terms.token OBVIOUS
<1>4. Deliver(<<seller>>, b, <<j>>) /\ offers[l][b] # NoOffer /\ l \in DOMAIN listings BY <1>2, <1>3 DEF AcceptOffer
<1>5. offers[l][b].amount > 0 BY <1>4 DEF RealOffers
<1>6. PICK t \in PayTokens : t = listings[l].terms.pay BY <1>1, <1>4, ListingFields
<1>7. Gained(marketFunds, marketFunds', seller, t) BY <1>2, <1>5, <1>6, AcceptOfferPays
<1>8. nftOwner[i] = seller  BY <1>4, DeliveredOne
<1>9. QED BY <1>7, <1>8, GainIsPay

\* accept_collection_offer.
LEMMA AcceptCollectionOfferSells ==
    ASSUME MarketInv, RealOffers, NEW n, NEW a \in Collectors, NEW j \in TokenIds, NEW d \in Discounts,
           AcceptCollectionOffer(n, a, j, d), NEW i \in TokenIds, nftOwner'[i] # nftOwner[i]
    PROVE  SoldWell(i)
<1>1. PICK to : to = wideOffers[n].buyer OBVIOUS
<1>2. Deliver(<<a>>, to, <<j>>) /\ n \in DOMAIN wideOffers BY <1>1 DEF AcceptCollectionOffer
<1>3. wideOffers[n].amount > 0 BY <1>2 DEF RealOffers
<1>4. Gained(marketFunds, marketFunds', a, DefaultToken) BY <1>3, AcceptCollectionOfferPays
<1>5. DefaultToken \in PayTokens BY MarketAssumption
<1>6. nftOwner[i] = a  BY <1>2, DeliveredOne
<1>7. QED BY <1>4, <1>5, <1>6, GainIsPay

\* No other step of the marketplace moves a token.
LEMMA SalesPay ==
    ASSUME MarketInv, RealOffers, [MarketNext]_marketVars, NEW i \in TokenIds,
           nftOwner'[i] # nftOwner[i], marketOnlyVars' # marketOnlyVars
    PROVE  SoldWell(i)
<1>a. nftOwner' # nftOwner OBVIOUS
<1>1. CASE UNCHANGED marketVars BY <1>1 DEF marketVars
<1>2. CASE InitializeMarket BY <1>a, <1>2 DEF InitializeMarket, nftVars, nftOnlyVars
<1>3. ASSUME NEW s, SetWhitelist(s) PROVE FALSE BY <1>a, <1>3 DEF SetWhitelist, nftVars, nftOnlyVars
<1>4. ASSUME NEW bps, SetMinCounterOfferBps(bps) PROVE FALSE BY <1>a, <1>4 DEF SetMinCounterOfferBps, nftVars, nftOnlyVars
<1>5. ASSUME NEW s, SetRoyaltySplits(s) PROVE FALSE BY <1>a, <1>5 DEF SetRoyaltySplits, nftVars, nftOnlyVars
<1>6. ASSUME NEW a, NEW batch, List(a, batch) PROVE FALSE BY <1>a, <1>6 DEF List, nftVars, nftOnlyVars
<1>7. ASSUME NEW b \in Collectors, NEW ids \in IdLists, NEW x, NEW d \in Discounts, Buy(b, ids, x, d) PROVE SoldWell(i)
  BY <1>7, BuySells
<1>8. ASSUME NEW a, NEW ids, CancelListings(a, ids) PROVE FALSE BY <1>a, <1>8 DEF CancelListings, nftVars, nftOnlyVars
<1>9. ASSUME NEW l, InvalidateListing(l) PROVE FALSE BY <1>a, <1>9 DEF InvalidateListing, nftVars, nftOnlyVars
<1>10. ASSUME NEW a, NEW t, CreateBundle(a, t) PROVE FALSE BY <1>a, <1>10 DEF CreateBundle, nftVars, nftOnlyVars
<1>11. ASSUME NEW b \in Collectors, NEW n, BuyBundle(b, n) PROVE SoldWell(i) BY <1>11, BuyBundleSells
<1>12. ASSUME NEW n, DelistBundle(n) PROVE FALSE BY <1>a, <1>12 DEF DelistBundle, nftVars, nftOnlyVars
<1>13. ASSUME NEW b, NEW l, NEW x, NEW u, MakeOffer(b, l, x, u) PROVE FALSE
  BY <1>a, <1>13 DEF MakeOffer, nftVars, nftOnlyVars
<1>14. ASSUME NEW b, NEW batch, NEW u, MakeOffersBatch(b, batch, u) PROVE FALSE
  BY <1>a, <1>14 DEF MakeOffersBatch, nftVars, nftOnlyVars
<1>15. ASSUME NEW l \in ListingIds, NEW b \in Collectors, NEW d \in Discounts, AcceptOffer(l, b, d) PROVE SoldWell(i)
  BY <1>15, AcceptOfferSells
<1>16. ASSUME NEW l, NEW s, RefundOffers(l, s) PROVE FALSE BY <1>a, <1>16 DEF RefundOffers, nftVars, nftOnlyVars
<1>17. ASSUME NEW l, NEW b, CancelOffer(l, b) PROVE FALSE BY <1>16, <1>17 DEF CancelOffer
<1>18. ASSUME NEW l, NEW s, SweepOffers(l, s) PROVE FALSE BY <1>16, <1>18 DEF SweepOffers
<1>19. ASSUME NEW b, NEW x, NEW u, MakeCollectionOffer(b, x, u) PROVE FALSE
  BY <1>a, <1>19 DEF MakeCollectionOffer, nftVars, nftOnlyVars
<1>20. ASSUME NEW n, NEW a \in Collectors, NEW j \in TokenIds, NEW d \in Discounts, AcceptCollectionOffer(n, a, j, d)
       PROVE  SoldWell(i)
  BY <1>20, AcceptCollectionOfferSells
<1>21. ASSUME NEW n, CancelCollectionOffer(n) PROVE FALSE
  BY <1>a, <1>21 DEF CancelCollectionOffer, nftVars, nftOnlyVars
<1>22. ASSUME UNCHANGED marketOnlyVars PROVE FALSE BY <1>22
<1>23. QED
  BY <1>1, <1>2, <1>3, <1>4, <1>5, <1>6, <1>7, <1>8, <1>9, <1>10, <1>11, <1>12, <1>13, <1>14, <1>15, <1>17, <1>18,
     <1>19, <1>20, <1>21, <1>22, Zenon
  DEF MarketNext

\* A token that a step of the marketplace hands on was paid to the one who owned it
\* until then, who ends strictly richer in some payment token, unless a royalty takes
\* a whole price; a token whose seller moved or burnt it meanwhile is never sold.
THEOREM SalesArePaid == MarketSpec => SoldForPay
<1>1. ASSUME MarketInv, RealOffers, [MarketNext]_marketVars
      PROVE  [\A i \in TokenIds :
                /\ nftOwner'[i] # nftOwner[i] /\ marketOnlyVars' # marketOnlyVars
                /\ \A j \in TokenIds : RoyaltyRate(j) < 10000
                => \E t \in PayTokens : marketFunds'[nftOwner[i]][t] > marketFunds[nftOwner[i]][t]]_marketVars
  BY <1>1, SalesPay DEF SoldWell, RoyaltiesLeave
<1>2. MarketInv /\ RealOffers /\ [MarketNext]_marketVars => RealOffers' BY RealKept
<1>3. QED BY MarketStarts, RealStarts, MarketKeeps, <1>1, <1>2, PTL DEF MarketSpec, SoldForPay
====
