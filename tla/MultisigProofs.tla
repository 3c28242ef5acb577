---- MODULE MultisigProofs ----
(***************************************************************************)
(* Proofs about the multisignature wallet, for any addresses, weights,     *)
(* thresholds, lifetimes, batches and number of proposals.                 *)
(***************************************************************************)
EXTENDS Multisig, FoldLemmas

\* Ids not yet handed out carry no proposal: a new one never lands on an old one.
FreshIds == \A i \in Ids : i >= nextId => tx[i] = Missing

MultisigInv == MultisigTypeOK /\ FreshIds /\ CalledOnce

\* Weights that are read or accumulated fit in a u32.
LEMMA WeightRange ==
  /\ \A x \in Nat : Saturated(x) \in 0..U32Max
  /\ \A w \in [Addresses -> 0..U32Max], a \in Addresses : WeightIn(w, a) \in 0..U32Max
  BY MultisigAssumption DEF Saturated, WeightIn

\* An executed, signed or new proposal is a proposal.
LEMMA ExecutedProposal ==
  ASSUME NEW p \in Proposals
  PROVE  /\ [p EXCEPT !.executed = TRUE] \in Proposals
         /\ [p EXCEPT !.executed = TRUE].executed
         /\ [p EXCEPT !.executed = TRUE] # Missing
  BY MultisigAssumption DEF Proposals

\* Changing the signers touches no proposal and no call.
LEMMA SignerStepKeeps ==
  ASSUME MultisigInv, SignerStep
  PROVE  MultisigInv' /\ ThresholdReachable'
<1> USE MultisigAssumption
<1>1. ASSUME NEW list \in SignerLists, NEW n \in Thresholds, NEW g \in WeightMaps,
             NEW v \in Validities, InitializeWallet(list, n, g, v)
      PROVE  MultisigInv' /\ ThresholdReachable'
  <2>1. Range(list) \subseteq Addresses BY DEF Range
  <2>2. \A a \in DOMAIN g : g[a] \in 0..U32Max BY DEF Range
  <2>3. weights' \in [Addresses -> 0..U32Max] BY <1>1, <2>2 DEF InitializeWallet
  <2>4. MultisigTypeOK'
    BY <1>1, <2>1, <2>3 DEF InitializeWallet, MultisigInv, MultisigTypeOK
  <2>5. FreshIds' /\ CalledOnce'
    BY <1>1 DEF InitializeWallet, MultisigInv, FreshIds, CalledOnce
  <2>6. ThresholdReachable' BY <1>1 DEF InitializeWallet, ThresholdReachable
  <2>7. QED BY <2>4, <2>5, <2>6 DEF MultisigInv
<1>2. ASSUME NEW ap \in Approvals, NEW a \in Addresses, NEW n \in Thresholds, AddSigner(ap, a, n)
      PROVE  MultisigInv' /\ ThresholdReachable'
  <2>0. weights \in [Addresses -> 0..U32Max] /\ 1 \in 0..U32Max BY DEF MultisigInv, MultisigTypeOK
  <2>1. MultisigTypeOK'
    <3>1. weights' \in [Addresses -> 0..U32Max] BY <1>2, <2>0 DEF AddSigner
    <3>2. signers' \subseteq Addresses /\ threshold' \in Nat BY <1>2 DEF AddSigner, MultisigInv, MultisigTypeOK
    <3>3. QED BY <1>2, <3>1, <3>2 DEF AddSigner, MultisigInv, MultisigTypeOK
  <2>2. FreshIds' /\ CalledOnce' BY <1>2 DEF AddSigner, MultisigInv, FreshIds, CalledOnce
  <2>3. ThresholdReachable' BY <1>2 DEF AddSigner, ThresholdReachable
  <2>4. QED BY <2>1, <2>2, <2>3 DEF MultisigInv
<1>3. ASSUME NEW ap \in Approvals, NEW a \in Addresses, NEW n \in Thresholds, RemoveSigner(ap, a, n)
      PROVE  MultisigInv' /\ ThresholdReachable'
  <2>1. MultisigTypeOK' BY <1>3 DEF RemoveSigner, MultisigInv, MultisigTypeOK
  <2>2. FreshIds' /\ CalledOnce' BY <1>3 DEF RemoveSigner, MultisigInv, FreshIds, CalledOnce
  <2>3. ThresholdReachable' BY <1>3 DEF RemoveSigner, ThresholdReachable
  <2>4. QED BY <2>1, <2>2, <2>3 DEF MultisigInv
<1>4. QED BY <1>1, <1>2, <1>3 DEF SignerStep

\* Executing a set of pending proposals makes each of their calls for the first time.
LEMMA ExecuteKeeps ==
  ASSUME MultisigInv, NEW S \in SUBSET Ids, \A i \in S : Executable(i), Execute(S)
  PROVE  MultisigInv'
<1>1. \A i \in S : tx[i] \in Proposals /\ ~tx[i].executed /\ tx[i] # Missing
  BY DEF MultisigInv, MultisigTypeOK, Executable, Pending
<1>2. \A i \in S : tx'[i] \in Proposals /\ tx'[i].executed /\ tx'[i] # Missing
  <2>1. ASSUME NEW i \in S PROVE tx'[i] = [tx[i] EXCEPT !.executed = TRUE] BY DEF Execute
  <2>2. QED BY <1>1, <2>1, ExecutedProposal
<1>3. \A i \in Ids \ S : tx'[i] = tx[i] /\ calls'[i] = calls[i] BY DEF Execute
<1>4. \A i \in S : calls[i] = 0 /\ calls'[i] = 1
  <2>1. ASSUME NEW i \in S PROVE calls[i] = 0
    BY <1>1, <2>1 DEF MultisigInv, MultisigTypeOK, CalledOnce
  <2>2. QED BY <2>1 DEF Execute
<1>5. MultisigTypeOK'
  <2>1. tx' \in [Ids -> Proposals \cup {Missing}]
    BY <1>2, <1>3 DEF Execute, MultisigInv, MultisigTypeOK
  <2>2. calls' \in [Ids -> Nat] BY <1>3, <1>4 DEF Execute, MultisigInv, MultisigTypeOK
  <2>3. QED BY <2>1, <2>2 DEF Execute, MultisigInv, MultisigTypeOK
<1>6. FreshIds' BY <1>1, <1>3 DEF Execute, MultisigInv, FreshIds
<1>7. CalledOnce'
  <2>1. ASSUME NEW i \in S
        PROVE  calls'[i] <= 1 /\ (calls'[i] = 1 <=> (tx'[i] # Missing /\ tx'[i].executed))
    BY <1>2, <1>4
  <2>2. ASSUME NEW i \in Ids \ S
        PROVE  calls'[i] <= 1 /\ (calls'[i] = 1 <=> (tx'[i] # Missing /\ tx'[i].executed))
    BY <1>3 DEF MultisigInv, CalledOnce
  <2>3. QED BY <2>1, <2>2 DEF CalledOnce
<1>8. QED BY <1>5, <1>6, <1>7 DEF MultisigInv

\* Proposing, signing, executing and cleaning up.
LEMMA ProposalStepKeeps ==
  ASSUME MultisigInv, ProposalStep
  PROVE  MultisigInv'
<1> USE MultisigAssumption
<1>1. ASSUME NEW a \in Addresses, NEW life \in Lifetimes, ProposeTransaction(a, life)
      PROVE  MultisigInv'
  <2> DEFINE p == [signatures |-> [b \in Addresses |-> IF b = a THEN WeightIn(weights, a) ELSE 0],
                   weight |-> WeightIn(weights, a), executed |-> FALSE,
                   expiry |-> Saturated(now + life), created |-> now]
  <2>1. WeightIn(weights, a) \in 0..U32Max BY WeightRange DEF MultisigInv, MultisigTypeOK
  <2>2. Saturated(now + life) \in Nat
    <3>1. now + life \in Nat BY DEF MultisigInv, MultisigTypeOK
    <3>2. QED BY <3>1, WeightRange
  <2>3. p \in Proposals BY <2>1, <2>2 DEF Proposals, MultisigInv, MultisigTypeOK
  <2>4. nextId \in Ids /\ tx' = [tx EXCEPT ![nextId] = p] BY <1>1 DEF ProposeTransaction
  <2>5. p.executed = FALSE OBVIOUS
  <2> HIDE DEF p
  <2>6. MultisigTypeOK'
    <3>1. tx' \in [Ids -> Proposals \cup {Missing}]
      BY <2>3, <2>4 DEF MultisigInv, MultisigTypeOK
    <3>2. /\ nextId' = nextId + 1
          /\ UNCHANGED <<now, signers, weights, threshold, validity, calls>>
      BY <1>1 DEF ProposeTransaction
    <3>3. QED BY <3>1, <3>2 DEF MultisigInv, MultisigTypeOK
  <2>7. FreshIds'
    <3>1. nextId \in Nat /\ nextId' = nextId + 1
      BY <1>1 DEF ProposeTransaction, MultisigInv, MultisigTypeOK
    <3>2. ASSUME NEW i \in Ids, i >= nextId' PROVE tx'[i] = Missing
      <4>1. i # nextId /\ i >= nextId BY <3>1, <3>2 DEF Ids
      <4>2. QED BY <2>4, <4>1 DEF MultisigInv, FreshIds, MultisigTypeOK
    <3>3. QED BY <3>2 DEF FreshIds
  <2>8. CalledOnce'
    <3>1. calls[nextId] # 1
      BY <2>4 DEF MultisigInv, FreshIds, MultisigTypeOK, CalledOnce
    <3>2. ASSUME NEW i \in Ids
          PROVE  /\ calls'[i] <= 1
                 /\ calls'[i] = 1 <=> (tx'[i] # Missing /\ tx'[i].executed)
      <4>1. CASE i = nextId
        BY <1>1, <2>4, <2>5, <3>1, <4>1
        DEF ProposeTransaction, MultisigInv, MultisigTypeOK, CalledOnce
      <4>2. CASE i # nextId
        BY <1>1, <2>4, <4>2 DEF ProposeTransaction, MultisigInv, MultisigTypeOK, CalledOnce
      <4>3. QED BY <4>1, <4>2
    <3>3. QED BY <3>2 DEF CalledOnce
  <2>9. QED BY <2>6, <2>7, <2>8 DEF MultisigInv
<1>2. ASSUME NEW a \in Addresses, NEW i \in Ids, SignTransaction(a, i)
      PROVE  MultisigInv'
  <2> DEFINE w == WeightIn(weights, a)
             p == [tx[i] EXCEPT !.signatures[a] = w, !.weight = Saturated(@ + w)]
  <2>1. tx[i] \in Proposals /\ tx[i] # Missing /\ ~tx[i].executed
    BY <1>2 DEF SignTransaction, Pending, MultisigInv, MultisigTypeOK
  <2>2. w \in 0..U32Max BY WeightRange DEF MultisigInv, MultisigTypeOK
  <2>3. Saturated(tx[i].weight + w) \in 0..U32Max
    <3>1. tx[i].weight + w \in Nat BY <2>1, <2>2 DEF Proposals
    <3>2. QED BY <3>1, WeightRange
  <2> HIDE DEF w
  <2>4. p \in Proposals /\ p.executed = tx[i].executed BY <2>1, <2>2, <2>3 DEF Proposals
  <2>5. tx' = [tx EXCEPT ![i] = p]
    BY <1>2, <2>1 DEF SignTransaction, w, MultisigInv, MultisigTypeOK
  <2>6. p # Missing BY <2>4
  <2> HIDE DEF p
  <2>7. MultisigTypeOK' BY <1>2, <2>4, <2>5, ZenonT(60) DEF SignTransaction, MultisigInv, MultisigTypeOK
  <2>8. FreshIds'
    BY <1>2, <2>1, <2>5 DEF SignTransaction, MultisigInv, MultisigTypeOK, FreshIds
  <2>9. CalledOnce'
    <3>1. ASSUME NEW j \in Ids
          PROVE  /\ calls'[j] <= 1
                 /\ calls'[j] = 1 <=> (tx'[j] # Missing /\ tx'[j].executed)
      <4>1. CASE j = i
        BY <1>2, <2>1, <2>4, <2>5, <2>6, <4>1
        DEF SignTransaction, MultisigInv, MultisigTypeOK, CalledOnce
      <4>2. CASE j # i
        BY <1>2, <2>5, <4>2 DEF SignTransaction, MultisigInv, MultisigTypeOK, CalledOnce
      <4>3. QED BY <4>1, <4>2
    <3>2. QED BY <3>1 DEF CalledOnce
  <2>10. QED BY <2>7, <2>8, <2>9 DEF MultisigInv
<1>3. ASSUME NEW i \in Ids, ExecuteTransaction(i) PROVE MultisigInv'
  BY <1>3, ExecuteKeeps DEF ExecuteTransaction
<1>4. ASSUME NEW i \in Ids, CleanupExpired(i) PROVE MultisigInv'
  <2>1. MultisigTypeOK' /\ FreshIds'
    BY <1>4 DEF CleanupExpired, MultisigInv, MultisigTypeOK, FreshIds
  <2>2. CalledOnce'
    BY <1>4 DEF CleanupExpired, MultisigInv, MultisigTypeOK, CalledOnce
  <2>3. QED BY <2>1, <2>2 DEF MultisigInv
<1>5. ASSUME NEW ids \in Batches, ExecuteBatch(ids) PROVE MultisigInv'
  <2> DEFINE S == {i \in Range(ids) : Executable(i)}
  <2>1. S \subseteq Ids BY DEF Range
  <2>2. QED BY <1>5, <2>1, ExecuteKeeps DEF ExecuteBatch
<1>6. QED BY <1>1, <1>2, <1>3, <1>4, <1>5 DEF ProposalStep

\* No step of the wallet breaks the invariant.
LEMMA MultisigStep == ASSUME MultisigInv, [MultisigNext]_multisigVars PROVE MultisigInv'
<1>1. CASE SignerStep BY <1>1, SignerStepKeeps
<1>2. CASE ProposalStep BY <1>2, ProposalStepKeeps
<1>3. CASE MultisigTick
  BY <1>3 DEF MultisigTick, LedgerCloses, MultisigInv, MultisigTypeOK, FreshIds, CalledOnce
<1>4. CASE UNCHANGED multisigVars
  BY <1>4 DEF multisigVars, MultisigInv, MultisigTypeOK, FreshIds, CalledOnce
<1>5. QED BY <1>1, <1>2, <1>3, <1>4 DEF MultisigNext

\* The invariant holds of every reachable state.
LEMMA MultisigInvariant == MultisigSpec => []MultisigInv
<1>1. MultisigInit => MultisigInv
  BY MultisigAssumption
  DEF MultisigInit, MultisigInv, MultisigTypeOK, FreshIds, CalledOnce, Ids
<1>2. MultisigInv /\ [MultisigNext]_multisigVars => MultisigInv' BY MultisigStep
<1>3. QED BY <1>1, <1>2, PTL DEF MultisigSpec

\* Every key of the wallet keeps its type: accumulated weights stay within u32.
THEOREM MultisigTypeCorrect == MultisigSpec => []MultisigTypeOK
<1>1. MultisigInv => MultisigTypeOK BY DEF MultisigInv
<1>2. QED BY <1>1, MultisigInvariant, PTL

\* execute_transaction and execute_batch, in any order and with ids repeated in
\* any way, make the call of a proposal at most once.
THEOREM CallsHappenOnce == MultisigSpec => []CalledOnce
<1>1. MultisigInv => CalledOnce BY DEF MultisigInv
<1>2. QED BY <1>1, MultisigInvariant, PTL

\* add_signer and remove_signer never leave the signers unable to reach the threshold.
THEOREM NeverLockedOut == MultisigSpec => []ThresholdReachable
<1>1. MultisigInit => ThresholdReachable BY DEF MultisigInit, ThresholdReachable
<1>2. MultisigInv /\ ThresholdReachable /\ [MultisigNext]_multisigVars => ThresholdReachable'
  <2> SUFFICES ASSUME MultisigInv, ThresholdReachable, [MultisigNext]_multisigVars
               PROVE  ThresholdReachable'
      OBVIOUS
  <2>1. CASE SignerStep BY <2>1, SignerStepKeeps
  <2>2. CASE UNCHANGED <<signers, weights, threshold>> BY <2>2 DEF ThresholdReachable
  <2>3. ProposalStep => UNCHANGED <<signers, weights, threshold>>
    BY DEF ProposalStep, ProposeTransaction, SignTransaction, ExecuteTransaction,
           ExecuteBatch, Execute, CleanupExpired
  <2>4. QED BY <2>1, <2>2, <2>3 DEF MultisigNext, MultisigTick, multisigVars
<1>3. QED BY <1>1, <1>2, MultisigInvariant, PTL DEF MultisigSpec

----
(* The weight a proposal is executed on.                                   *)

\* A proposal carries the weights its signatures were counted with, once each.
WeightCounted == \A i \in Ids : tx[i] # Missing => tx[i].weight = SaturatedSum(tx[i].signatures, Addresses)

\* A signature not counted yet adds its weight to the sum, saturating or not.
LEMMA OneMoreSignature ==
  ASSUME NEW f \in [Addresses -> 0..U32Max], NEW a \in Addresses, f[a] = 0, NEW w \in 0..U32Max
  PROVE  SaturatedSum([f EXCEPT ![a] = w], Addresses) = Saturated(SaturatedSum(f, Addresses) + w)
<1> DEFINE g == [f EXCEPT ![a] = w]
<1>1. IsFiniteSet(Addresses) /\ U32Max \in Nat BY MultisigAssumption
<1>2. (\A b \in Addresses : f[b] \in Nat) /\ (\A b \in Addresses : f[b] \in Int) BY <1>1
<1>3. g[a] = f[a] + w /\ (\A b \in Addresses : b # a => g[b] = f[b]) /\ w \in Int BY <1>1
<1> HIDE DEF g
<1>4. SumFunctionOnSet(g, Addresses) = SumFunctionOnSet(f, Addresses) + w BY <1>1, <1>2, <1>3, SumBump
<1>5. SumFunctionOnSet(f, Addresses) \in Nat BY <1>1, <1>2, SumNat
<1>6. QED BY <1>1, <1>4, <1>5 DEF SaturatedSum, Saturated, g

\* The signature of the proposer alone.
LEMMA FirstSignature ==
  ASSUME NEW a \in Addresses, NEW w \in 0..U32Max
  PROVE  SaturatedSum([b \in Addresses |-> IF b = a THEN w ELSE 0], Addresses) = w
<1> DEFINE z == [b \in Addresses |-> 0]
<1>1. U32Max \in Nat /\ IsFiniteSet(Addresses) BY MultisigAssumption
<1>2. z \in [Addresses -> 0..U32Max] /\ z[a] = 0 BY <1>1
<1>3. [z EXCEPT ![a] = w] = [b \in Addresses |-> IF b = a THEN w ELSE 0] OBVIOUS
<1>4. \A b \in Addresses : z[b] = 0 OBVIOUS
<1> HIDE DEF z
<1>5. SumFunctionOnSet(z, Addresses) = 0 BY <1>1, <1>4, SumOfZeros
<1>6. SaturatedSum([z EXCEPT ![a] = w], Addresses) = Saturated(SaturatedSum(z, Addresses) + w) BY <1>2, OneMoreSignature
<1>7. SaturatedSum(z, Addresses) = 0 /\ Saturated(0 + w) = w BY <1>1, <1>5 DEF SaturatedSum, Saturated
<1>8. QED BY <1>3, <1>6, <1>7

\* Signers come and go and thresholds change; what was counted stays counted.
LEMMA WeightCountedStep ==
  ASSUME MultisigInv, WeightCounted, [MultisigNext]_multisigVars
  PROVE  WeightCounted'
<1>0. tx \in [Ids -> Proposals \cup {Missing}] /\ weights \in [Addresses -> 0..U32Max]
  BY DEF MultisigInv, MultisigTypeOK
<1>1. ASSUME NEW i \in Ids, NEW p, tx' = [tx EXCEPT ![i] = p],
             p # Missing => p.weight = SaturatedSum(p.signatures, Addresses)
      PROVE  WeightCounted'
  <2>1. ASSUME NEW j \in Ids, tx'[j] # Missing PROVE tx'[j].weight = SaturatedSum(tx'[j].signatures, Addresses)
    <3>1. CASE j = i
      <4>1. tx'[j] = p BY <1>0, <1>1, <3>1
      <4>2. QED BY <1>1, <2>1, <4>1
    <3>2. CASE j # i
      <4>1. tx'[j] = tx[j] BY <1>0, <1>1, <3>2
      <4>2. QED BY <2>1, <4>1 DEF WeightCounted
    <3>3. QED BY <3>1, <3>2
  <2>2. QED BY <2>1 DEF WeightCounted
<1>2. ASSUME UNCHANGED tx PROVE WeightCounted' BY <1>2 DEF WeightCounted
<1>3. ASSUME NEW a \in Addresses, NEW life \in Lifetimes, ProposeTransaction(a, life) PROVE WeightCounted'
  <2> DEFINE w == WeightIn(weights, a)
             f == [b \in Addresses |-> IF b = a THEN w ELSE 0]
             p == [signatures |-> f, weight |-> w,
                   executed |-> FALSE, expiry |-> Saturated(now + life), created |-> now]
  <2>1. nextId \in Ids /\ tx' = [tx EXCEPT ![nextId] = p] BY <1>3 DEF ProposeTransaction
  <2>2. p.weight = w /\ p.signatures = f OBVIOUS
  <2>3. w \in 0..U32Max BY <1>0, WeightRange
  <2>4. SaturatedSum(f, Addresses) = w
    <3> HIDE DEF w
    <3>1. QED BY <2>3, FirstSignature
  <2> HIDE DEF p, f, w
  <2>5. QED BY <1>1, <2>1, <2>2, <2>4
<1>4. ASSUME NEW a \in Addresses, NEW i \in Ids, SignTransaction(a, i) PROVE WeightCounted'
  <2> DEFINE w == WeightIn(weights, a)
             f == tx[i].signatures
             p == [tx[i] EXCEPT !.signatures[a] = w, !.weight = Saturated(@ + w)]
  <2>1. tx[i] \in Proposals /\ tx[i] # Missing /\ f[a] = 0 BY <1>0, <1>4 DEF SignTransaction, Pending
  <2>2. w \in 0..U32Max BY <1>0, WeightRange
  <2>3. f \in [Addresses -> 0..U32Max] BY <2>1 DEF Proposals
  <2>4. tx' = [tx EXCEPT ![i] = p] BY <1>0, <1>4, <2>1 DEF SignTransaction
  <2>5. p.weight = Saturated(tx[i].weight + w) /\ p.signatures = [f EXCEPT ![a] = w] BY <2>1 DEF Proposals
  <2>6. tx[i].weight = SaturatedSum(f, Addresses) BY <2>1 DEF WeightCounted
  <2> HIDE DEF p, f, w
  <2>7. SaturatedSum([f EXCEPT ![a] = w], Addresses) = Saturated(SaturatedSum(f, Addresses) + w)
    BY <2>1, <2>2, <2>3, OneMoreSignature
  <2>8. QED BY <1>1, <2>4, <2>5, <2>6, <2>7
<1>5. ASSUME NEW S \in SUBSET Ids, \A i \in S : Executable(i), Execute(S) PROVE WeightCounted'
  <2>1. ASSUME NEW i \in Ids, tx'[i] # Missing PROVE tx'[i].weight = SaturatedSum(tx'[i].signatures, Addresses)
    <3>1. CASE i \in S
      <4>1. tx[i] \in Proposals /\ tx[i] # Missing BY <1>0, <1>5, <3>1 DEF Executable, Pending
      <4>2. tx'[i] = [tx[i] EXCEPT !.executed = TRUE] BY <1>5, <3>1 DEF Execute
      <4>3. tx'[i].weight = tx[i].weight /\ tx'[i].signatures = tx[i].signatures BY <4>1, <4>2 DEF Proposals
      <4>4. QED BY <4>1, <4>3 DEF WeightCounted
    <3>2. CASE i \notin S
      <4>1. tx'[i] = tx[i] BY <1>5, <3>2 DEF Execute
      <4>2. QED BY <2>1, <4>1 DEF WeightCounted
    <3>3. QED BY <3>1, <3>2
  <2>2. QED BY <2>1 DEF WeightCounted
<1>6. ASSUME NEW i \in Ids, ExecuteTransaction(i) PROVE WeightCounted' BY <1>5, <1>6 DEF ExecuteTransaction
<1>7. ASSUME NEW ids \in Batches, ExecuteBatch(ids) PROVE WeightCounted'
  <2>1. {i \in Range(ids) : Executable(i)} \subseteq Ids BY MultisigAssumption DEF Range
  <2>2. QED BY <1>5, <1>7, <2>1 DEF ExecuteBatch
<1>8. ASSUME NEW i \in Ids, CleanupExpired(i) PROVE WeightCounted'
  <2>1. tx' = [tx EXCEPT ![i] = Missing] BY <1>8 DEF CleanupExpired
  <2>2. QED BY <1>1, <2>1
<1>9. CASE SignerStep BY <1>2, <1>9 DEF SignerStep, InitializeWallet, AddSigner, RemoveSigner
<1>10. CASE ProposalStep BY <1>3, <1>4, <1>6, <1>7, <1>8, <1>10 DEF ProposalStep
<1>11. CASE MultisigTick BY <1>2, <1>11 DEF MultisigTick
<1>12. CASE UNCHANGED multisigVars BY <1>2, <1>12 DEF multisigVars
<1>13. QED BY <1>9, <1>10, <1>11, <1>12 DEF MultisigNext

\* A call is made only on a quorum of signatures, each counted once with the weight
\* it had, and not after the proposal's expiry, in single calls and in batches.
THEOREM CallsNeedQuorum == MultisigSpec => QuorumCalls
<1>1. MultisigInit => WeightCounted BY DEF MultisigInit, WeightCounted
<1>2. ASSUME WeightCounted, MultisigInv, [MultisigNext]_multisigVars
      PROVE  [\A i \in Ids : calls'[i] # calls[i] =>
                /\ SaturatedSum(tx[i].signatures, Addresses) >= threshold
                /\ now <= tx[i].expiry]_multisigVars
  <2> SUFFICES ASSUME MultisigNext, NEW i \in Ids, calls'[i] # calls[i]
               PROVE  SaturatedSum(tx[i].signatures, Addresses) >= threshold /\ now <= tx[i].expiry
    BY <1>2
  <2>1. ASSUME UNCHANGED calls PROVE FALSE BY <2>1
  <2>2. Executable(i)
    <3>1. ASSUME NEW S, \A j \in S : Executable(j), Execute(S) PROVE Executable(i) BY <3>1 DEF Execute
    <3>2. CASE SignerStep BY <2>1, <3>2 DEF SignerStep, InitializeWallet, AddSigner, RemoveSigner
    <3>3. CASE \E j \in Ids : ExecuteTransaction(j) BY <3>1, <3>3 DEF ExecuteTransaction
    <3>4. CASE \E ids \in Batches : ExecuteBatch(ids) BY <3>1, <3>4 DEF ExecuteBatch
    <3>5. CASE MultisigTick BY <2>1, <3>5 DEF MultisigTick
    <3>6. CASE ProposalStep
      BY <2>1, <3>3, <3>4, <3>6 DEF ProposalStep, ProposeTransaction, SignTransaction, CleanupExpired
    <3>7. QED BY <3>2, <3>5, <3>6 DEF MultisigNext
  <2>3. tx[i] # Missing /\ now <= tx[i].expiry /\ tx[i].weight >= threshold BY <2>2 DEF Executable, Pending
  <2>4. QED BY <1>2, <2>3 DEF WeightCounted
<1>3. QED BY <1>1, <1>2, WeightCountedStep, MultisigInvariant, PTL DEF MultisigSpec, QuorumCalls
====
