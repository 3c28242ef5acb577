---- MODULE GovernanceProofs ----
(***************************************************************************)
(* Proofs about the DAO and the ballot, for any holders, voters, weights,  *)
(* proposals, drafts, delegations, rankings and configurations.            *)
(***************************************************************************)
EXTENDS Dao, Ballot, FoldLemmas, SequenceTheorems

(* The DAO.                                                                *)

DaoStates == {"Active", "Queued", "Executed", "Cancelled"}
DaoRecords == [proposer : Holders, deadline : Nat, yes : Int, no : Int, state : DaoStates, bond : Int,
               supply : {Supply}, eta : Nat, type : {"linear", "quadratic"}, tier : Tiers,
               choices : SUBSET ChoiceNames]

DaoTyped ==
  /\ now \in Nat /\ daoConf \in DaoConfigs
  /\ proposals \in Seq(DaoRecords) /\ Len(proposals) <= MaxMotions
  /\ locks \in [ProposalIds -> [Holders -> Nat]]
  /\ tallies \in [ProposalIds -> [ChoiceNames -> Int]]
  /\ govBal \in [Holders -> Nat] /\ daoHeld \in Int
  /\ pooled \subseteq ProposalIds

\* What the DAO keeps for a proposal.  While votes may still be cast, tokens that
\* voted are in the DAO even if their lock was overwritten by a later one.
Cast(p) == proposals[p].yes + proposals[p].no
Voting(p) == p \in DOMAIN proposals /\ p \notin pooled /\ now <= proposals[p].deadline
Retained(p) == IF Voting(p) THEN AtLeast(Cast(p), LockedFor(p)) ELSE LockedFor(p)
BondHeld(p) ==
  IF p \in DOMAIN proposals /\ proposals[p].state \in {"Active", "Queued"} THEN AtLeast(proposals[p].bond, 0) ELSE 0
Promise(p) == Retained(p) + BondHeld(p)

DaoBacked == daoHeld >= SumFunctionOnSet([p \in ProposalIds |-> Promise(p)], ProposalIds)

\* Tokens leave the holders and the DAO, through slashing, and never appear.
NothingMinted == SumFunctionOnSet(govBal, Holders) + daoHeld <= Supply

\* The votes cast and the choices they were cast for.
VotesCovered ==
  \A p \in DOMAIN proposals \ pooled :
    Cast(p) <= Supply /\ SumFunctionOnSet(tallies[p], ChoiceNames) <= proposals[p].yes

DaoInv == DaoTyped /\ DaoBacked /\ NothingMinted /\ VotesCovered

\* A queued proposal was carried by votes that are closed, and its delay runs from
\* its deadline.
QueuedCarried ==
  \A p \in DOMAIN proposals : proposals[p].state = "Queued" =>
    Carried(p) /\ now > proposals[p].deadline /\ proposals[p].eta = proposals[p].deadline + daoConf.delay

\* The constants the proofs need.
LEMMA DaoFinite ==
  IsFiniteSet(Holders) /\ IsFiniteSet(ProposalIds) /\ IsFiniteSet(ChoiceNames) /\ MaxMotions \in Nat /\ Supply \in Nat
<1>1. IsFiniteSet(Holders) /\ MaxMotions \in Nat BY DaoAssumption
<1>2. IsFiniteSet(ProposalIds) BY <1>1, FS_Interval DEF ProposalIds
<1>3. IsFiniteSet(ChoiceNames)
  <2>1. ChoiceNames = {"left"} \cup {"right"} BY DEF ChoiceNames
  <2>2. QED BY <2>1, FS_Singleton, FS_Union
<1>4. \A h \in Holders : HolderFunds[h] \in Nat BY DaoAssumption
<1>5. Supply \in Nat BY <1>1, <1>4, SumNat DEF Supply
<1>6. QED BY <1>1, <1>2, <1>3, <1>5

\* What a well-typed DAO promises is well defined, and no less than its parts.
PromisesSound ==
  \A p \in ProposalIds :
    /\ LockedFor(p) \in Nat /\ BondHeld(p) \in Nat /\ Retained(p) \in Nat /\ Promise(p) \in Nat
    /\ Promise(p) = Retained(p) + BondHeld(p) /\ Retained(p) >= LockedFor(p)
    /\ Voting(p) => Cast(p) \in Int /\ Retained(p) >= Cast(p)

\* A proposal on record has an id and the fields of one.
LEMMA ProposalTyped ==
  ASSUME DaoTyped, NEW p \in DOMAIN proposals
  PROVE  p \in ProposalIds /\ proposals[p] \in DaoRecords
<1>1. proposals \in Seq(DaoRecords) /\ Len(proposals) <= MaxMotions /\ MaxMotions \in Nat BY DaoFinite DEF DaoTyped
<1>2. DOMAIN proposals = 1..Len(proposals) /\ Len(proposals) \in Nat BY <1>1
<1>3. proposals[p] \in DaoRecords BY <1>1, <1>2
<1>4. p \in ProposalIds BY <1>1, <1>2 DEF ProposalIds
<1>5. QED BY <1>3, <1>4

\* What a proposal promises is a natural number, and so is the sum.
LEMMA PromisesAreSound == DaoTyped => PromisesSound
<1> SUFFICES ASSUME DaoTyped, NEW p \in ProposalIds
             PROVE  /\ LockedFor(p) \in Nat /\ BondHeld(p) \in Nat /\ Retained(p) \in Nat /\ Promise(p) \in Nat
                    /\ Promise(p) = Retained(p) + BondHeld(p) /\ Retained(p) >= LockedFor(p)
                    /\ Voting(p) => Cast(p) \in Int /\ Retained(p) >= Cast(p)
  BY DEF PromisesSound
<1>1. LockedFor(p) \in Nat
  <2>1. \A h \in Holders : locks[p][h] \in Nat BY DEF DaoTyped
  <2>2. QED BY <2>1, DaoFinite, SumNat DEF LockedFor
<1>2. BondHeld(p) \in Nat
  <2>1. CASE p \in DOMAIN proposals
    <3>1. proposals[p].bond \in Int BY <2>1, ProposalTyped DEF DaoRecords
    <3>2. QED BY <3>1 DEF BondHeld, AtLeast
  <2>2. QED BY <2>1 DEF BondHeld
<1>3. Voting(p) => Cast(p) \in Int BY ProposalTyped DEF Voting, Cast, DaoRecords
<1>4. Retained(p) \in Nat /\ Retained(p) >= LockedFor(p) /\ (Voting(p) => Retained(p) >= Cast(p))
  BY <1>1, <1>3 DEF Retained, AtLeast
<1>5. QED BY <1>1, <1>2, <1>3, <1>4 DEF Promise

\* The same after a step.
LEMMA PromisesStaySound == DaoTyped' => PromisesSound'
BY PromisesAreSound, PTL

\* One promise grows by at most d and no other grows.
LEMMA PromiseGrows ==
  ASSUME NEW f, NEW g, \A q \in ProposalIds : f[q] \in Int /\ g[q] \in Int,
         NEW p \in ProposalIds, NEW d \in Int, g[p] <= f[p] + d, \A q \in ProposalIds : q # p => g[q] <= f[q]
  PROVE  SumFunctionOnSet(g, ProposalIds) <= SumFunctionOnSet(f, ProposalIds) + d
<1> DEFINE k == [q \in ProposalIds |-> IF q = p THEN f[q] + d ELSE f[q]]
<1>1. IsFiniteSet(ProposalIds) BY DaoFinite
<1>2. (\A q \in ProposalIds : f[q] \in Int) /\ k[p] = f[p] + d /\ (\A q \in ProposalIds : q # p => k[q] = f[q]) OBVIOUS
<1>3. \A q \in ProposalIds : g[q] \in Int /\ k[q] \in Int /\ g[q] <= k[q] OBVIOUS
<1> HIDE DEF k
<1>4. SumFunctionOnSet(k, ProposalIds) = SumFunctionOnSet(f, ProposalIds) + d BY <1>1, <1>2, SumBump
<1>5. SumFunctionOnSet(g, ProposalIds) <= SumFunctionOnSet(k, ProposalIds) BY <1>1, <1>3, SumGrows
<1>6. QED BY <1>4, <1>5

\* A proposal that a step leaves alone.
Untouched(q) ==
  /\ q \in DOMAIN proposals' <=> q \in DOMAIN proposals
  /\ q \in DOMAIN proposals => proposals'[q] = proposals[q]
  /\ locks'[q] = locks[q]
  /\ q \in pooled' <=> q \in pooled

\* A step that is not about q leaves its promise alone.
LEMMA UntouchedPromise ==
  ASSUME NEW q, Untouched(q), now' = now
  PROVE  Promise(q)' = Promise(q) /\ (Voting(q)' <=> Voting(q))
<1>1. Voting(q)' <=> Voting(q) BY DEF Voting, Untouched
<1>2. LockedFor(q)' = LockedFor(q) BY DEF LockedFor, Untouched
<1>3. Voting(q) => Cast(q)' = Cast(q) BY DEF Cast, Voting, Untouched
<1>4. Retained(q)' = Retained(q) BY <1>1, <1>2, <1>3 DEF Retained
<1>5. BondHeld(q)' = BondHeld(q) BY DEF BondHeld, Untouched
<1>6. QED BY <1>1, <1>4, <1>5 DEF Promise

\* A step about one proposal that adds to the DAO at least what it promises.
LEMMA OnePromise ==
  ASSUME DaoTyped, DaoTyped', DaoBacked, NEW p \in ProposalIds, now' = now,
         \A q \in ProposalIds : q # p => Untouched(q),
         NEW d \in Int, daoHeld' = daoHeld + d, Promise(p)' <= Promise(p) + d
  PROVE  DaoBacked'
<1> DEFINE f == [q \in ProposalIds |-> Promise(q)]
           g == [q \in ProposalIds |-> Promise(q)']
<1>1. \A q \in ProposalIds : Promise(q) \in Int /\ Promise(q)' \in Int
  <2>1. PromisesSound /\ PromisesSound' BY PromisesAreSound, PromisesStaySound
  <2>2. ASSUME NEW q \in ProposalIds PROVE Promise(q) \in Nat /\ Promise(q)' \in Nat BY <2>1 DEF PromisesSound
  <2>3. QED BY <2>2
<1>2. ASSUME NEW q \in ProposalIds, q # p PROVE Promise(q)' <= Promise(q)
  <2>1. Promise(q)' = Promise(q) BY <1>2, UntouchedPromise
  <2>2. QED BY <1>1, <2>1
<1>3. /\ \A q \in ProposalIds : f[q] \in Int /\ g[q] \in Int
      /\ g[p] <= f[p] + d /\ \A q \in ProposalIds : q # p => g[q] <= f[q]
  BY <1>1, <1>2
<1>4. daoHeld \in Int /\ daoHeld >= SumFunctionOnSet(f, ProposalIds) BY DEF DaoBacked, DaoTyped
<1>5. DaoBacked' <=> daoHeld' >= SumFunctionOnSet(g, ProposalIds) BY DEF DaoBacked
<1>a. (\A q \in ProposalIds : f[q] \in Int) /\ (\A q \in ProposalIds : g[q] \in Int) BY <1>1
<1> HIDE DEF f, g
<1>6. SumFunctionOnSet(f, ProposalIds) \in Int /\ SumFunctionOnSet(g, ProposalIds) \in Int BY <1>a, DaoFinite, SumBasics
<1>7. SumFunctionOnSet(g, ProposalIds) <= SumFunctionOnSet(f, ProposalIds) + d BY <1>3, PromiseGrows
<1>8. QED BY <1>4, <1>5, <1>6, <1>7

\* Holders' tokens: a change of one balance changes the sum by as much.
LEMMA HolderBump ==
  ASSUME NEW f \in [Holders -> Int], NEW g, NEW h \in Holders, NEW d \in Int,
         g[h] = f[h] + d, \A b \in Holders : b # h => g[b] = f[b]
  PROVE  SumFunctionOnSet(f, Holders) \in Int /\ SumFunctionOnSet(g, Holders) = SumFunctionOnSet(f, Holders) + d
<1>1. IsFiniteSet(Holders) /\ \A b \in Holders : f[b] \in Int BY DaoFinite
<1>2. QED BY <1>1, SumBump, SumBasics

\* What is promised for a proposal that is voted on is not more than there is.
VotesFit == \A p \in ProposalIds : Voting(p) => Cast(p) <= Supply

\* Tokens that back votes are part of the supply.
LEMMA VotesWithinSupply == DaoTyped /\ DaoBacked /\ NothingMinted => VotesFit
<1> SUFFICES ASSUME DaoTyped, DaoBacked, NothingMinted, NEW p \in ProposalIds, Voting(p) PROVE Cast(p) <= Supply
  BY DEF VotesFit
<1> DEFINE f == [q \in ProposalIds |-> Promise(q)]
<1>1. PromisesSound BY PromisesAreSound
<1>2. Cast(p) \in Int /\ Promise(p) \in Nat /\ Promise(p) >= Cast(p) BY <1>1 DEF PromisesSound
<1>3. (\A q \in ProposalIds : f[q] \in Nat) /\ f[p] = Promise(p) BY <1>1 DEF PromisesSound
<1>4. daoHeld \in Int /\ daoHeld >= SumFunctionOnSet(f, ProposalIds) BY DEF DaoBacked, DaoTyped
<1> HIDE DEF f
<1>5. SumFunctionOnSet(f, ProposalIds) \in Nat /\ f[p] <= SumFunctionOnSet(f, ProposalIds) BY <1>3, DaoFinite, SumNat
<1>6. SumFunctionOnSet(govBal, Holders) \in Nat
  <2>1. \A h \in Holders : govBal[h] \in Nat BY DEF DaoTyped
  <2>2. QED BY <2>1, DaoFinite, SumNat
<1>7. SumFunctionOnSet(govBal, Holders) + daoHeld <= Supply /\ Supply \in Nat BY DaoFinite DEF NothingMinted
<1>8. QED BY <1>2, <1>3, <1>4, <1>5, <1>6, <1>7

\* The same after a step.
LEMMA VotesStayWithinSupply == DaoTyped' /\ DaoBacked' /\ NothingMinted' => VotesFit'
BY VotesWithinSupply, PTL

\* Replacing the record of one proposal.
LEMMA RecordChange ==
  ASSUME DaoTyped, NEW p \in DOMAIN proposals, NEW r \in DaoRecords, proposals' = [proposals EXCEPT ![p] = r]
  PROVE  /\ proposals' \in Seq(DaoRecords) /\ Len(proposals') = Len(proposals) /\ DOMAIN proposals' = DOMAIN proposals
         /\ proposals'[p] = r /\ \A q : q # p /\ q \in DOMAIN proposals => proposals'[q] = proposals[q]
<1>1. proposals \in Seq(DaoRecords) BY DEF DaoTyped
<1>2. QED BY <1>1, ExceptSeq

\* A proposal the step does not name keeps its covered votes.
LEMMA CoveredElsewhere ==
  ASSUME DaoInv, DaoTyped', DaoBacked', NothingMinted', now' = now, NEW p \in ProposalIds,
         \A q \in ProposalIds : q # p => Untouched(q) /\ tallies'[q] = tallies[q],
         p \in DOMAIN proposals' \ pooled' =>
             /\ Voting(p)' \/ Cast(p)' <= Supply
             /\ SumFunctionOnSet(tallies'[p], ChoiceNames) <= proposals'[p].yes
  PROVE  VotesCovered'
<1>1. ASSUME NEW q \in ProposalIds, q \in DOMAIN proposals', q \notin pooled'
      PROVE  Cast(q)' <= Supply /\ SumFunctionOnSet(tallies'[q], ChoiceNames) <= proposals'[q].yes
  <2>1. CASE q = p
    <3>1. VotesFit' BY VotesStayWithinSupply
    <3>2. Voting(p)' => Cast(p)' <= Supply BY <3>1 DEF VotesFit
    <3>3. QED BY <1>1, <2>1, <3>2
  <2>2. CASE q # p
    <3>1. Untouched(q) /\ tallies'[q] = tallies[q] BY <2>2
    <3>2. Cast(q)' = Cast(q) /\ proposals'[q] = proposals[q] BY <1>1, <3>1 DEF Cast, Untouched
    <3>3. Cast(q) <= Supply /\ SumFunctionOnSet(tallies[q], ChoiceNames) <= proposals[q].yes
      BY <1>1, <3>1 DEF DaoInv, VotesCovered, Untouched
    <3>4. QED BY <3>1, <3>2, <3>3
  <2>3. QED BY <2>1, <2>2
<1>2. ASSUME NEW q \in DOMAIN proposals' PROVE q \in ProposalIds
  <2>1. proposals' \in Seq(DaoRecords) /\ Len(proposals') <= MaxMotions /\ MaxMotions \in Nat BY DaoFinite DEF DaoTyped
  <2>2. DOMAIN proposals' = 1..Len(proposals') /\ Len(proposals') \in Nat BY <2>1
  <2>3. QED BY <2>1, <2>2 DEF ProposalIds
<1>3. QED BY <1>1, <1>2 DEF VotesCovered

\* h locks its balance for p and, if p's record changes, weighs in with at most that.
LEMMA LockStep ==
  ASSUME DaoInv, NEW h \in Holders, NEW p \in DOMAIN proposals, LockBalance(h, p), UNCHANGED <<now, daoConf>>,
         NEW r \in DaoRecords, proposals' = [proposals EXCEPT ![p] = r],
         r.deadline = proposals[p].deadline, r.state = proposals[p].state, r.bond = proposals[p].bond,
         now <= proposals[p].deadline,
         pooled \subseteq pooled', pooled' \subseteq pooled \cup {p},
         p \notin pooled' => r.yes + r.no <= Cast(p) + govBal[h],
         tallies' \in [ProposalIds -> [ChoiceNames -> Int]], \A q \in ProposalIds : q # p => tallies'[q] = tallies[q],
         p \notin pooled' => SumFunctionOnSet(tallies'[p], ChoiceNames) <= r.yes
  PROVE  DaoInv'
<1> DEFINE x == govBal[h]
<1>0. DaoTyped /\ DaoBacked /\ NothingMinted BY DEF DaoInv
<1>1. p \in ProposalIds /\ proposals[p] \in DaoRecords BY <1>0, ProposalTyped
<1>2. /\ govBal \in [Holders -> Nat] /\ daoHeld \in Int /\ locks \in [ProposalIds -> [Holders -> Nat]]
      /\ pooled \subseteq ProposalIds /\ Len(proposals) <= MaxMotions
  BY <1>0 DEF DaoTyped
<1>3. x \in Nat BY <1>2
<1>4. /\ govBal' = [govBal EXCEPT ![h] = 0] /\ daoHeld' = daoHeld + x /\ locks' = [locks EXCEPT ![p][h] = x]
  BY DEF LockBalance
<1>5. /\ proposals' \in Seq(DaoRecords) /\ Len(proposals') = Len(proposals) /\ DOMAIN proposals' = DOMAIN proposals
      /\ proposals'[p] = r /\ \A q : q # p /\ q \in DOMAIN proposals => proposals'[q] = proposals[q]
  BY <1>0, RecordChange
<1>6. govBal' \in [Holders -> Nat] /\ daoHeld' \in Int /\ locks' \in [ProposalIds -> [Holders -> Nat]]
  BY <1>1, <1>2, <1>3, <1>4
<1>7. DaoTyped' BY <1>0, <1>1, <1>2, <1>5, <1>6 DEF DaoTyped
<1> DEFINE old == locks[p][h]
           new == locks'[p]
           d == x - old
<1>8. old \in Nat /\ d \in Int /\ d <= x BY <1>1, <1>2, <1>3
<1>9. locks[p] \in [Holders -> Int] /\ new[h] = locks[p][h] + d /\ \A b \in Holders : b # h => new[b] = locks[p][b]
  BY <1>1, <1>2, <1>3, <1>4, <1>8
<1>10. \A q \in ProposalIds : q # p => locks'[q] = locks[q] BY <1>2, <1>4
<1>11. LockedFor(p)' = LockedFor(p) + d /\ LockedFor(p) \in Int
  <2> HIDE DEF new, d
  <2>1. SumFunctionOnSet(new, Holders) = SumFunctionOnSet(locks[p], Holders) + d /\ SumFunctionOnSet(locks[p], Holders) \in Int
    BY <1>8, <1>9, HolderBump
  <2>2. QED BY <2>1 DEF LockedFor, new
<1> HIDE DEF old, new, d
<1>12. \A q \in ProposalIds : q # p => Untouched(q)
  <2>1. ASSUME NEW q \in ProposalIds, q # p PROVE Untouched(q)
    <3>1. QED BY <1>5, <1>10, <2>1 DEF Untouched
  <2>2. QED BY <2>1
<1>13. Promise(p)' <= Promise(p) + x
  <2>1. PromisesSound /\ PromisesSound' BY <1>0, <1>7, PromisesAreSound, PromisesStaySound
  <2>2. /\ Promise(p) \in Nat /\ Promise(p) = Retained(p) + BondHeld(p) /\ Retained(p) >= LockedFor(p)
        /\ Retained(p) \in Nat /\ BondHeld(p) \in Nat /\ LockedFor(p) \in Nat
        /\ Voting(p) => Cast(p) \in Int /\ Retained(p) >= Cast(p)
        /\ Promise(p)' = Retained(p)' + BondHeld(p)' /\ Retained(p)' \in Nat /\ LockedFor(p)' \in Nat
    BY <1>1, <2>1 DEF PromisesSound
  <2>3. BondHeld(p)' = BondHeld(p) BY <1>5 DEF BondHeld
  <2>4. Cast(p)' = r.yes + r.no /\ r.yes + r.no \in Int BY <1>5 DEF Cast, DaoRecords
  <2>5. Retained(p)' <= Retained(p) + x
    <3>1. CASE p \in pooled'
      <4>1. Retained(p)' = LockedFor(p)' BY <3>1 DEF Retained, Voting
      <4>2. QED BY <1>3, <1>8, <1>11, <2>2, <4>1
    <3>2. CASE p \notin pooled'
      <4>1. Voting(p) BY <3>2 DEF Voting
      <4>2. Cast(p)' <= Retained(p) + x BY <1>3, <2>2, <2>4, <3>2, <4>1
      <4>3. LockedFor(p)' <= Retained(p) + x BY <1>3, <1>8, <1>11, <2>2
      <4>4. Retained(p)' = Cast(p)' \/ Retained(p)' = LockedFor(p)' BY DEF Retained, AtLeast
      <4>5. QED BY <4>2, <4>3, <4>4
    <3>3. QED BY <3>1, <3>2
  <2>6. QED BY <1>3, <2>2, <2>3, <2>5
<1>14. DaoBacked' BY <1>0, <1>1, <1>3, <1>4, <1>7, <1>12, <1>13, OnePromise
<1>15. NothingMinted'
  <2> DEFINE m == -x
             g == govBal'
  <2>1. m \in Int /\ govBal \in [Holders -> Int] BY <1>2, <1>3
  <2>2. g[h] = govBal[h] + m /\ \A b \in Holders : b # h => g[b] = govBal[b] BY <1>2, <1>4
  <2> HIDE DEF g
  <2>3. m + x = 0 BY <1>3
  <2> HIDE DEF m
  <2>4. SumFunctionOnSet(g, Holders) = SumFunctionOnSet(govBal, Holders) + m /\ SumFunctionOnSet(govBal, Holders) \in Int
    BY <2>1, <2>2, HolderBump
  <2>5. SumFunctionOnSet(govBal', Holders) = SumFunctionOnSet(govBal, Holders) + m BY <2>4 DEF g
  <2>6. daoHeld' = daoHeld + x BY <1>4
  <2>7. SumFunctionOnSet(govBal, Holders) + daoHeld <= Supply /\ Supply \in Nat BY <1>0, DaoFinite DEF NothingMinted
  <2>8. SumFunctionOnSet(govBal, Holders) \in Int BY <2>4
  <2> HIDE DEF x
  <2>9. SumFunctionOnSet(govBal', Holders) + daoHeld' <= Supply
    BY <1>2, <1>3, <2>1, <2>3, <2>5, <2>6, <2>7, <2>8
  <2>10. QED BY <2>9 DEF NothingMinted
<1>16. VotesCovered'
  <2>1. \A q \in ProposalIds : q # p => Untouched(q) /\ tallies'[q] = tallies[q] BY <1>12
  <2>2. p \in DOMAIN proposals' \ pooled' =>
             (Voting(p)' \/ Cast(p)' <= Supply) /\ SumFunctionOnSet(tallies'[p], ChoiceNames) <= proposals'[p].yes
    BY <1>5 DEF Voting
  <2>3. QED BY <1>1, <1>7, <1>14, <1>15, <2>1, <2>2, CoveredElsewhere
<1>17. QED BY <1>7, <1>14, <1>15, <1>16 DEF DaoInv

\* The square root the quadratic proposals weigh with exists.
LEMMA SquareRoot == \A n \in Nat : \E r \in 0..n : r * r <= n /\ n < (r + 1) * (r + 1)
<1> DEFINE D == {n \in Nat : \E r \in 0..n : r * r <= n /\ n < (r + 1) * (r + 1)}
<1>1. 0 \in D
  <2>1. 0 \in 0..0 /\ 0 * 0 <= 0 /\ 0 < (0 + 1) * (0 + 1) OBVIOUS
  <2>2. QED BY <2>1
<1>2. ASSUME NEW n \in Nat, n \in D PROVE n + 1 \in D
  <2>1. PICK r \in 0..n : r * r <= n /\ n < (r + 1) * (r + 1) BY <1>2
  <2> DEFINE s == r + 1
             sq == s * s
  <2>2. r \in Nat /\ r <= n /\ s \in Nat /\ s = r + 1 OBVIOUS
  <2> HIDE DEF s
  <2>3. sq \in Nat /\ r * r \in Nat BY <2>2
  <2>4. (s + 1) * (s + 1) = sq + s + s + 1
    <3>1. (s + 1) * (s + 1) = (s + 1) * s + (s + 1) BY <2>2, Distributes
    <3>2. (s + 1) * s = s * s + s BY <2>2, Distributes
    <3>3. QED BY <2>2, <2>3, <3>1, <3>2
  <2>5. r * r <= n /\ n < sq BY <2>1 DEF s
  <2>6. CASE n + 1 < sq
    <3>1. r \in 0..(n + 1) /\ r * r <= n + 1 BY <2>2, <2>3, <2>5
    <3>2. n + 1 < (r + 1) * (r + 1) BY <2>6 DEF s
    <3>3. QED BY <3>1, <3>2
  <2>7. CASE ~(n + 1 < sq)
    <3> HIDE DEF sq
    <3>1. sq <= n + 1 /\ n + 1 < sq + s + s + 1 BY <2>2, <2>3, <2>5, <2>7
    <3>2. s \in 0..(n + 1) BY <2>2
    <3>3. s * s <= n + 1 /\ n + 1 < (s + 1) * (s + 1) BY <2>4, <3>1 DEF sq
    <3>4. QED BY <3>2, <3>3
  <2>8. QED BY <2>6, <2>7
<1>3. \A n \in Nat : n \in D
  <2> HIDE DEF D
  <2>1. QED BY <1>1, <1>2, NumberInduction
<1>4. QED BY <1>3

\* No voting type makes more of an amount than it is.
LEMMA WeightBounds ==
  ASSUME DaoTyped, NEW p \in DOMAIN proposals, NEW x \in Nat
  PROVE  Weight(p, x) \in Nat /\ Weight(p, x) <= x
<1> DEFINE c == AtMost(x, proposals[p].supply)
<1>1. proposals[p].supply \in Nat /\ proposals[p].type \in {"linear", "quadratic"}
  BY ProposalTyped, DaoFinite DEF DaoRecords
<1>2. c \in Nat /\ c <= x BY <1>1 DEF AtMost
<1>3. Weight(p, x) = IF proposals[p].type = "linear" THEN c
                     ELSE CHOOSE r \in 0..c : r * r <= c /\ c < (r + 1) * (r + 1)
  BY DEF Weight
<1> HIDE DEF c
<1>4. \E r \in 0..c : r * r <= c /\ c < (r + 1) * (r + 1) BY <1>2, SquareRoot
<1> DEFINE root == CHOOSE r \in 0..c : r * r <= c /\ c < (r + 1) * (r + 1)
<1>5. root \in 0..c BY <1>4
<1>6. Weight(p, x) = c \/ Weight(p, x) = root BY <1>3
<1> HIDE DEF root
<1>7. QED BY <1>2, <1>5, <1>6

\* The record after a vote of weight w.
LEMMA VoteRecorded ==
  ASSUME DaoTyped, NEW h, NEW p \in DOMAIN proposals, NEW support \in BOOLEAN, NEW w \in Int, RecordVote(h, p, support, w)
  PROVE  \E r \in DaoRecords :
            /\ proposals' = [proposals EXCEPT ![p] = r]
            /\ r.deadline = proposals[p].deadline /\ r.state = proposals[p].state /\ r.bond = proposals[p].bond
            /\ r.eta = proposals[p].eta /\ r.supply = proposals[p].supply
            /\ r.yes + r.no = Cast(p) + w
            /\ r.yes = IF support THEN proposals[p].yes + w ELSE proposals[p].yes
<1> DEFINE o == proposals[p]
           r == IF support THEN [o EXCEPT !.yes = @ + w] ELSE [o EXCEPT !.no = @ + w]
<1>1. o \in DaoRecords BY ProposalTyped
<1>2. proposals' = [proposals EXCEPT ![p] = r] BY DEF RecordVote
<1> HIDE DEF o
<1>3. CASE support
  <2>1. r = [o EXCEPT !.yes = @ + w] BY <1>3
  <2>2. /\ r \in DaoRecords /\ r.deadline = o.deadline /\ r.state = o.state /\ r.bond = o.bond
        /\ r.yes = o.yes + w /\ r.no = o.no /\ o.yes \in Int /\ o.no \in Int
        /\ r.eta = o.eta /\ r.supply = o.supply
    BY <1>1, <2>1 DEF DaoRecords
  <2> HIDE DEF r
  <2>3. r.yes + r.no = (o.yes + o.no) + w BY <2>2
  <2>4. QED BY <1>2, <1>3, <2>2, <2>3 DEF o, Cast
<1>4. CASE ~support
  <2>1. r = [o EXCEPT !.no = @ + w] BY <1>4
  <2>2. /\ r \in DaoRecords /\ r.deadline = o.deadline /\ r.state = o.state /\ r.bond = o.bond
        /\ r.yes = o.yes /\ r.no = o.no + w /\ o.yes \in Int /\ o.no \in Int
        /\ r.eta = o.eta /\ r.supply = o.supply
    BY <1>1, <2>1 DEF DaoRecords
  <2> HIDE DEF r
  <2>3. r.yes + r.no = (o.yes + o.no) + w BY <2>2
  <2>4. QED BY <1>2, <1>4, <2>2, <2>3 DEF o, Cast
<1>5. QED BY <1>3, <1>4

\* What an open proposal looks like to the actions that lock for it.
LEMMA OpenFacts ==
  ASSUME DaoInv, NEW p, VotingOpen(p)
  PROVE  /\ DaoTyped /\ p \in DOMAIN proposals /\ p \in ProposalIds /\ now <= proposals[p].deadline
         /\ proposals[p] \in DaoRecords /\ proposals[p].yes \in Int /\ proposals[p].no \in Int
         /\ tallies \in [ProposalIds -> [ChoiceNames -> Int]] /\ tallies[p] \in [ChoiceNames -> Int]
         /\ p \notin pooled => SumFunctionOnSet(tallies[p], ChoiceNames) <= proposals[p].yes
         /\ SumFunctionOnSet(tallies[p], ChoiceNames) \in Int
<1>1. DaoTyped /\ VotesCovered BY DEF DaoInv
<1>2. p \in DOMAIN proposals /\ now <= proposals[p].deadline BY DEF VotingOpen
<1>3. p \in ProposalIds /\ proposals[p] \in DaoRecords BY <1>1, <1>2, ProposalTyped
<1>4. proposals[p].yes \in Int /\ proposals[p].no \in Int BY <1>3 DEF DaoRecords
<1>5. tallies \in [ProposalIds -> [ChoiceNames -> Int]] /\ tallies[p] \in [ChoiceNames -> Int] BY <1>1, <1>3 DEF DaoTyped
<1>6. p \notin pooled => SumFunctionOnSet(tallies[p], ChoiceNames) <= proposals[p].yes BY <1>1, <1>2 DEF VotesCovered
<1>7. SumFunctionOnSet(tallies[p], ChoiceNames) \in Int
  <2>1. \A c \in ChoiceNames : tallies[p][c] \in Int BY <1>5
  <2>2. QED BY <2>1, DaoFinite, SumBasics
<1>8. QED BY <1>1, <1>2, <1>3, <1>4, <1>5, <1>6, <1>7

\* lock_for_vote moves tokens into the DAO with their lock.
LEMMA LockForVoteStep ==
  ASSUME DaoInv, NEW h \in Holders, NEW p \in ProposalIds, LockForVote(h, p)
  PROVE  DaoInv'
<1> DEFINE r == proposals[p]
<1>1. VotingOpen(p) /\ LockBalance(h, p) /\ UNCHANGED <<now, daoConf>> /\ proposals' = proposals
      /\ tallies' = tallies /\ pooled' = pooled
  BY DEF LockForVote
<1>2. /\ DaoTyped /\ p \in DOMAIN proposals /\ now <= proposals[p].deadline
      /\ proposals[p] \in DaoRecords /\ proposals[p].yes \in Int /\ proposals[p].no \in Int
      /\ tallies \in [ProposalIds -> [ChoiceNames -> Int]]
      /\ p \notin pooled => SumFunctionOnSet(tallies[p], ChoiceNames) <= proposals[p].yes
  BY <1>1, OpenFacts
<1>3. govBal[h] \in Nat /\ proposals \in Seq(DaoRecords) BY <1>2 DEF DaoTyped
<1>4. proposals' = [proposals EXCEPT ![p] = r] BY <1>1, <1>2, <1>3
<1>5. r.yes + r.no <= Cast(p) + govBal[h] BY <1>2, <1>3 DEF Cast
<1>6. p \notin pooled' => SumFunctionOnSet(tallies'[p], ChoiceNames) <= r.yes BY <1>1, <1>2
<1>7. tallies' \in [ProposalIds -> [ChoiceNames -> Int]] /\ \A q \in ProposalIds : q # p => tallies'[q] = tallies[q]
  BY <1>1, <1>2
<1>8. r \in DaoRecords /\ pooled \subseteq pooled' /\ pooled' \subseteq pooled \cup {p} BY <1>1, <1>2
<1>9. QED BY <1>1, <1>2, <1>4, <1>5, <1>6, <1>7, <1>8, LockStep

\* vote counts what it locks.
LEMMA DaoVoteStep ==
  ASSUME DaoInv, NEW h \in Holders, NEW p \in ProposalIds, NEW support \in BOOLEAN, DaoVote(h, p, support)
  PROVE  DaoInv'
<1> DEFINE w == Weight(p, govBal[h])
<1>1. VotingOpen(p) /\ LockBalance(h, p) /\ RecordVote(h, p, support, w) /\ tallies' = tallies /\ pooled' = pooled
  BY DEF DaoVote
<1>a. UNCHANGED <<now, daoConf>> BY <1>1 DEF RecordVote
<1>2. /\ DaoTyped /\ p \in DOMAIN proposals /\ now <= proposals[p].deadline
      /\ proposals[p] \in DaoRecords /\ proposals[p].yes \in Int /\ proposals[p].no \in Int
      /\ tallies \in [ProposalIds -> [ChoiceNames -> Int]]
      /\ p \notin pooled => SumFunctionOnSet(tallies[p], ChoiceNames) <= proposals[p].yes
      /\ SumFunctionOnSet(tallies[p], ChoiceNames) \in Int
  BY <1>1, OpenFacts
<1>3. govBal[h] \in Nat BY <1>2 DEF DaoTyped
<1>4. w \in Nat /\ w <= govBal[h] BY <1>2, <1>3, WeightBounds
<1> HIDE DEF w
<1>5. w \in Int BY <1>4
<1>6. PICK r \in DaoRecords :
            /\ proposals' = [proposals EXCEPT ![p] = r]
            /\ r.deadline = proposals[p].deadline /\ r.state = proposals[p].state /\ r.bond = proposals[p].bond
            /\ r.yes + r.no = Cast(p) + w
            /\ r.yes = IF support THEN proposals[p].yes + w ELSE proposals[p].yes
  BY <1>1, <1>2, <1>5, VoteRecorded
<1>7. Cast(p) \in Int BY <1>2 DEF Cast
<1>8. r.yes + r.no <= Cast(p) + govBal[h] BY <1>3, <1>4, <1>6, <1>7
<1>9. p \notin pooled' => SumFunctionOnSet(tallies'[p], ChoiceNames) <= r.yes BY <1>1, <1>2, <1>4, <1>6
<1>10. tallies' \in [ProposalIds -> [ChoiceNames -> Int]] /\ \A q \in ProposalIds : q # p => tallies'[q] = tallies[q]
  BY <1>1, <1>2
<1>11. pooled \subseteq pooled' /\ pooled' \subseteq pooled \cup {p} BY <1>1
<1>12. QED BY <1>1, <1>a, <1>2, <1>6, <1>8, <1>9, <1>10, <1>11, LockStep

\* vote_choice adds the same amount to the votes and to one tally.
LEMMA VoteChoiceStep ==
  ASSUME DaoInv, NEW h \in Holders, NEW p \in ProposalIds, NEW c \in ChoiceNames, NEW x \in ChoiceAmounts,
         VoteChoice(h, p, c, x)
  PROVE  DaoInv'
<1> DEFINE y == IF x > 0 /\ x <= govBal[h] THEN x ELSE govBal[h]
           w == Weight(p, y)
<1>1. VotingOpen(p) /\ LockBalance(h, p) /\ RecordVote(h, p, TRUE, w) /\ pooled' = pooled
      /\ tallies' = [tallies EXCEPT ![p][c] = @ + w]
  BY DEF VoteChoice
<1>a. UNCHANGED <<now, daoConf>> BY <1>1 DEF RecordVote
<1>2. /\ DaoTyped /\ p \in DOMAIN proposals /\ now <= proposals[p].deadline
      /\ proposals[p] \in DaoRecords /\ proposals[p].yes \in Int /\ proposals[p].no \in Int
      /\ tallies \in [ProposalIds -> [ChoiceNames -> Int]] /\ tallies[p] \in [ChoiceNames -> Int]
      /\ p \notin pooled => SumFunctionOnSet(tallies[p], ChoiceNames) <= proposals[p].yes
      /\ SumFunctionOnSet(tallies[p], ChoiceNames) \in Int
  BY <1>1, OpenFacts
<1>3. govBal[h] \in Nat BY <1>2 DEF DaoTyped
<1>b. x \in Int BY DaoAssumption
<1>c. y \in Nat /\ y <= govBal[h] BY <1>3, <1>b
<1> HIDE DEF y
<1>4. w \in Nat /\ w <= y BY <1>2, <1>c, WeightBounds
<1> HIDE DEF w
<1>5. w \in Int BY <1>4
<1>6. PICK r \in DaoRecords :
            /\ proposals' = [proposals EXCEPT ![p] = r]
            /\ r.deadline = proposals[p].deadline /\ r.state = proposals[p].state /\ r.bond = proposals[p].bond
            /\ r.yes + r.no = Cast(p) + w
            /\ r.yes = proposals[p].yes + w
  <2>1. PICK support \in BOOLEAN : support = TRUE /\ RecordVote(h, p, support, w)
    <3>1. RecordVote(h, p, TRUE, w) BY <1>1
    <3>2. QED BY <3>1, Zenon
  <2>2. PICK r \in DaoRecords :
            /\ proposals' = [proposals EXCEPT ![p] = r]
            /\ r.deadline = proposals[p].deadline /\ r.state = proposals[p].state /\ r.bond = proposals[p].bond
            /\ r.yes + r.no = Cast(p) + w
            /\ r.yes = IF support THEN proposals[p].yes + w ELSE proposals[p].yes
    <3>1. RecordVote(h, p, support, w) /\ DaoTyped /\ p \in DOMAIN proposals BY <1>2, <2>1
    <3>2. QED BY <1>5, <3>1, VoteRecorded
  <2>3. QED BY <2>1, <2>2
<1>7. Cast(p) \in Int BY <1>2 DEF Cast
<1>8. r.yes + r.no <= Cast(p) + govBal[h] BY <1>3, <1>c, <1>4, <1>6, <1>7
<1>9. tallies' \in [ProposalIds -> [ChoiceNames -> Int]] /\ \A q \in ProposalIds : q # p => tallies'[q] = tallies[q]
  BY <1>1, <1>2, <1>5
<1>10. p \notin pooled' => SumFunctionOnSet(tallies'[p], ChoiceNames) <= r.yes
  <2> DEFINE f == tallies[p]
             g == tallies'[p]
  <2>1. g[c] = f[c] + w /\ (\A z \in ChoiceNames : z # c => g[z] = f[z]) /\ \A z \in ChoiceNames : f[z] \in Int
    BY <1>1, <1>2, <1>5
  <2> HIDE DEF f, g
  <2>2. SumFunctionOnSet(g, ChoiceNames) = SumFunctionOnSet(f, ChoiceNames) + w BY <1>5, <2>1, DaoFinite, SumBump
  <2>3. QED BY <1>1, <1>2, <1>4, <1>6, <2>2 DEF f, g
<1>11. pooled \subseteq pooled' /\ pooled' \subseteq pooled \cup {p} BY <1>1
<1>d. LockBalance(h, p) BY <1>1
<1>12. QED BY <1>d, <1>a, <1>2, <1>6, <1>8, <1>9, <1>10, <1>11, LockStep

\* vote_with_delegators takes the proposal out of the count.
LEMMA PooledVoteStep ==
  ASSUME DaoInv, NEW h \in Holders, NEW p \in ProposalIds, NEW support \in BOOLEAN, NEW list \in DelegatorLists,
         VoteWithDelegators(h, p, support, list)
  PROVE  DaoInv'
<1> DEFINE f == [i \in DOMAIN list |-> locks'[p][list[i]]]
           weight == govBal[h] + SumFunctionOnSet(f, DOMAIN list)
           w == AtMost(weight, proposals[p].supply)
<1>1. VotingOpen(p) /\ LockBalance(h, p) /\ RecordVote(h, p, support, w) /\ tallies' = tallies
      /\ pooled' = pooled \cup {p}
  BY DEF VoteWithDelegators
<1>a. UNCHANGED <<now, daoConf>> BY <1>1 DEF RecordVote
<1>2. /\ DaoTyped /\ p \in DOMAIN proposals /\ now <= proposals[p].deadline
      /\ proposals[p] \in DaoRecords /\ tallies \in [ProposalIds -> [ChoiceNames -> Int]]
  BY <1>1, OpenFacts
<1>3. govBal[h] \in Nat /\ locks \in [ProposalIds -> [Holders -> Nat]] BY <1>2 DEF DaoTyped
<1>4. locks' \in [ProposalIds -> [Holders -> Nat]] BY <1>1, <1>3 DEF LockBalance
<1>5. list \in Seq(Holders) BY DaoAssumption
<1>6. \A i \in DOMAIN list : f[i] \in Int BY <1>4, <1>5
<1>7. IsFiniteSet(DOMAIN list)
  <2>1. DOMAIN list = 1..Len(list) /\ Len(list) \in Nat BY <1>5
  <2>2. QED BY <2>1, FS_Interval
<1>8. SumFunctionOnSet(f, DOMAIN list) \in Int
  <2> HIDE DEF f
  <2>1. QED BY <1>6, <1>7, SumBasics
<1>9. w \in Int
  <2>1. proposals[p].supply \in Nat BY <1>2, DaoFinite DEF DaoRecords
  <2> HIDE DEF f
  <2>2. QED BY <1>3, <1>8, <2>1 DEF AtMost
<1> HIDE DEF w
<1>10. PICK r \in DaoRecords :
            /\ proposals' = [proposals EXCEPT ![p] = r]
            /\ r.deadline = proposals[p].deadline /\ r.state = proposals[p].state /\ r.bond = proposals[p].bond
  BY <1>1, <1>2, <1>9, VoteRecorded
<1>11. tallies' \in [ProposalIds -> [ChoiceNames -> Int]] /\ \A q \in ProposalIds : q # p => tallies'[q] = tallies[q]
  BY <1>1, <1>2
<1>12. pooled \subseteq pooled' /\ pooled' \subseteq pooled \cup {p} /\ p \in pooled' BY <1>1
<1>13. QED BY <1>1, <1>a, <1>2, <1>10, <1>11, <1>12, LockStep

\* Sums of holdings are numbers.
LEMMA HoldingsAdd ==
  ASSUME NEW f \in [Holders -> Nat]
  PROVE  SumFunctionOnSet(f, Holders) \in Nat
<1>1. \A h \in Holders : f[h] \in Nat OBVIOUS
<1>2. QED BY <1>1, DaoFinite, SumNat

\* p's record changes except for its votes and its deadline, and what the DAO pays
\* out for it was held for its bond.
LEMMA SettleStep ==
  ASSUME DaoInv, NEW p \in DOMAIN proposals, NEW r \in DaoRecords, proposals' = [proposals EXCEPT ![p] = r],
         r.yes = proposals[p].yes, r.no = proposals[p].no, r.deadline = proposals[p].deadline,
         UNCHANGED <<now, daoConf, locks, tallies, pooled>>,
         NEW d \in Int, daoHeld' = daoHeld + d,
         (IF r.state \in {"Active", "Queued"} THEN AtLeast(r.bond, 0) ELSE 0) <= BondHeld(p) + d,
         govBal' \in [Holders -> Nat], SumFunctionOnSet(govBal', Holders) + d <= SumFunctionOnSet(govBal, Holders)
  PROVE  DaoInv'
<1>0. DaoTyped /\ DaoBacked /\ NothingMinted /\ VotesCovered BY DEF DaoInv
<1>1. p \in ProposalIds /\ proposals[p] \in DaoRecords BY <1>0, ProposalTyped
<1>2. /\ proposals' \in Seq(DaoRecords) /\ Len(proposals') = Len(proposals) /\ DOMAIN proposals' = DOMAIN proposals
      /\ proposals'[p] = r /\ \A q : q # p /\ q \in DOMAIN proposals => proposals'[q] = proposals[q]
  BY <1>0, RecordChange
<1>3. daoHeld' \in Int /\ daoHeld \in Int /\ govBal \in [Holders -> Nat] BY <1>0 DEF DaoTyped
<1>4. DaoTyped' BY <1>0, <1>2, <1>3 DEF DaoTyped
<1>5. ASSUME NEW q \in ProposalIds, q # p PROVE Untouched(q)
  BY <1>2, <1>5 DEF Untouched
<1>6. Retained(p)' = Retained(p)
  <2>1. Cast(p)' = Cast(p) BY <1>2 DEF Cast
  <2>2. Voting(p)' <=> Voting(p) BY <1>2 DEF Voting
  <2>3. LockedFor(p)' = LockedFor(p) BY DEF LockedFor
  <2>4. QED BY <2>1, <2>2, <2>3 DEF Retained
<1>7. BondHeld(p)' = IF r.state \in {"Active", "Queued"} THEN AtLeast(r.bond, 0) ELSE 0 BY <1>2 DEF BondHeld
<1>8. Promise(p)' <= Promise(p) + d
  <2>1. PromisesSound /\ PromisesSound' BY <1>0, <1>4, PromisesAreSound, PromisesStaySound
  <2>2. Retained(p) \in Nat /\ BondHeld(p) \in Nat /\ Promise(p) = Retained(p) + BondHeld(p) BY <1>1, <2>1 DEF PromisesSound
  <2>3. BondHeld(p)' \in Nat /\ Promise(p)' = Retained(p)' + BondHeld(p)' BY <1>1, <2>1 DEF PromisesSound
  <2>4. BondHeld(p)' <= BondHeld(p) + d BY <1>7
  <2>5. QED BY <1>6, <2>2, <2>3, <2>4
<1>9. DaoBacked' BY <1>0, <1>1, <1>4, <1>5, <1>8, OnePromise
<1>10. NothingMinted'
  <2>1. SumFunctionOnSet(govBal, Holders) \in Nat /\ SumFunctionOnSet(govBal', Holders) \in Nat BY <1>3, HoldingsAdd
  <2>2. SumFunctionOnSet(govBal, Holders) + daoHeld <= Supply /\ Supply \in Nat BY <1>0, DaoFinite DEF NothingMinted
  <2>3. SumFunctionOnSet(govBal', Holders) + daoHeld' <= Supply BY <1>3, <2>1, <2>2
  <2>4. QED BY <2>3 DEF NothingMinted
<1>11. VotesCovered'
  <2>1. \A q \in ProposalIds : q # p => Untouched(q) /\ tallies'[q] = tallies[q] BY <1>5
  <2>2. Cast(p)' = Cast(p) BY <1>2 DEF Cast
  <2>3. p \in DOMAIN proposals' \ pooled' =>
             (Voting(p)' \/ Cast(p)' <= Supply) /\ SumFunctionOnSet(tallies'[p], ChoiceNames) <= proposals'[p].yes
    BY <1>0, <1>2, <2>2 DEF VotesCovered
  <2>4. QED BY <1>1, <1>4, <1>9, <1>10, <2>1, <2>3, CoveredElsewhere
<1>12. QED BY <1>4, <1>9, <1>10, <1>11 DEF DaoInv

\* A new state for p, by the same argument.
LEMMA SetStateRecord ==
  ASSUME DaoTyped, NEW p \in DOMAIN proposals, NEW s \in DaoStates, SetState(p, s)
  PROVE  \E r \in DaoRecords :
            /\ proposals' = [proposals EXCEPT ![p] = r] /\ r.state = s /\ r.bond = proposals[p].bond
            /\ r.yes = proposals[p].yes /\ r.no = proposals[p].no /\ r.deadline = proposals[p].deadline
            /\ r.eta = proposals[p].eta /\ r.supply = proposals[p].supply
<1> DEFINE o == proposals[p]
           r == [o EXCEPT !.state = s]
<1>1. o \in DaoRecords BY ProposalTyped
<1>2. proposals' = [proposals EXCEPT ![p] = r] BY DEF SetState
<1> HIDE DEF o
<1>3. /\ r \in DaoRecords /\ r.deadline = o.deadline /\ r.state = s /\ r.bond = o.bond /\ r.yes = o.yes /\ r.no = o.no
      /\ r.eta = o.eta /\ r.supply = o.supply
  BY <1>1 DEF DaoRecords
<1> HIDE DEF r
<1>4. QED BY <1>2, <1>3 DEF o

\* What queue_proposal writes.
LEMMA QueueRecord ==
  ASSUME DaoTyped, NEW p \in DOMAIN proposals, QueueProposal(p)
  PROVE  \E r \in DaoRecords :
            /\ proposals' = [proposals EXCEPT ![p] = r] /\ r.state = "Queued" /\ r.bond = proposals[p].bond
            /\ r.yes = proposals[p].yes /\ r.no = proposals[p].no /\ r.deadline = proposals[p].deadline
            /\ r.eta = proposals[p].deadline + daoConf.delay /\ r.supply = proposals[p].supply
<1> DEFINE o == proposals[p]
           e == o.deadline + daoConf.delay
           r == [o EXCEPT !.state = "Queued", !.eta = e]
<1>1. o \in DaoRecords BY ProposalTyped
<1>2. proposals' = [proposals EXCEPT ![p] = r]
  <2>1. proposals' = [proposals EXCEPT ![p].state = "Queued", ![p].eta = proposals[p].deadline + daoConf.delay]
    BY DEF QueueProposal
  <2>2. proposals \in Seq(DaoRecords) BY DEF DaoTyped
  <2>3. QED BY <1>1, <2>1, <2>2
<1>a. daoConf \in DaoConfigs BY DEF DaoTyped
<1>b. daoConf.delay \in Nat BY <1>a, DaoAssumption
<1>3. e \in Nat BY <1>1, <1>b DEF DaoRecords
<1> HIDE DEF o, e
<1>4. /\ r \in DaoRecords /\ r.deadline = o.deadline /\ r.state = "Queued" /\ r.bond = o.bond
      /\ r.yes = o.yes /\ r.no = o.no /\ r.eta = e /\ r.supply = o.supply
  BY <1>1, <1>3 DEF DaoRecords, DaoStates
<1> HIDE DEF r
<1>5. QED BY <1>2, <1>4 DEF o, e

\* A step that settles nothing: the bond, if it was held, is held or given up.
LEMMA QuietStep ==
  ASSUME DaoInv, NEW p \in DOMAIN proposals, NEW r \in DaoRecords, proposals' = [proposals EXCEPT ![p] = r],
         r.yes = proposals[p].yes, r.no = proposals[p].no, r.deadline = proposals[p].deadline,
         r.bond = proposals[p].bond, proposals[p].state \in {"Active", "Queued"},
         UNCHANGED <<now, daoConf, locks, tallies, pooled, govBal, daoHeld>>
  PROVE  DaoInv'
<1>1. DaoTyped BY DEF DaoInv
<1>2. daoHeld \in Int /\ govBal \in [Holders -> Nat] BY <1>1 DEF DaoTyped
<1>3. r.bond \in Int BY DEF DaoRecords
<1>4. BondHeld(p) = AtLeast(r.bond, 0) BY DEF BondHeld
<1>5. AtLeast(r.bond, 0) \in Nat BY <1>3 DEF AtLeast
<1>6. (IF r.state \in {"Active", "Queued"} THEN AtLeast(r.bond, 0) ELSE 0) <= BondHeld(p) + 0 BY <1>4, <1>5
<1>7. SumFunctionOnSet(govBal, Holders) \in Nat BY <1>2, HoldingsAdd
<1>8. govBal' \in [Holders -> Nat] /\ daoHeld' = daoHeld + 0 /\ 0 \in Int
      /\ SumFunctionOnSet(govBal', Holders) + 0 <= SumFunctionOnSet(govBal, Holders)
  BY <1>2, <1>7
<1>9. UNCHANGED <<now, daoConf, locks, tallies, pooled>> OBVIOUS
<1>10. QED BY <1>6, <1>8, <1>9, SettleStep

\* Queueing keeps the bond and ends the voting.
LEMMA QueueStep ==
  ASSUME DaoInv, NEW p \in ProposalIds, QueueProposal(p)
  PROVE  DaoInv'
<1>1. DaoTyped /\ p \in DOMAIN proposals /\ proposals[p].state \in {"Active", "Queued"} BY DEF DaoInv, QueueProposal, IsActive
<1>2. PICK r \in DaoRecords :
            /\ proposals' = [proposals EXCEPT ![p] = r] /\ r.bond = proposals[p].bond
            /\ r.yes = proposals[p].yes /\ r.no = proposals[p].no /\ r.deadline = proposals[p].deadline
  BY <1>1, QueueRecord
<1>3. UNCHANGED <<now, daoConf, locks, tallies, pooled, govBal, daoHeld>> BY DEF QueueProposal
<1>4. QED BY <1>1, <1>2, <1>3, QuietStep

\* A veto and the proposer's cancellation leave locks to be claimed back.
LEMMA DropStep ==
  ASSUME DaoInv, NEW p \in ProposalIds, VetoProposal(p) \/ ProposerCancel(p)
  PROVE  DaoInv'
<1>1. DaoTyped /\ p \in DOMAIN proposals /\ proposals[p].state \in {"Active", "Queued"}
  BY DEF DaoInv, VetoProposal, ProposerCancel, IsActive
<1>2. SetState(p, "Cancelled") /\ "Cancelled" \in DaoStates BY DEF VetoProposal, ProposerCancel, DaoStates
<1>3. PICK r \in DaoRecords :
            /\ proposals' = [proposals EXCEPT ![p] = r] /\ r.bond = proposals[p].bond
            /\ r.yes = proposals[p].yes /\ r.no = proposals[p].no /\ r.deadline = proposals[p].deadline
  BY <1>1, <1>2, SetStateRecord
<1>4. UNCHANGED <<now, daoConf, locks, tallies, pooled, govBal, daoHeld>> BY DEF VetoProposal, ProposerCancel
<1>5. QED BY <1>1, <1>3, <1>4, QuietStep

\* The bond leaves the DAO.
LEMMA BondLeaves ==
  ASSUME DaoInv, NEW p \in DOMAIN proposals, proposals[p].state \in {"Active", "Queued"}, NEW s \in DaoStates,
         s \notin {"Active", "Queued"}, SetState(p, s), UNCHANGED <<now, daoConf, locks, tallies, pooled>>,
         daoHeld' = daoHeld - AtLeast(proposals[p].bond, 0),
         govBal' = govBal \/ govBal' = [govBal EXCEPT ![proposals[p].proposer] = @ + AtLeast(proposals[p].bond, 0)]
  PROVE  DaoInv'
<1> DEFINE b == AtLeast(proposals[p].bond, 0)
           d == -b
           g == govBal'
           a == proposals[p].proposer
<1>1. DaoTyped BY DEF DaoInv
<1>2. daoHeld \in Int /\ govBal \in [Holders -> Nat] BY <1>1 DEF DaoTyped
<1>3. PICK r \in DaoRecords :
            /\ proposals' = [proposals EXCEPT ![p] = r] /\ r.state = s
            /\ r.yes = proposals[p].yes /\ r.no = proposals[p].no /\ r.deadline = proposals[p].deadline
  BY <1>1, SetStateRecord
<1>4. proposals[p] \in DaoRecords BY <1>1, ProposalTyped
<1>5. proposals[p].bond \in Int /\ a \in Holders BY <1>4 DEF DaoRecords
<1>6. b \in Nat BY <1>5 DEF AtLeast
<1>7. BondHeld(p) = b BY DEF BondHeld
<1>8. g = govBal \/ g = [govBal EXCEPT ![a] = @ + b] OBVIOUS
<1>9. daoHeld' = daoHeld - b OBVIOUS
<1> HIDE DEF b, g, a
<1>10. d \in Int /\ daoHeld' = daoHeld + d /\ d + b = 0 BY <1>2, <1>6, <1>9
<1>11. (IF r.state \in {"Active", "Queued"} THEN AtLeast(r.bond, 0) ELSE 0) <= BondHeld(p) + d
  BY <1>3, <1>6, <1>7, <1>10
<1>12. g \in [Holders -> Nat] /\ SumFunctionOnSet(g, Holders) + d <= SumFunctionOnSet(govBal, Holders)
  <2>1. SumFunctionOnSet(govBal, Holders) \in Nat BY <1>2, HoldingsAdd
  <2>2. CASE g = govBal BY <1>2, <1>6, <1>10, <2>1, <2>2
  <2>3. CASE g = [govBal EXCEPT ![a] = @ + b]
    <3>1. g[a] = govBal[a] + b /\ (\A z \in Holders : z # a => g[z] = govBal[z]) /\ govBal \in [Holders -> Int] /\ b \in Int
      BY <1>2, <1>5, <1>6, <2>3
    <3>2. SumFunctionOnSet(g, Holders) = SumFunctionOnSet(govBal, Holders) + b BY <1>5, <3>1, HolderBump
    <3>3. g \in [Holders -> Nat] BY <1>2, <1>5, <1>6, <2>3
    <3>4. QED BY <1>6, <1>10, <2>1, <3>2, <3>3
  <2>4. QED BY <1>8, <2>2, <2>3
<1>13. govBal' \in [Holders -> Nat] /\ SumFunctionOnSet(govBal', Holders) + d <= SumFunctionOnSet(govBal, Holders)
  BY <1>12 DEF g
<1> HIDE DEF d
<1>14. QED BY <1>3, <1>10, <1>11, <1>13, SettleStep

\* Execution and the admin's cancellation pay a bond back or slash it.
LEMMA BondSteps ==
  ASSUME DaoInv, NEW p \in ProposalIds, ExecuteProposal(p) \/ EmergencyExecute(p) \/ AdminCancel(p)
  PROVE  DaoInv'
<1>1. p \in DOMAIN proposals /\ proposals[p].state \in {"Active", "Queued"}
  BY DEF ExecuteProposal, EmergencyExecute, AdminCancel, IsActive
<1>2. UNCHANGED <<now, daoConf, locks, tallies, pooled>> BY DEF ExecuteProposal, EmergencyExecute, AdminCancel
<1>3. daoHeld' = daoHeld - AtLeast(proposals[p].bond, 0)
      /\ (govBal' = govBal \/ govBal' = [govBal EXCEPT ![proposals[p].proposer] = @ + AtLeast(proposals[p].bond, 0)])
  BY DEF ExecuteProposal, EmergencyExecute, AdminCancel, RefundBond
<1>4. SetState(p, "Executed") \/ SetState(p, "Cancelled") BY DEF ExecuteProposal, EmergencyExecute, AdminCancel
<1>5. "Executed" \in DaoStates /\ "Cancelled" \in DaoStates BY DEF DaoStates
<1>6. "Executed" \notin {"Active", "Queued"} /\ "Cancelled" \notin {"Active", "Queued"} OBVIOUS
<1>7. CASE SetState(p, "Executed") BY <1>1, <1>2, <1>3, <1>5, <1>6, <1>7, BondLeaves
<1>8. CASE SetState(p, "Cancelled") BY <1>1, <1>2, <1>3, <1>5, <1>6, <1>8, BondLeaves
<1>9. QED BY <1>4, <1>7, <1>8

\* unlock_tokens pays a lock once the voting is over.
LEMMA UnlockStep ==
  ASSUME DaoInv, NEW h \in Holders, NEW p \in ProposalIds, UnlockTokens(h, p)
  PROVE  DaoInv'
<1> DEFINE x == locks[p][h]
           d == -x
           g == govBal'
           new == locks'[p]
<1>0. DaoTyped /\ DaoBacked /\ NothingMinted /\ VotesCovered BY DEF DaoInv
<1>1. /\ p \in DOMAIN proposals /\ now > proposals[p].deadline /\ daoHeld' = daoHeld - x
      /\ govBal' = [govBal EXCEPT ![h] = @ + x] /\ locks' = [locks EXCEPT ![p][h] = 0]
      /\ UNCHANGED <<now, daoConf, proposals, tallies, pooled>>
  BY DEF UnlockTokens
<1>2. /\ govBal \in [Holders -> Nat] /\ daoHeld \in Int /\ locks \in [ProposalIds -> [Holders -> Nat]]
  BY <1>0 DEF DaoTyped
<1>3. x \in Nat BY <1>2
<1>4. new[h] = 0 /\ (\A b \in Holders : b # h => new[b] = locks[p][b]) /\ locks[p] \in [Holders -> Int]
  BY <1>1, <1>2
<1>5. \A q \in ProposalIds : q # p => locks'[q] = locks[q] BY <1>1, <1>2
<1>6. g[h] = govBal[h] + x /\ (\A b \in Holders : b # h => g[b] = govBal[b]) /\ govBal \in [Holders -> Int]
  BY <1>1, <1>2
<1>7. govBal' \in [Holders -> Nat] /\ locks' \in [ProposalIds -> [Holders -> Nat]] BY <1>1, <1>2, <1>3
<1>8. d \in Int /\ x + d = 0 /\ daoHeld' = daoHeld + d BY <1>1, <1>2, <1>3
<1>9. new[h] = locks[p][h] + d BY <1>3, <1>4
<1> HIDE DEF g, new, x, d
<1>10. DaoTyped'
  <2>1. daoHeld' \in Int BY <1>2, <1>8
  <2>2. QED BY <1>0, <1>1, <1>7, <2>1 DEF DaoTyped
<1>11. LockedFor(p)' = LockedFor(p) + d /\ LockedFor(p) \in Int
  <2>1. SumFunctionOnSet(new, Holders) = SumFunctionOnSet(locks[p], Holders) + d /\ SumFunctionOnSet(locks[p], Holders) \in Int
    BY <1>4, <1>8, <1>9, HolderBump
  <2>2. QED BY <2>1 DEF LockedFor, new
<1>12. Promise(p)' = Promise(p) + d /\ Promise(p) \in Int
  <2>1. ~Voting(p) /\ ~Voting(p)'
    <3>1. now \in Nat /\ proposals[p].deadline \in Nat BY <1>0, <1>1, ProposalTyped DEF DaoTyped, DaoRecords
    <3>2. QED BY <1>1, <3>1 DEF Voting
  <2>2. Retained(p) = LockedFor(p) /\ Retained(p)' = LockedFor(p)' BY <2>1 DEF Retained
  <2>3. BondHeld(p)' = BondHeld(p) BY <1>1 DEF BondHeld
  <2>4. PromisesSound BY <1>0, PromisesAreSound
  <2>5. BondHeld(p) \in Nat BY <2>4 DEF PromisesSound
  <2>6. Promise(p) = LockedFor(p) + BondHeld(p) BY <2>2 DEF Promise
  <2>7. Promise(p)' = (LockedFor(p) + d) + BondHeld(p) BY <1>11, <2>2, <2>3 DEF Promise
  <2>8. QED BY <1>8, <1>11, <2>5, <2>6, <2>7
<1>13. \A q \in ProposalIds : q # p => Untouched(q) BY <1>1, <1>5 DEF Untouched
<1>14. DaoBacked'
  <2>1. Promise(p)' <= Promise(p) + d BY <1>8, <1>12
  <2>2. now' = now BY <1>1
  <2>3. QED BY <1>0, <1>8, <1>10, <1>13, <2>1, <2>2, OnePromise
<1>15. NothingMinted'
  <2>1. x \in Int BY <1>3
  <2>2. SumFunctionOnSet(g, Holders) = SumFunctionOnSet(govBal, Holders) + x /\ SumFunctionOnSet(govBal, Holders) \in Int
    BY <1>6, <2>1, HolderBump DEF x
  <2>3. SumFunctionOnSet(govBal', Holders) = SumFunctionOnSet(govBal, Holders) + x BY <2>2 DEF g
  <2>4. SumFunctionOnSet(govBal, Holders) + daoHeld <= Supply /\ Supply \in Nat BY <1>0, DaoFinite DEF NothingMinted
  <2>5. SumFunctionOnSet(govBal', Holders) + daoHeld' <= Supply BY <1>2, <1>8, <2>1, <2>2, <2>3, <2>4
  <2>6. QED BY <2>5 DEF NothingMinted
<1>16. VotesCovered' BY <1>0, <1>1 DEF VotesCovered, Cast
<1>17. QED BY <1>10, <1>14, <1>15, <1>16 DEF DaoInv

\* Nothing is tallied for a proposal that was not made.
FreshTallies == \A p \in ProposalIds : p \notin DOMAIN proposals => SumFunctionOnSet(tallies[p], ChoiceNames) = 0

\* A new proposal starts without votes and brings its bond.
LEMMA CreateStep ==
  ASSUME DaoInv, FreshTallies, NEW h \in Proposers, NEW d \in Drafts, Len(proposals) < MaxMotions, CreateProposal(h, d)
  PROVE  DaoInv'
<1> DEFINE b == AtLeast(daoConf.bond, 0)
           m == -b
           g == govBal'
           r == [proposer |-> h, deadline |-> now + daoConf.period, yes |-> 0, no |-> 0,
                 state |-> "Active", bond |-> daoConf.bond, supply |-> Supply, eta |-> 0,
                 type |-> d.type, tier |-> d.tier, choices |-> d.choices]
<1>0. DaoTyped /\ DaoBacked /\ NothingMinted /\ VotesCovered BY DEF DaoInv
<1>1. /\ govBal[h] >= b /\ govBal' = [govBal EXCEPT ![h] = @ - b] /\ daoHeld' = daoHeld + b
      /\ proposals' = Append(proposals, r)
      /\ UNCHANGED <<now, daoConf, locks, tallies, pooled>>
  BY DEF CreateProposal
<1>2. h \in Holders BY DaoAssumption
<1>3. /\ govBal \in [Holders -> Nat] /\ daoHeld \in Int /\ proposals \in Seq(DaoRecords) /\ now \in Nat
      /\ daoConf \in DaoConfigs /\ locks \in [ProposalIds -> [Holders -> Nat]]
  BY <1>0 DEF DaoTyped
<1>p. PICK p \in Nat : p = Len(proposals) + 1 BY <1>3
<1>4. daoConf.bond \in Int /\ daoConf.period \in Nat
  <2>1. daoConf \in [period : Nat, quorum : Int, quorumBps : Nat, delay : Nat, bond : Int, minBps : Nat, maxBps : Nat]
    BY <1>3, DaoAssumption
  <2>2. QED BY <2>1
<1>5. b \in Nat BY <1>4 DEF AtLeast
<1>6. r \in DaoRecords
  <2>1. d.type \in {"linear", "quadratic"} /\ d.tier \in Tiers /\ d.choices \subseteq ChoiceNames BY DaoAssumption
  <2>2. now + daoConf.period \in Nat BY <1>3, <1>4
  <2>3. "Active" \in DaoStates BY DEF DaoStates
  <2>4. QED BY <1>2, <1>4, <2>1, <2>2, <2>3 DEF DaoRecords
<1>a. r.state = "Active" /\ r.yes = 0 /\ r.no = 0 /\ r.bond = daoConf.bond OBVIOUS
<1> HIDE DEF r
<1>7. /\ proposals' \in Seq(DaoRecords) /\ Len(proposals') = Len(proposals) + 1 /\ Len(proposals) \in Nat
      /\ proposals'[p] = r /\ \A q \in 1..Len(proposals) : proposals'[q] = proposals[q]
  BY <1>1, <1>3, <1>6, <1>p, AppendProperties
<1>8. DOMAIN proposals = 1..Len(proposals) /\ DOMAIN proposals' = 1..(Len(proposals) + 1) BY <1>3, <1>7
<1>9. MaxMotions \in Nat /\ p \in ProposalIds /\ p \notin DOMAIN proposals /\ p \in DOMAIN proposals'
  BY <1>7, <1>8, <1>p, DaoFinite DEF ProposalIds
<1>b. govBal[h] - b \in Nat
  <2>1. govBal[h] \in Nat BY <1>2, <1>3
  <2> HIDE DEF b
  <2>2. QED BY <1>1, <1>5, <2>1
<1> HIDE DEF b
<1>10. govBal' \in [Holders -> Nat] BY <1>1, <1>2, <1>3, <1>b
<1>11. DaoTyped'
  <2>1. daoHeld' \in Int /\ Len(proposals') <= MaxMotions BY <1>1, <1>3, <1>5, <1>7, <1>9
  <2>2. QED BY <1>0, <1>1, <1>7, <1>10, <2>1 DEF DaoTyped
<1>12. ASSUME NEW q \in ProposalIds, q # p PROVE q \in DOMAIN proposals' <=> q \in DOMAIN proposals
  BY <1>7, <1>8, <1>12, <1>p DEF ProposalIds
<1>13. ASSUME NEW q \in ProposalIds, q # p PROVE Untouched(q) BY <1>1, <1>7, <1>8, <1>12, <1>13 DEF Untouched
<1>14. Promise(p)' <= Promise(p) + b
  <2>1. PromisesSound BY <1>0, PromisesAreSound
  <2>2. LockedFor(p) \in Nat BY <1>9, <2>1 DEF PromisesSound
  <2>3. Promise(p) = LockedFor(p) BY <1>9, <2>2 DEF Promise, Retained, BondHeld, Voting
  <2>4. LockedFor(p)' = LockedFor(p) BY <1>1 DEF LockedFor
  <2>5. Cast(p)' = 0 BY <1>7, <1>a DEF Cast
  <2>6. Retained(p)' = LockedFor(p) BY <2>2, <2>4, <2>5 DEF Retained, AtLeast
  <2>7. BondHeld(p)' = b BY <1>7, <1>9, <1>a DEF BondHeld, b
  <2>8. Promise(p)' = LockedFor(p) + b BY <2>6, <2>7 DEF Promise
  <2>9. QED BY <1>5, <2>2, <2>3, <2>8
<1>15. DaoBacked'
  <2>1. b \in Int /\ now' = now /\ daoHeld' = daoHeld + b BY <1>1, <1>5
  <2>2. QED BY <1>0, <1>9, <1>11, <1>13, <1>14, <2>1, OnePromise
<1>16. NothingMinted'
  <2>1. m \in Int /\ m + b = 0 BY <1>5
  <2>2. g[h] = govBal[h] + m /\ (\A z \in Holders : z # h => g[z] = govBal[z]) /\ govBal \in [Holders -> Int]
    BY <1>1, <1>2, <1>3, <1>5
  <2> HIDE DEF m, g
  <2>3. SumFunctionOnSet(g, Holders) = SumFunctionOnSet(govBal, Holders) + m /\ SumFunctionOnSet(govBal, Holders) \in Int
    BY <1>2, <2>1, <2>2, HolderBump
  <2>4. SumFunctionOnSet(govBal', Holders) = SumFunctionOnSet(govBal, Holders) + m BY <2>3 DEF g
  <2>5. SumFunctionOnSet(govBal, Holders) + daoHeld <= Supply /\ Supply \in Nat BY <1>0, DaoFinite DEF NothingMinted
  <2>6. daoHeld' = daoHeld + b BY <1>1
  <2>7. SumFunctionOnSet(govBal', Holders) + daoHeld' <= Supply BY <1>3, <1>5, <2>1, <2>3, <2>4, <2>5, <2>6
  <2>8. QED BY <2>7 DEF NothingMinted
<1>17. VotesCovered'
  <2>1. \A q \in ProposalIds : q # p => Untouched(q) /\ tallies'[q] = tallies[q] BY <1>1, <1>13
  <2>2. Cast(p)' <= Supply BY <1>7, <1>a, DaoFinite DEF Cast
  <2>3. SumFunctionOnSet(tallies'[p], ChoiceNames) <= proposals'[p].yes
    <3>1. SumFunctionOnSet(tallies[p], ChoiceNames) = 0 BY <1>9 DEF FreshTallies
    <3>2. QED BY <1>1, <1>7, <1>a, <3>1
  <2>4. now' = now BY <1>1
  <2>5. QED BY <1>9, <1>11, <1>15, <1>16, <2>1, <2>2, <2>3, <2>4, CoveredElsewhere
<1>18. QED BY <1>11, <1>15, <1>16, <1>17 DEF DaoInv

\* Holders hand tokens to each other, outside the DAO.
LEMMA HandOnStep ==
  ASSUME DaoInv, NEW a \in Holders, NEW b \in Holders, TransferGovernance(a, b)
  PROVE  DaoInv'
<1> DEFINE x == govBal[a]
           m == -x
           f == [govBal EXCEPT ![a] = 0]
           g == govBal'
<1>0. DaoTyped /\ DaoBacked /\ NothingMinted /\ VotesCovered BY DEF DaoInv
<1>1. /\ a # b /\ govBal' = [govBal EXCEPT ![a] = 0, ![b] = @ + x]
      /\ UNCHANGED <<now, daoConf, proposals, locks, tallies, pooled, daoHeld>>
  BY DEF TransferGovernance
<1>2. govBal \in [Holders -> Nat] /\ x \in Nat BY <1>0 DEF DaoTyped
<1>3. /\ f[a] = govBal[a] + m /\ (\A z \in Holders : z # a => f[z] = govBal[z])
      /\ f \in [Holders -> Int] /\ govBal \in [Holders -> Int] /\ m \in Int /\ m + x = 0
  BY <1>2
<1>4. g[b] = f[b] + x /\ (\A z \in Holders : z # b => g[z] = f[z]) /\ g \in [Holders -> Nat] /\ x \in Int
  BY <1>1, <1>2
<1> HIDE DEF f, g, m, x
<1>5. SumFunctionOnSet(f, Holders) = SumFunctionOnSet(govBal, Holders) + m /\ SumFunctionOnSet(govBal, Holders) \in Int
  BY <1>3, HolderBump
<1>6. SumFunctionOnSet(g, Holders) = SumFunctionOnSet(f, Holders) + x /\ SumFunctionOnSet(f, Holders) \in Int
  BY <1>3, <1>4, HolderBump
<1>7. SumFunctionOnSet(g, Holders) = SumFunctionOnSet(govBal, Holders) BY <1>3, <1>4, <1>5, <1>6
<1>8. SumFunctionOnSet(govBal', Holders) = SumFunctionOnSet(govBal, Holders) BY <1>7 DEF g
<1>9. NothingMinted' BY <1>0, <1>1, <1>8 DEF NothingMinted
<1>10. DaoTyped' BY <1>0, <1>1, <1>4 DEF DaoTyped, g
<1>11. DaoBacked'
  <2>1. \A p \in ProposalIds : Promise(p)' = Promise(p)
    BY <1>1 DEF Promise, Retained, BondHeld, Voting, Cast, LockedFor
  <2>2. [p \in ProposalIds |-> Promise(p)]' = [p \in ProposalIds |-> Promise(p)] BY <2>1
  <2>3. QED BY <1>0, <1>1, <2>2 DEF DaoBacked
<1>12. VotesCovered' BY <1>0, <1>1 DEF VotesCovered, Cast
<1>13. QED BY <1>9, <1>10, <1>11, <1>12 DEF DaoInv

\* As time passes nothing more is promised.
LEMMA DaoLedgerStep ==
  ASSUME DaoInv, LedgerCloses, UNCHANGED daoOnlyVars
  PROVE  DaoInv'
<1> DEFINE f == [p \in ProposalIds |-> Promise(p)]
           g == [p \in ProposalIds |-> Promise(p)']
<1>0. DaoTyped /\ DaoBacked /\ NothingMinted /\ VotesCovered BY DEF DaoInv
<1>1. now' = now + 1 /\ now \in Nat
      /\ UNCHANGED <<daoConf, proposals, locks, tallies, pooled, govBal, daoHeld>>
  BY <1>0 DEF LedgerCloses, daoOnlyVars, DaoTyped
<1>2. DaoTyped' BY <1>0, <1>1 DEF DaoTyped
<1>3. PromisesSound /\ PromisesSound' BY <1>0, <1>2, PromisesAreSound, PromisesStaySound
<1>4. ASSUME NEW p \in ProposalIds PROVE Promise(p) \in Int /\ Promise(p)' \in Int /\ Promise(p)' <= Promise(p)
  <2>1. /\ LockedFor(p) \in Nat /\ BondHeld(p) \in Nat /\ Retained(p) \in Nat /\ Retained(p) >= LockedFor(p)
        /\ Voting(p) => Cast(p) \in Int /\ Retained(p) >= Cast(p)
    BY <1>3 DEF PromisesSound
  <2>2. LockedFor(p)' = LockedFor(p) /\ BondHeld(p)' = BondHeld(p) /\ Cast(p)' = Cast(p)
    BY <1>1 DEF LockedFor, BondHeld, Cast
  <2>3. Voting(p)' => Voting(p)
    <3>1. ASSUME p \in DOMAIN proposals PROVE proposals[p].deadline \in Nat BY <1>0, <3>1, ProposalTyped DEF DaoRecords
    <3>2. QED BY <1>1, <3>1 DEF Voting
  <2>4. Retained(p)' = LockedFor(p) \/ (Voting(p) /\ Retained(p)' = Cast(p)) BY <2>2, <2>3 DEF Retained, AtLeast
  <2>5. Retained(p)' <= Retained(p) /\ Retained(p)' \in Int BY <2>1, <2>4
  <2>6. Promise(p) = Retained(p) + BondHeld(p) /\ Promise(p)' = Retained(p)' + BondHeld(p) BY <2>2 DEF Promise
  <2>7. QED BY <2>1, <2>5, <2>6
<1>5. \A p \in ProposalIds : g[p] \in Int /\ f[p] \in Int /\ g[p] <= f[p] BY <1>4
<1>6. (\A p \in ProposalIds : f[p] \in Int) /\ (\A p \in ProposalIds : g[p] \in Int) BY <1>5
<1>7. daoHeld \in Int /\ daoHeld >= SumFunctionOnSet(f, ProposalIds) BY <1>0 DEF DaoBacked, DaoTyped
<1>8. DaoBacked' <=> daoHeld' >= SumFunctionOnSet(g, ProposalIds) BY DEF DaoBacked
<1> HIDE DEF f, g
<1>9. SumFunctionOnSet(g, ProposalIds) <= SumFunctionOnSet(f, ProposalIds) BY <1>5, DaoFinite, SumGrows
<1>10. SumFunctionOnSet(g, ProposalIds) \in Int /\ SumFunctionOnSet(f, ProposalIds) \in Int BY <1>6, DaoFinite, SumBasics
<1>11. DaoBacked' BY <1>1, <1>7, <1>8, <1>9, <1>10
<1>12. NothingMinted' BY <1>0, <1>1 DEF NothingMinted
<1>13. VotesCovered' BY <1>0, <1>1 DEF VotesCovered, Cast
<1>14. QED BY <1>2, <1>11, <1>12, <1>13 DEF DaoInv

\* Only create_proposal adds a proposal.
LEMMA DomainKept ==
  ASSUME DaoNext, ~\E h \in Proposers, d \in Drafts : Len(proposals) < MaxMotions /\ CreateProposal(h, d)
  PROVE  DOMAIN proposals' = DOMAIN proposals
<1>1. ASSUME NEW h, NEW p, NEW support, NEW w, RecordVote(h, p, support, w) PROVE DOMAIN proposals' = DOMAIN proposals
  BY <1>1 DEF RecordVote
<1>2. ASSUME NEW p, NEW x, SetState(p, x) PROVE DOMAIN proposals' = DOMAIN proposals
  BY <1>2 DEF SetState
<1>3. ASSUME NEW h, NEW p, NEW c, NEW support, NEW list, NEW x,
             DaoVote(h, p, support) \/ VoteWithDelegators(h, p, support, list) \/ VoteChoice(h, p, c, x)
      PROVE  DOMAIN proposals' = DOMAIN proposals
  BY <1>1, <1>3 DEF DaoVote, VoteWithDelegators, VoteChoice
<1>4. ASSUME NEW p, ExecuteProposal(p) \/ VetoProposal(p) \/ AdminCancel(p) \/ EmergencyExecute(p) \/ ProposerCancel(p)
      PROVE  DOMAIN proposals' = DOMAIN proposals
  BY <1>2, <1>4 DEF ExecuteProposal, VetoProposal, AdminCancel, EmergencyExecute, ProposerCancel
<1>5. ASSUME NEW p, QueueProposal(p) PROVE DOMAIN proposals' = DOMAIN proposals BY <1>5 DEF QueueProposal
<1>6. QED
  BY <1>3, <1>4, <1>5 DEF DaoNext, InitializeDao, TransferGovernance, Delegate, Undelegate, LockForVote,
     UnlockTokens, SetSecurityCouncil, daoOnlyVars

\* Tallies of ids not handed out yet stay empty.
LEMMA FreshStep ==
  ASSUME DaoTyped, FreshTallies, DaoNext
  PROVE  FreshTallies'
<1>1. ASSUME NEW q \in DOMAIN proposals PROVE q \in DOMAIN proposals'
  <2>1. proposals \in Seq(DaoRecords) BY DEF DaoTyped
  <2>2. CASE \E h \in Proposers, d \in Drafts : Len(proposals) < MaxMotions /\ CreateProposal(h, d)
    <3>1. PICK r : proposals' = Append(proposals, r) BY <2>2 DEF CreateProposal
    <3>2. QED BY <1>1, <2>1, <3>1
  <2>3. CASE ~\E h \in Proposers, d \in Drafts : Len(proposals) < MaxMotions /\ CreateProposal(h, d)
    <3>1. DOMAIN proposals' = DOMAIN proposals BY <2>3, DomainKept
    <3>2. QED BY <1>1, <3>1
  <2>4. QED BY <2>2, <2>3
<1>2. ASSUME NEW q \in ProposalIds, q \notin DOMAIN proposals PROVE tallies'[q] = tallies[q]
  <2>1. tallies \in [ProposalIds -> [ChoiceNames -> Int]] BY DEF DaoTyped
  <2>2. ASSUME NEW h \in Holders, NEW p \in ProposalIds, NEW c \in ChoiceNames, NEW x \in ChoiceAmounts,
               VoteChoice(h, p, c, x)
        PROVE  tallies'[q] = tallies[q]
    <3>1. p \in DOMAIN proposals /\ \E w : tallies' = [tallies EXCEPT ![p][c] = @ + w] BY <2>2 DEF VoteChoice, VotingOpen
    <3>2. QED BY <1>2, <2>1, <3>1
  <2>3. CASE ~\E h \in Holders, p \in ProposalIds, c \in ChoiceNames, x \in ChoiceAmounts : VoteChoice(h, p, c, x)
    <3>1. tallies' = tallies
      BY <2>3 DEF DaoNext, InitializeDao, CreateProposal, DaoVote, VoteWithDelegators, TransferGovernance,
         Delegate, Undelegate, LockForVote, UnlockTokens, QueueProposal, ExecuteProposal, VetoProposal, AdminCancel,
         EmergencyExecute, ProposerCancel, SetSecurityCouncil, daoOnlyVars
    <3>2. QED BY <3>1
  <2>4. QED BY <2>2, <2>3
<1>3. QED BY <1>1, <1>2 DEF FreshTallies

\* Steps about other things.
LEMMA DaoIdleStep ==
  ASSUME DaoInv, UNCHANGED <<now, daoConf, proposals, locks, tallies, govBal, daoHeld, pooled>>
  PROVE  DaoInv'
<1>0. DaoTyped /\ DaoBacked /\ NothingMinted /\ VotesCovered BY DEF DaoInv
<1>1. DaoTyped' BY <1>0 DEF DaoTyped
<1>2. \A p \in ProposalIds : Promise(p)' = Promise(p) BY DEF Promise, Retained, BondHeld, Voting, Cast, LockedFor
<1>3. [p \in ProposalIds |-> Promise(p)]' = [p \in ProposalIds |-> Promise(p)] BY <1>2
<1>4. DaoBacked' BY <1>0, <1>3 DEF DaoBacked
<1>5. NothingMinted' BY <1>0 DEF NothingMinted
<1>6. VotesCovered' BY <1>0 DEF VotesCovered, Cast
<1>7. QED BY <1>1, <1>4, <1>5, <1>6 DEF DaoInv

\* Every step of the DAO keeps the invariant.
LEMMA DaoStep ==
  ASSUME DaoInv, FreshTallies, [DaoNext]_daoVars
  PROVE  DaoInv' /\ FreshTallies'
<1>1. CASE DaoNext
  <2>1. DaoInv'
    <3>1. CASE InitializeDao BY <3>1, DaoIdleStep DEF InitializeDao
    <3>2. CASE \E h \in Proposers, d \in Drafts : Len(proposals) < MaxMotions /\ CreateProposal(h, d) BY <3>2, CreateStep
    <3>3. CASE \E h \in Holders, p \in ProposalIds, support \in BOOLEAN :
                 DaoVote(h, p, support) \/ \E list \in DelegatorLists : VoteWithDelegators(h, p, support, list)
      BY <3>3, DaoVoteStep, PooledVoteStep
    <3>4. CASE \E h \in Holders, p \in ProposalIds, c \in ChoiceNames, x \in ChoiceAmounts : VoteChoice(h, p, c, x)
      BY <3>4, VoteChoiceStep
    <3>5. ASSUME NEW h \in Holders, NEW to \in Holders, TransferGovernance(h, to) \/ Delegate(h, to) PROVE DaoInv'
      <4>1. CASE TransferGovernance(h, to) BY <4>1, HandOnStep
      <4>2. CASE Delegate(h, to) BY <4>2, DaoIdleStep DEF Delegate
      <4>3. QED BY <3>5, <4>1, <4>2
    <3>6. CASE \E h \in Delegators : Undelegate(h) BY <3>6, DaoIdleStep DEF Undelegate
    <3>7. CASE \E h \in Holders, p \in ProposalIds : LockForVote(h, p) \/ UnlockTokens(h, p)
      BY <3>7, LockForVoteStep, UnlockStep
    <3>8. CASE \E p \in ProposalIds :
            \/ QueueProposal(p) \/ ExecuteProposal(p) \/ VetoProposal(p) \/ AdminCancel(p)
            \/ EmergencyExecute(p) \/ ProposerCancel(p)
      BY <3>8, QueueStep, DropStep, BondSteps
    <3>9. CASE SetSecurityCouncil BY <3>9, DaoIdleStep DEF SetSecurityCouncil
    <3>10. CASE LedgerCloses /\ UNCHANGED daoOnlyVars BY <3>10, DaoLedgerStep
    <3>11. QED BY <1>1, <3>1, <3>2, <3>3, <3>4, <3>5, <3>6, <3>7, <3>8, <3>9, <3>10 DEF DaoNext
  <2>2. DaoTyped BY DEF DaoInv
  <2>3. FreshTallies' BY <1>1, <2>2, FreshStep
  <2>4. QED BY <2>1, <2>3
<1>2. CASE UNCHANGED daoVars
  <2>1. UNCHANGED <<now, daoConf, proposals, locks, tallies, govBal, daoHeld, pooled>> BY <1>2 DEF daoVars, daoOnlyVars
  <2>2. FreshTallies' BY <2>1 DEF FreshTallies
  <2>3. QED BY <2>1, <2>2, DaoIdleStep
<1>3. QED BY <1>1, <1>2

\* The DAO starts without proposals, with all tokens at their holders.
LEMMA DaoStart ==
  ASSUME DaoInit
  PROVE  DaoInv /\ FreshTallies
<1>0. /\ now = 0 /\ daoConf \in DaoConfigs /\ proposals = <<>> /\ pooled = {} /\ govBal = HolderFunds /\ daoHeld = 0
      /\ locks = [p \in ProposalIds |-> [h \in Holders |-> 0]]
      /\ tallies = [p \in ProposalIds |-> [c \in ChoiceNames |-> 0]]
  BY DEF DaoInit
<1>1. proposals \in Seq(DaoRecords) /\ Len(proposals) = 0 /\ DOMAIN proposals = {} BY <1>0
<1>2. MaxMotions \in Nat /\ HolderFunds \in [Holders -> Nat] BY DaoAssumption
<1>3. DaoTyped BY <1>0, <1>1, <1>2 DEF DaoTyped
<1>4. DaoBacked
  <2> DEFINE f == [p \in ProposalIds |-> Promise(p)]
  <2>1. ASSUME NEW p \in ProposalIds PROVE Promise(p) = 0
    <3>1. \A h \in Holders : locks[p][h] = 0 BY <1>0
    <3>2. LockedFor(p) = 0 BY <3>1, DaoFinite, SumOfZeros DEF LockedFor
    <3>3. QED BY <1>1, <3>2 DEF Promise, Retained, BondHeld, Voting
  <2>2. \A p \in ProposalIds : f[p] = 0 BY <2>1
  <2> HIDE DEF f
  <2>3. SumFunctionOnSet(f, ProposalIds) = 0 BY <2>2, DaoFinite, SumOfZeros
  <2>4. QED BY <1>0, <2>3 DEF DaoBacked, f
<1>5. NothingMinted BY <1>0, DaoFinite DEF NothingMinted, Supply
<1>6. VotesCovered BY <1>1 DEF VotesCovered
<1>7. FreshTallies
  <2>1. ASSUME NEW p \in ProposalIds PROVE SumFunctionOnSet(tallies[p], ChoiceNames) = 0
    <3>1. \A c \in ChoiceNames : tallies[p][c] = 0 BY <1>0
    <3>2. QED BY <3>1, DaoFinite, SumOfZeros
  <2>2. QED BY <2>1 DEF FreshTallies
<1>8. QED BY <1>3, <1>4, <1>5, <1>6, <1>7 DEF DaoInv

\* The invariant holds in every reachable state.
LEMMA DaoInvariant == DaoSpec => [](DaoInv /\ FreshTallies)
<1>1. DaoInit => DaoInv /\ FreshTallies BY DaoStart
<1>2. DaoInv /\ FreshTallies /\ [DaoNext]_daoVars => (DaoInv /\ FreshTallies)' BY DaoStep
<1>3. QED BY <1>1, <1>2, PTL DEF DaoSpec

\* The promises include all that the lock keys and bonds come to.
LEMMA InvBacksLocks == DaoInv => LocksBacked
<1> SUFFICES ASSUME DaoInv PROVE LocksBacked
  OBVIOUS
<1> DEFINE f == [p \in ProposalIds |-> Promise(p)]
           l == [p \in ProposalIds |-> LockedFor(p)]
           b == [p \in DOMAIN proposals |-> BondOf(p)]
           k == [p \in ProposalIds |-> BondHeld(p)]
           D == DOMAIN proposals
<1>0. DaoTyped /\ DaoBacked BY DEF DaoInv
<1>1. daoHeld \in Int /\ daoHeld >= SumFunctionOnSet(f, ProposalIds) BY <1>0 DEF DaoBacked, DaoTyped
<1>2. PromisesSound BY <1>0, PromisesAreSound
<1>3. ASSUME NEW p \in ProposalIds
      PROVE  /\ l[p] \in Nat /\ k[p] \in Nat /\ f[p] \in Nat /\ l[p] + k[p] <= f[p]
  <2>1. /\ LockedFor(p) \in Nat /\ BondHeld(p) \in Nat /\ Retained(p) \in Nat /\ Promise(p) \in Nat
        /\ Promise(p) = Retained(p) + BondHeld(p) /\ Retained(p) >= LockedFor(p)
    BY <1>2 DEF PromisesSound
  <2>2. QED BY <2>1
<1>4. ASSUME NEW p \in D PROVE p \in ProposalIds /\ b[p] \in Int /\ b[p] <= k[p]
  <2>1. p \in ProposalIds /\ proposals[p].bond \in Int BY <1>0, <1>4, ProposalTyped DEF DaoRecords
  <2>2. QED BY <1>4, <2>1 DEF BondOf, BondHeld, AtLeast
<1>5. LocksBacked <=> daoHeld >= SumFunctionOnSet(l, ProposalIds) + SumFunctionOnSet(b, D) BY DEF LocksBacked
<1> HIDE DEF f, l, b, k, D
<1>6. D \in SUBSET ProposalIds /\ IsFiniteSet(D)
  <2>1. D \in SUBSET ProposalIds BY <1>4
  <2>2. QED BY <2>1, DaoFinite, FS_Subset
<1> DEFINE s == [p \in ProposalIds |-> l[p] + k[p]]
<1>7. \A p \in ProposalIds : l[p] \in Int /\ k[p] \in Int /\ s[p] = l[p] + k[p]
  <2>1. ASSUME NEW p \in ProposalIds PROVE l[p] \in Nat /\ k[p] \in Nat BY <1>3
  <2>2. QED BY <2>1
<1>8. \A p \in ProposalIds : s[p] \in Int /\ f[p] \in Int /\ s[p] <= f[p] BY <1>3
<1> HIDE DEF s
<1>9. SumFunctionOnSet(s, ProposalIds) = SumFunctionOnSet(l, ProposalIds) + SumFunctionOnSet(k, ProposalIds)
  BY <1>7, DaoFinite, SumPlus
<1>10. SumFunctionOnSet(s, ProposalIds) <= SumFunctionOnSet(f, ProposalIds) BY <1>8, DaoFinite, SumGrows
<1>11. SumFunctionOnSet(b, D) <= SumFunctionOnSet(k, D)
  <2>1. \A p \in D : b[p] \in Int /\ k[p] \in Int /\ b[p] <= k[p] BY <1>4, <1>7
  <2>2. QED BY <1>6, <2>1, SumGrows
<1>12. SumFunctionOnSet(k, D) <= SumFunctionOnSet(k, ProposalIds) /\ SumFunctionOnSet(k, D) \in Int
  <2>1. SumFunctionOnSet(k, ProposalIds) = SumFunctionOnSet(k, D) + SumFunctionOnSet(k, ProposalIds \ D)
    BY <1>6, <1>7, DaoFinite, SumSplit
  <2>2. IsFiniteSet(ProposalIds \ D) BY DaoFinite, FS_Subset
  <2>3. \A p \in ProposalIds \ D : k[p] \in Nat BY <1>3
  <2>4. SumFunctionOnSet(k, ProposalIds \ D) \in Nat BY <2>2, <2>3, SumNat
  <2>5. \A p \in D : k[p] \in Int BY <1>4, <1>7
  <2>6. SumFunctionOnSet(k, D) \in Int BY <1>6, <2>5, SumBasics
  <2>7. QED BY <2>1, <2>4, <2>6
<1>13. /\ SumFunctionOnSet(l, ProposalIds) \in Int /\ SumFunctionOnSet(k, ProposalIds) \in Int
       /\ SumFunctionOnSet(s, ProposalIds) \in Int /\ SumFunctionOnSet(f, ProposalIds) \in Int
  <2>1. (\A p \in ProposalIds : l[p] \in Int) /\ (\A p \in ProposalIds : k[p] \in Int)
        /\ (\A p \in ProposalIds : s[p] \in Int) /\ (\A p \in ProposalIds : f[p] \in Int)
    BY <1>7, <1>8
  <2>2. QED BY <2>1, DaoFinite, SumBasics
<1>14. SumFunctionOnSet(b, D) \in Int
  <2>1. \A p \in D : b[p] \in Int BY <1>4
  <2>2. QED BY <1>6, <2>1, SumBasics
<1>15. QED BY <1>1, <1>5, <1>9, <1>10, <1>11, <1>12, <1>13, <1>14

\* The DAO can always give back what it locked and the bonds it owes
\* (LocksBacked): slashing, overwritten locks and emergency execution take from one
\* proposal only what was kept for it.
THEOREM LocksAreBacked == DaoSpec => []LocksBacked
<1>1. DaoInv /\ FreshTallies => LocksBacked BY InvBacksLocks
<1>2. QED BY <1>1, DaoInvariant, PTL

\* No token votes twice on a proposal (TokensVoteOnce): the tokens behind the votes
\* stay in the DAO while voting is open, and all tokens come to the supply.
THEOREM TokensVoteOnlyOnce == DaoSpec => []TokensVoteOnce
<1>1. ASSUME DaoInv PROVE TokensVoteOnce
  <2>1. DaoTyped /\ VotesCovered BY <1>1 DEF DaoInv
  <2>2. ASSUME NEW p \in DOMAIN proposals PROVE proposals[p].supply = Supply BY <2>1, <2>2, ProposalTyped DEF DaoRecords
  <2>3. QED BY <2>1, <2>2 DEF VotesCovered, TokensVoteOnce, Cast
<1>2. DaoInv /\ FreshTallies => TokensVoteOnce BY <1>1
<1>3. QED BY <1>2, DaoInvariant, PTL

\* What a step may do to a proposal.
RecordMoves(p) ==
  /\ p \in DOMAIN proposals'
  /\ proposals'[p].deadline = proposals[p].deadline /\ proposals'[p].supply = proposals[p].supply
  /\ now > proposals[p].deadline => proposals'[p].yes = proposals[p].yes /\ proposals'[p].no = proposals[p].no
  /\ \/ proposals'[p].state = proposals[p].state /\ proposals'[p].eta = proposals[p].eta
     \/ proposals'[p].state = "Cancelled"
     \/ proposals'[p].state = "Executed" /\ council /\ proposals[p].state # "Cancelled"
     \/ proposals'[p].state = "Executed" /\ proposals[p].state = "Queued" /\ now >= proposals[p].eta
     \/ /\ proposals'[p].state = "Queued" /\ Carried(p) /\ now > proposals[p].deadline
        /\ proposals'[p].eta = proposals[p].deadline + daoConf.delay

\* A vote changes the votes of one proposal, while it is open.
LEMMA VoteMoves ==
  ASSUME DaoTyped, NEW h, NEW p \in DOMAIN proposals, NEW support \in BOOLEAN, NEW w, RecordVote(h, p, support, w),
         VotingOpen(p)
  PROVE  \A q \in DOMAIN proposals : RecordMoves(q)
<1> DEFINE o == proposals[p]
           r == IF support THEN [o EXCEPT !.yes = @ + w] ELSE [o EXCEPT !.no = @ + w]
<1>1. o \in DaoRecords BY ProposalTyped
<1>2. proposals' = [proposals EXCEPT ![p] = r] BY DEF RecordVote
<1>3. proposals \in Seq(DaoRecords) BY DEF DaoTyped
<1>4. DOMAIN proposals' = DOMAIN proposals /\ proposals'[p] = r /\ \A q \in DOMAIN proposals : q # p => proposals'[q] = proposals[q]
  BY <1>2, <1>3
<1> HIDE DEF o
<1>5. r.state = o.state /\ r.eta = o.eta /\ r.deadline = o.deadline /\ r.supply = o.supply
  <2>1. CASE support BY <1>1, <2>1 DEF DaoRecords
  <2>2. CASE ~support BY <1>1, <2>2 DEF DaoRecords
  <2>3. QED BY <2>1, <2>2
<1> HIDE DEF r
<1>6. ~(now > proposals[p].deadline)
  <2>1. now \in Nat /\ proposals[p].deadline \in Nat BY ProposalTyped DEF DaoTyped, DaoRecords
  <2>2. QED BY <2>1 DEF VotingOpen
<1>7. RecordMoves(p) BY <1>4, <1>5, <1>6 DEF RecordMoves, o
<1>8. ASSUME NEW q \in DOMAIN proposals, q # p PROVE RecordMoves(q) BY <1>4, <1>8 DEF RecordMoves
<1>9. QED BY <1>7, <1>8

\* A step that gives p the record r and has a reason for it.
LEMMA MovesOne ==
  ASSUME DaoTyped, NEW p \in DOMAIN proposals, NEW r \in DaoRecords, proposals' = [proposals EXCEPT ![p] = r],
         r.deadline = proposals[p].deadline, r.supply = proposals[p].supply,
         r.yes = proposals[p].yes, r.no = proposals[p].no,
         \/ r.state = "Cancelled"
         \/ r.state = "Executed" /\ council /\ proposals[p].state # "Cancelled"
         \/ r.state = "Executed" /\ proposals[p].state = "Queued" /\ now >= proposals[p].eta
         \/ r.state = "Queued" /\ Carried(p) /\ now > proposals[p].deadline /\ r.eta = proposals[p].deadline + daoConf.delay
  PROVE  \A q \in DOMAIN proposals : RecordMoves(q)
<1>1. /\ DOMAIN proposals' = DOMAIN proposals
      /\ proposals'[p] = r /\ \A q : q # p /\ q \in DOMAIN proposals => proposals'[q] = proposals[q]
  BY RecordChange
<1>2. RecordMoves(p) BY <1>1 DEF RecordMoves
<1>3. ASSUME NEW q \in DOMAIN proposals, q # p PROVE RecordMoves(q) BY <1>1, <1>3 DEF RecordMoves
<1>4. QED BY <1>2, <1>3

\* A change of state leaves the votes alone.
LEMMA StateMoves ==
  ASSUME DaoTyped, NEW p \in ProposalIds,
         QueueProposal(p) \/ ExecuteProposal(p) \/ VetoProposal(p) \/ AdminCancel(p) \/ EmergencyExecute(p) \/ ProposerCancel(p)
  PROVE  \A q \in DOMAIN proposals : RecordMoves(q)
<1>1. CASE QueueProposal(p)
  <2>1. p \in DOMAIN proposals /\ Carried(p) /\ now > proposals[p].deadline BY <1>1 DEF QueueProposal
  <2>2. PICK r \in DaoRecords :
            /\ proposals' = [proposals EXCEPT ![p] = r] /\ r.state = "Queued"
            /\ r.yes = proposals[p].yes /\ r.no = proposals[p].no /\ r.deadline = proposals[p].deadline
            /\ r.eta = proposals[p].deadline + daoConf.delay /\ r.supply = proposals[p].supply
    BY <1>1, <2>1, QueueRecord
  <2>3. QED BY <2>1, <2>2, MovesOne
<1>2. ASSUME NEW s \in DaoStates, SetState(p, s), p \in DOMAIN proposals,
             \/ s = "Cancelled"
             \/ s = "Executed" /\ council /\ proposals[p].state # "Cancelled"
             \/ s = "Executed" /\ proposals[p].state = "Queued" /\ now >= proposals[p].eta
      PROVE  \A q \in DOMAIN proposals : RecordMoves(q)
  <2>1. PICK r \in DaoRecords :
            /\ proposals' = [proposals EXCEPT ![p] = r] /\ r.state = s /\ r.supply = proposals[p].supply
            /\ r.yes = proposals[p].yes /\ r.no = proposals[p].no /\ r.deadline = proposals[p].deadline
    BY <1>2, SetStateRecord
  <2>2. QED BY <1>2, <2>1, MovesOne
<1>3. "Executed" \in DaoStates /\ "Cancelled" \in DaoStates BY DEF DaoStates
<1>4. CASE ExecuteProposal(p)
  <2>1. SetState(p, "Executed") /\ p \in DOMAIN proposals /\ proposals[p].state = "Queued" /\ now >= proposals[p].eta
    BY <1>4 DEF ExecuteProposal
  <2>2. QED BY <1>2, <1>3, <2>1
<1>5. CASE EmergencyExecute(p)
  <2>1. SetState(p, "Executed") /\ p \in DOMAIN proposals /\ proposals[p].state # "Cancelled" /\ council
    BY <1>5 DEF EmergencyExecute
  <2>2. QED BY <1>2, <1>3, <2>1
<1>6. CASE VetoProposal(p) \/ AdminCancel(p) \/ ProposerCancel(p)
  <2>1. SetState(p, "Cancelled") /\ p \in DOMAIN proposals BY <1>6 DEF VetoProposal, AdminCancel, ProposerCancel
  <2>2. QED BY <1>2, <1>3, <2>1
<1>7. QED BY <1>1, <1>4, <1>5, <1>6

\* What any step may do to the record of a proposal.
LEMMA EveryMove ==
  ASSUME DaoTyped, [DaoNext]_daoVars
  PROVE  \A q \in DOMAIN proposals : RecordMoves(q)
<1>1. CASE proposals' = proposals BY <1>1 DEF RecordMoves
<1>2. ASSUME NEW h \in Proposers, NEW d \in Drafts, CreateProposal(h, d)
      PROVE  \A q \in DOMAIN proposals : RecordMoves(q)
  <2>1. PICK r : proposals' = Append(proposals, r) BY <1>2 DEF CreateProposal
  <2>2. proposals \in Seq(DaoRecords) BY DEF DaoTyped
  <2>3. \A q \in DOMAIN proposals : q \in DOMAIN proposals' /\ proposals'[q] = proposals[q] BY <2>1, <2>2
  <2>4. QED BY <2>3 DEF RecordMoves
<1>3. ASSUME NEW h \in Holders, NEW p \in ProposalIds, NEW support \in BOOLEAN,
             DaoVote(h, p, support) \/ \E list \in DelegatorLists : VoteWithDelegators(h, p, support, list)
      PROVE  \A q \in DOMAIN proposals : RecordMoves(q)
  <2>1. VotingOpen(p) /\ \E w : RecordVote(h, p, support, w) BY <1>3 DEF DaoVote, VoteWithDelegators
  <2>2. p \in DOMAIN proposals BY <2>1 DEF VotingOpen
  <2>3. QED BY <2>1, <2>2, VoteMoves
<1>4. ASSUME NEW h \in Holders, NEW p \in ProposalIds, NEW c \in ChoiceNames, NEW x \in ChoiceAmounts, VoteChoice(h, p, c, x)
      PROVE  \A q \in DOMAIN proposals : RecordMoves(q)
  <2>1. VotingOpen(p) /\ \E w : RecordVote(h, p, TRUE, w) BY <1>4 DEF VoteChoice
  <2>2. p \in DOMAIN proposals BY <2>1 DEF VotingOpen
  <2>3. \E support \in BOOLEAN : \E w : RecordVote(h, p, support, w) BY <2>1, Zenon
  <2>4. VotingOpen(p) BY <2>1
  <2>5. QED BY <2>2, <2>3, <2>4, VoteMoves
<1>5. ASSUME NEW p \in ProposalIds,
          \/ QueueProposal(p) \/ ExecuteProposal(p) \/ VetoProposal(p) \/ AdminCancel(p)
          \/ EmergencyExecute(p) \/ ProposerCancel(p)
      PROVE  \A q \in DOMAIN proposals : RecordMoves(q)
  BY <1>5, StateMoves
<1>6. CASE \/ InitializeDao \/ SetSecurityCouncil \/ UNCHANGED daoOnlyVars
           \/ \E h, to \in Holders : TransferGovernance(h, to) \/ Delegate(h, to)
           \/ \E h \in Delegators : Undelegate(h)
           \/ \E h \in Holders, p \in ProposalIds : LockForVote(h, p) \/ UnlockTokens(h, p)
  BY <1>1, <1>6 DEF InitializeDao, SetSecurityCouncil, daoOnlyVars, TransferGovernance, Delegate, Undelegate, LockForVote,
     UnlockTokens
<1>7. UNCHANGED daoVars => UNCHANGED daoOnlyVars BY DEF daoVars
<1>8. QED BY <1>2, <1>3, <1>4, <1>5, <1>6, <1>7 DEF DaoNext

\* The configuration is fixed, and the clock moves by one.
LEMMA DaoClock ==
  ASSUME [DaoNext]_daoVars
  PROVE  daoConf' = daoConf /\ (now' = now \/ now' = now + 1)
<1>1. ASSUME NEW h, NEW p, NEW support, NEW list, NEW c, NEW x,
             DaoVote(h, p, support) \/ VoteWithDelegators(h, p, support, list) \/ VoteChoice(h, p, c, x)
      PROVE  daoConf' = daoConf /\ now' = now
  <2>1. \E s, w : RecordVote(h, p, s, w) BY <1>1 DEF DaoVote, VoteWithDelegators, VoteChoice
  <2>2. QED BY <2>1 DEF RecordVote
<1>2. ASSUME NEW p, \/ QueueProposal(p) \/ ExecuteProposal(p) \/ VetoProposal(p) \/ AdminCancel(p)
                    \/ EmergencyExecute(p) \/ ProposerCancel(p)
      PROVE  daoConf' = daoConf /\ now' = now
  BY <1>2 DEF QueueProposal, ExecuteProposal, VetoProposal, AdminCancel, EmergencyExecute, ProposerCancel
<1>3. ASSUME NEW h, NEW p, NEW d, NEW to,
             \/ CreateProposal(h, d) \/ TransferGovernance(h, to) \/ Delegate(h, to) \/ Undelegate(h)
             \/ LockForVote(h, p) \/ UnlockTokens(h, p)
      PROVE  daoConf' = daoConf /\ now' = now
  BY <1>3 DEF CreateProposal, TransferGovernance, Delegate, Undelegate, LockForVote, UnlockTokens
<1>4. InitializeDao \/ SetSecurityCouncil \/ UNCHANGED daoVars => daoConf' = daoConf /\ now' = now
  BY DEF InitializeDao, SetSecurityCouncil, daoVars, daoOnlyVars
<1>5. LedgerCloses /\ UNCHANGED daoOnlyVars => daoConf' = daoConf /\ now' = now + 1 BY DEF LedgerCloses, daoOnlyVars
<1>6. QED BY <1>1, <1>2, <1>3, <1>4, <1>5 DEF DaoNext

\* A queued proposal stays carried.
LEMMA QueuedStep ==
  ASSUME DaoTyped, QueuedCarried, [DaoNext]_daoVars
  PROVE  QueuedCarried'
<1>1. daoConf' = daoConf /\ (now' = now \/ now' = now + 1) BY DaoClock
<1>2. ASSUME NEW q \in DOMAIN proposals', proposals'[q].state = "Queued", q \in DOMAIN proposals
      PROVE  Carried(q)' /\ now' > proposals'[q].deadline /\ proposals'[q].eta = proposals'[q].deadline + daoConf'.delay
  <2>1. RecordMoves(q) BY <1>2, EveryMove
  <2>2. now \in Nat /\ proposals[q].deadline \in Nat BY <1>2, ProposalTyped DEF DaoTyped, DaoRecords
  <2>3. Carried(q) /\ now > proposals[q].deadline /\ proposals'[q].eta = proposals[q].deadline + daoConf.delay
    <3>1. CASE proposals'[q].state = proposals[q].state /\ proposals'[q].eta = proposals[q].eta
      BY <1>2, <3>1 DEF QueuedCarried
    <3>2. CASE ~(proposals'[q].state = proposals[q].state /\ proposals'[q].eta = proposals[q].eta)
      BY <1>2, <2>1, <3>2 DEF RecordMoves
    <3>3. QED BY <3>1, <3>2
  <2>4. /\ proposals'[q].yes = proposals[q].yes /\ proposals'[q].no = proposals[q].no
        /\ proposals'[q].supply = proposals[q].supply /\ proposals'[q].deadline = proposals[q].deadline
    BY <2>1, <2>3 DEF RecordMoves
  <2>5. Carried(q)' BY <1>1, <2>3, <2>4 DEF Carried, QuorumMet
  <2>6. now' > proposals'[q].deadline BY <1>1, <2>2, <2>3, <2>4
  <2>7. QED BY <1>1, <2>3, <2>4, <2>5, <2>6
<1>3. ASSUME NEW q \in DOMAIN proposals', q \notin DOMAIN proposals PROVE proposals'[q].state # "Queued"
  <2>1. DaoNext BY <1>3 DEF daoVars, daoOnlyVars
  <2>2. PICK h \in Proposers, d \in Drafts : CreateProposal(h, d) BY <1>3, <2>1, DomainKept
  <2> DEFINE r == [proposer |-> h, deadline |-> now + daoConf.period, yes |-> 0, no |-> 0,
                   state |-> "Active", bond |-> daoConf.bond, supply |-> Supply, eta |-> 0,
                   type |-> d.type, tier |-> d.tier, choices |-> d.choices]
  <2>3. proposals' = Append(proposals, r) BY <2>2 DEF CreateProposal
  <2>4. r.state = "Active" OBVIOUS
  <2> HIDE DEF r
  <2>5. proposals \in Seq(DaoRecords) BY DEF DaoTyped
  <2>6. DOMAIN proposals = 1..Len(proposals) /\ Len(proposals) \in Nat /\ DOMAIN proposals' = 1..(Len(proposals) + 1)
        /\ proposals'[Len(proposals) + 1] = r
    BY <2>3, <2>5
  <2>7. q = Len(proposals) + 1 BY <1>3, <2>6
  <2>8. QED BY <2>4, <2>6, <2>7
<1>4. QED BY <1>2, <1>3 DEF QueuedCarried

\* Votes stand still once a proposal is past its deadline, and one that is executed
\* without the council was carried by those votes and waited out ExecutionDelay, the
\* one delay queue_proposal reads for every tier (ExecutedAsVoted), whatever was
\* cancelled, vetoed or transferred in between.
THEOREM ExecutionsFollowTheVote == DaoSpec => ExecutedAsVoted
<1> DEFINE Move ==
      \A p \in DOMAIN proposals :
         /\ now > proposals[p].deadline =>
              proposals'[p].yes = proposals[p].yes /\ proposals'[p].no = proposals[p].no
         /\ proposals[p].state # "Executed" /\ proposals'[p].state = "Executed" =>
              \/ council /\ proposals[p].state # "Cancelled"
              \/ Carried(p) /\ now > proposals[p].deadline
                 /\ now >= proposals[p].deadline + daoConf.delay
<1>1. DaoInit => QueuedCarried
  <2>1. ASSUME DaoInit PROVE QueuedCarried BY <2>1 DEF DaoInit, QueuedCarried
  <2>2. QED BY <2>1
<1>2. DaoInv /\ QueuedCarried /\ [DaoNext]_daoVars => QueuedCarried' BY QueuedStep DEF DaoInv
<1>3. DaoInv /\ QueuedCarried /\ [DaoNext]_daoVars => Move
  <2> SUFFICES ASSUME DaoInv, QueuedCarried, [DaoNext]_daoVars, NEW p \in DOMAIN proposals
               PROVE  /\ now > proposals[p].deadline =>
                           proposals'[p].yes = proposals[p].yes /\ proposals'[p].no = proposals[p].no
                      /\ proposals[p].state # "Executed" /\ proposals'[p].state = "Executed" =>
                           \/ council /\ proposals[p].state # "Cancelled"
                           \/ Carried(p) /\ now > proposals[p].deadline
                              /\ now >= proposals[p].deadline + daoConf.delay
    OBVIOUS
  <2>1. DaoTyped BY DEF DaoInv
  <2>2. RecordMoves(p) BY <2>1, EveryMove
  <2>3. proposals[p].state = "Queued" =>
          Carried(p) /\ now > proposals[p].deadline /\ proposals[p].eta = proposals[p].deadline + daoConf.delay
    BY DEF QueuedCarried
  <2>4. QED BY <2>2, <2>3 DEF RecordMoves
<1>4. ExecutedAsVoted <=> [][Move]_daoVars BY DEF ExecutedAsVoted
<1>5. QED BY <1>1, <1>2, <1>3, <1>4, DaoInvariant, PTL DEF DaoSpec

----
(* The ballot.                                                             *)

BallotTyped ==
  /\ cast \in [Voters -> [Routes -> Nat]] /\ commitPhases \in Nat
  /\ commitments \in [Voters -> Commitments \cup {Unset}]
  /\ hashes \in [Voters -> SUBSET (Nat \X ChoiceIndices)]

PendingAt(v) == IF commitments[v] # Unset THEN 1 ELSE 0

\* Each voter has either been counted or holds what it may be counted for: a
\* commitment not revealed, or hashes no relayer has opened.
CountedOnce(v) ==
  /\ cast[v]["vote"] <= 1 /\ (v \notin hasVoted => cast[v]["vote"] = 0)
  /\ cast[v]["ranked"] <= 1 /\ (v \notin ranked => cast[v]["ranked"] = 0)
BlindedOnce(v) ==
  /\ IsFiniteSet(hashes[v])
  /\ cast[v]["blinded"] + Cardinality(hashes[v]) <= cast[v]["reveal"] + PendingAt(v)
RevealedOnce(v) ==
  /\ cast[v]["reveal"] + PendingAt(v) <= commitPhases
  /\ phase = "commit" => cast[v]["reveal"] + 1 <= commitPhases

BallotInv ==
  BallotTyped /\ \A v \in Voters : CountedOnce(v) /\ BlindedOnce(v) /\ RevealedOnce(v)

VoterSound(v) == CountedOnce(v) /\ BlindedOnce(v) /\ RevealedOnce(v)

\* What a step must leave alone for a voter that it is not about.
VoterLeft(u) ==
  /\ cast'[u] = cast[u] /\ commitments'[u] = commitments[u]
  /\ hashes'[u] = hashes[u] /\ (u \in hasVoted' <=> u \in hasVoted) /\ (u \in ranked' <=> u \in ranked)

\* A voter the step is not about stays in order.
LEMMA VoterKept ==
  ASSUME NEW u, VoterSound(u), VoterLeft(u), phase' = phase \/ phase' = "reveal", commitPhases' = commitPhases
  PROVE  VoterSound(u)'
<1>1. PendingAt(u)' = PendingAt(u) BY DEF PendingAt, VoterLeft
<1>3. CountedOnce(u)' BY DEF VoterSound, CountedOnce, VoterLeft
<1>4. BlindedOnce(u)' BY <1>1 DEF VoterSound, BlindedOnce, VoterLeft
<1>5. RevealedOnce(u)' BY <1>1 DEF VoterSound, RevealedOnce, VoterLeft
<1>6. QED BY <1>3, <1>4, <1>5 DEF VoterSound

\* The parts of the invariant about one voter, as numbers.
LEMMA VoterFacts ==
  ASSUME BallotInv, NEW v \in Voters
  PROVE  /\ BallotTyped /\ VoterSound(v) /\ \A r \in Routes : cast[v][r] \in Nat
         /\ commitPhases \in Nat /\ commitments[v] \in Commitments \cup {Unset}
         /\ PendingAt(v) \in {0, 1} /\ Cardinality(hashes[v]) \in Nat
<1>1. BallotTyped /\ VoterSound(v) BY DEF BallotInv, VoterSound
<1>2. Cardinality(hashes[v]) \in Nat BY <1>1, FS_CardinalityType DEF VoterSound, BlindedOnce
<1>3. QED BY <1>1, <1>2 DEF BallotTyped, PendingAt

\* The ways of voting that the steps count.
LEMMA RouteNames == "vote" \in Routes /\ "reveal" \in Routes /\ "blinded" \in Routes /\ "ranked" \in Routes
BY DEF Routes

\* A step about one voter.
LEMMA OneVoter ==
  ASSUME BallotInv, NEW v \in Voters, BallotTyped', VoterSound(v)', phase' = phase, commitPhases' = commitPhases,
         \A u \in Voters : u # v => VoterLeft(u)
  PROVE  BallotInv'
<1>1. ASSUME NEW u \in Voters PROVE VoterSound(u)'
  <2>1. CASE u = v BY <2>1
  <2>2. CASE u # v
    <3>1. VoterSound(u) BY VoterFacts
    <3>2. QED BY <2>2, <3>1, VoterKept
  <2>3. QED BY <2>1, <2>2
<1>2. QED BY <1>1 DEF BallotInv, VoterSound

\* v is counted on route r.
LEMMA Credited ==
  ASSUME BallotTyped, NEW v \in Voters, NEW r \in Routes, Credit(v, r)
  PROVE  /\ cast' \in [Voters -> [Routes -> Nat]] /\ cast'[v][r] = cast[v][r] + 1
         /\ \A z \in Routes : z # r => cast'[v][z] = cast[v][z]
         /\ \A u \in Voters : u # v => cast'[u] = cast[u]
         /\ phase' = phase /\ commitPhases' = commitPhases
<1>1. cast' = [cast EXCEPT ![v][r] = @ + 1] /\ phase' = phase /\ commitPhases' = commitPhases BY DEF Credit
<1>2. cast \in [Voters -> [Routes -> Nat]] BY DEF BallotTyped
<1>3. cast' \in [Voters -> [Routes -> Nat]]
  <2>1. cast[v][r] + 1 \in Nat BY <1>2
  <2>2. QED BY <1>1, <1>2, <2>1
<1>4. QED BY <1>1, <1>2, <1>3

\* vote marks the voter as having voted.
LEMMA CastVoteStep ==
  ASSUME BallotInv, NEW v \in Voters, NEW i \in ChoiceIndices, CastVote(v, i)
  PROVE  BallotInv'
<1>1. /\ BallotTyped /\ VoterSound(v) /\ \A r \in Routes : cast[v][r] \in Nat
      /\ commitPhases \in Nat BY VoterFacts
<1>2. /\ v \notin hasVoted /\ hasVoted' = hasVoted \cup {v} /\ UNCHANGED <<commitments, hashes, ranked>> /\ Credit(v, "vote")
  BY DEF CastVote
<1>3. /\ cast' \in [Voters -> [Routes -> Nat]] /\ cast'[v]["vote"] = cast[v]["vote"] + 1
      /\ \A z \in Routes : z # "vote" => cast'[v][z] = cast[v][z]
      /\ \A u \in Voters : u # v => cast'[u] = cast[u]
      /\ phase' = phase /\ commitPhases' = commitPhases
  BY <1>1, <1>2, RouteNames, Credited
<1>4. BallotTyped' BY <1>1, <1>2, <1>3 DEF BallotTyped
<1>5. cast'[v]["reveal"] = cast[v]["reveal"] /\ cast'[v]["blinded"] = cast[v]["blinded"] /\ cast'[v]["ranked"] = cast[v]["ranked"]
  BY <1>3, RouteNames
<1>6. CountedOnce(v)' BY <1>1, <1>2, <1>3, <1>5 DEF VoterSound, CountedOnce
<1>7. BlindedOnce(v)' BY <1>1, <1>2, <1>5 DEF VoterSound, BlindedOnce, PendingAt
<1>8. RevealedOnce(v)' BY <1>1, <1>2, <1>3, <1>5 DEF VoterSound, RevealedOnce, PendingAt
<1>9. VoterSound(v)' BY <1>6, <1>7, <1>8 DEF VoterSound
<1>10. \A u \in Voters : u # v => VoterLeft(u) BY <1>2, <1>3 DEF VoterLeft
<1>11. QED BY <1>3, <1>4, <1>9, <1>10, OneVoter

\* vote_ranked marks the voter under a key of its own.
LEMMA RankedStep ==
  ASSUME BallotInv, NEW v \in Voters, NEW list, VoteRanked(v, list)
  PROVE  BallotInv'
<1>1. /\ BallotTyped /\ VoterSound(v) /\ \A r \in Routes : cast[v][r] \in Nat
      /\ commitPhases \in Nat BY VoterFacts
<1>2. /\ v \notin ranked /\ ranked' = ranked \cup {v} /\ UNCHANGED <<commitments, hashes, hasVoted>> /\ Credit(v, "ranked")
  BY DEF VoteRanked
<1>3. /\ cast' \in [Voters -> [Routes -> Nat]] /\ cast'[v]["ranked"] = cast[v]["ranked"] + 1
      /\ \A z \in Routes : z # "ranked" => cast'[v][z] = cast[v][z]
      /\ \A u \in Voters : u # v => cast'[u] = cast[u]
      /\ phase' = phase /\ commitPhases' = commitPhases
  BY <1>1, <1>2, RouteNames, Credited
<1>4. BallotTyped' BY <1>1, <1>2, <1>3 DEF BallotTyped
<1>5. cast'[v]["reveal"] = cast[v]["reveal"] /\ cast'[v]["blinded"] = cast[v]["blinded"] /\ cast'[v]["vote"] = cast[v]["vote"]
  BY <1>3, RouteNames
<1>6. CountedOnce(v)' BY <1>1, <1>2, <1>3, <1>5 DEF VoterSound, CountedOnce
<1>7. BlindedOnce(v)' BY <1>1, <1>2, <1>5 DEF VoterSound, BlindedOnce, PendingAt
<1>8. RevealedOnce(v)' BY <1>1, <1>2, <1>3, <1>5 DEF VoterSound, RevealedOnce, PendingAt
<1>9. VoterSound(v)' BY <1>6, <1>7, <1>8 DEF VoterSound
<1>10. \A u \in Voters : u # v => VoterLeft(u) BY <1>2, <1>3 DEF VoterLeft
<1>11. QED BY <1>3, <1>4, <1>9, <1>10, OneVoter

\* reveal_vote consumes the commitment, and leaves a hash it was filed under alone.
LEMMA RevealStep ==
  ASSUME BallotInv, NEW v \in Voters, RevealVote(v)
  PROVE  BallotInv'
<1>1. /\ BallotTyped /\ VoterSound(v) /\ \A r \in Routes : cast[v][r] \in Nat
      /\ commitPhases \in Nat BY VoterFacts
<1>2. /\ phase = "reveal" /\ commitments[v] # Unset /\ commitments' = [commitments EXCEPT ![v] = Unset]
      /\ UNCHANGED <<hasVoted, hashes, ranked>> /\ Credit(v, "reveal")
  BY DEF RevealVote
<1>3. /\ cast' \in [Voters -> [Routes -> Nat]] /\ cast'[v]["reveal"] = cast[v]["reveal"] + 1
      /\ \A z \in Routes : z # "reveal" => cast'[v][z] = cast[v][z]
      /\ \A u \in Voters : u # v => cast'[u] = cast[u]
      /\ phase' = phase /\ commitPhases' = commitPhases
  BY <1>1, <1>2, RouteNames, Credited
<1>4. commitments' \in [Voters -> Commitments \cup {Unset}] /\ commitments'[v] = Unset
      /\ \A u \in Voters : u # v => commitments'[u] = commitments[u]
  BY <1>1, <1>2 DEF BallotTyped
<1>5. BallotTyped' BY <1>1, <1>2, <1>3, <1>4 DEF BallotTyped
<1>6. cast'[v]["ranked"] = cast[v]["ranked"] /\ cast'[v]["blinded"] = cast[v]["blinded"] /\ cast'[v]["vote"] = cast[v]["vote"]
  BY <1>3, RouteNames
<1>7. CountedOnce(v)' BY <1>1, <1>2, <1>6 DEF VoterSound, CountedOnce
<1>a. PendingAt(v) = 1 /\ PendingAt(v)' = 0 BY <1>2, <1>4 DEF PendingAt
<1>8. BlindedOnce(v)'
  <2>1. IsFiniteSet(hashes[v]) /\ cast[v]["blinded"] + Cardinality(hashes[v]) <= cast[v]["reveal"] + 1
    BY <1>1, <1>a DEF VoterSound, BlindedOnce
  <2>2. cast[v]["reveal"] \in Nat BY <1>1, RouteNames
  <2>3. cast'[v]["blinded"] + Cardinality(hashes'[v]) <= cast'[v]["reveal"] + 0 BY <1>2, <1>3, <1>6, <2>1, <2>2
  <2>4. QED BY <1>2, <1>a, <2>1, <2>3 DEF BlindedOnce
<1>9. RevealedOnce(v)'
  <2>1. cast[v]["reveal"] + 1 <= commitPhases /\ cast[v]["reveal"] \in Nat BY <1>1, <1>a, RouteNames DEF VoterSound, RevealedOnce
  <2>2. cast'[v]["reveal"] + 0 <= commitPhases' BY <1>1, <1>3, <2>1
  <2>3. phase' # "commit" BY <1>2, <1>3
  <2>4. QED BY <1>a, <2>2, <2>3 DEF RevealedOnce
<1>10. VoterSound(v)' BY <1>7, <1>8, <1>9 DEF VoterSound
<1>11. \A u \in Voters : u # v => VoterLeft(u) BY <1>2, <1>3, <1>4 DEF VoterLeft
<1>12. QED BY <1>3, <1>5, <1>10, <1>11, OneVoter

\* A blinded reveal consumes the hash.
LEMMA BlindedRevealStep ==
  ASSUME BallotInv, NEW v \in Voters, NEW h, RevealVoteBlinded(v, h)
  PROVE  BallotInv'
<1>1. /\ BallotTyped /\ VoterSound(v) /\ \A r \in Routes : cast[v][r] \in Nat
      /\ commitPhases \in Nat BY VoterFacts
<1>2. /\ h \in hashes[v] /\ hashes' = [hashes EXCEPT ![v] = @ \ {h}]
      /\ UNCHANGED <<hasVoted, commitments, ranked>> /\ Credit(v, "blinded")
  BY DEF RevealVoteBlinded
<1>h. /\ hashes' \in [Voters -> SUBSET (Nat \X ChoiceIndices)] /\ hashes'[v] = hashes[v] \ {h}
      /\ \A u \in Voters : u # v => hashes'[u] = hashes[u]
  BY <1>1, <1>2 DEF BallotTyped
<1>3. /\ cast' \in [Voters -> [Routes -> Nat]] /\ cast'[v]["blinded"] = cast[v]["blinded"] + 1
      /\ \A z \in Routes : z # "blinded" => cast'[v][z] = cast[v][z]
      /\ \A u \in Voters : u # v => cast'[u] = cast[u]
      /\ phase' = phase /\ commitPhases' = commitPhases
  BY <1>1, <1>2, RouteNames, Credited
<1>4. BallotTyped' BY <1>1, <1>2, <1>3, <1>h DEF BallotTyped
<1>5. cast'[v]["ranked"] = cast[v]["ranked"] /\ cast'[v]["reveal"] = cast[v]["reveal"] /\ cast'[v]["vote"] = cast[v]["vote"]
  BY <1>3, RouteNames
<1>6. CountedOnce(v)' BY <1>1, <1>2, <1>5 DEF VoterSound, CountedOnce
<1>7. BlindedOnce(v)'
  <2>1. /\ IsFiniteSet(hashes[v]) /\ Cardinality(hashes[v]) \in Nat
        /\ cast[v]["blinded"] + Cardinality(hashes[v]) <= cast[v]["reveal"] + PendingAt(v)
    BY <1>1, VoterFacts DEF VoterSound, BlindedOnce
  <2>2. IsFiniteSet(hashes[v] \ {h}) /\ Cardinality(hashes[v] \ {h}) = Cardinality(hashes[v]) - 1
    BY <1>2, <2>1, FS_RemoveElement
  <2>3. cast[v]["blinded"] \in Nat BY <1>1, RouteNames
  <2>4. cast'[v]["blinded"] + Cardinality(hashes'[v]) = cast[v]["blinded"] + Cardinality(hashes[v])
    <3>1. Cardinality(hashes'[v]) = Cardinality(hashes[v]) - 1 BY <1>h, <2>2
    <3>2. cast'[v]["blinded"] = cast[v]["blinded"] + 1 BY <1>3
    <3>3. QED BY <2>1, <2>3, <3>1, <3>2
  <2>5. PendingAt(v)' = PendingAt(v) BY <1>2 DEF PendingAt
  <2>6. QED BY <1>5, <1>h, <2>1, <2>2, <2>4, <2>5 DEF BlindedOnce
<1>8. RevealedOnce(v)' BY <1>1, <1>2, <1>3, <1>5 DEF VoterSound, RevealedOnce, PendingAt
<1>9. VoterSound(v)' BY <1>6, <1>7, <1>8 DEF VoterSound
<1>10. \A u \in Voters : u # v => VoterLeft(u) BY <1>2, <1>3, <1>h DEF VoterLeft
<1>11. QED BY <1>3, <1>4, <1>9, <1>10, OneVoter

\* A commitment gives the voter one more to reveal, if it has none.
LEMMA CommitStep ==
  ASSUME BallotInv, NEW v \in Voters, NEW c \in Hidden, CommitVote(v, c) \/ CommitVoteBlinded(v, c)
  PROVE  BallotInv'
<1>1. /\ BallotTyped /\ VoterSound(v) /\ \A r \in Routes : cast[v][r] \in Nat
      /\ commitPhases \in Nat BY VoterFacts
<1>2. /\ phase = "commit" /\ commitments[v] = Unset
      /\ commitments' = [commitments EXCEPT ![v] = c]
      /\ UNCHANGED <<hasVoted, ranked, cast, phase, commitPhases>>
  BY DEF CommitVote, CommitVoteBlinded
<1>3. c \in Commitments /\ c # Unset BY BallotAssumption
<1>4. /\ IsFiniteSet(hashes[v]) /\ Cardinality(hashes[v]) \in Nat
      /\ cast[v]["blinded"] + Cardinality(hashes[v]) <= cast[v]["reveal"] + PendingAt(v)
  BY <1>1, VoterFacts DEF VoterSound, BlindedOnce
<1>5. /\ hashes' \in [Voters -> SUBSET (Nat \X ChoiceIndices)]
      /\ \A u \in Voters : u # v => hashes'[u] = hashes[u]
      /\ IsFiniteSet(hashes'[v]) /\ Cardinality(hashes'[v]) \in Nat
      /\ Cardinality(hashes'[v]) <= Cardinality(hashes[v]) + 1
  <2>1. CASE hashes' = hashes BY <1>1, <1>4, <2>1 DEF BallotTyped
  <2>2. CASE hashes' # hashes
    <3> DEFINE e == <<commitPhases, c.blind>>
    <3>1. c.blind # Unset /\ hashes' = [hashes EXCEPT ![v] = @ \cup {e}]
      <4>1. CommitVoteBlinded(v, c) BY <2>2 DEF CommitVote
      <4>2. hashes' = [hashes EXCEPT ![v] = IF c.blind = Unset THEN @ ELSE @ \cup {e}]
        BY <4>1 DEF CommitVoteBlinded
      <4>3. ASSUME c.blind = Unset PROVE FALSE
        <5>1. hashes' = [hashes EXCEPT ![v] = @] BY <4>2, <4>3
        <5>2. QED BY <1>1, <2>2, <5>1 DEF BallotTyped
      <4>4. QED BY <4>2, <4>3
    <3>2. e \in Nat \X ChoiceIndices
      <4>1. c.blind \in ChoiceIndices BY <1>3, <3>1 DEF Commitments
      <4>2. QED BY <1>1, <4>1
    <3> HIDE DEF e
    <3>3. hashes' \in [Voters -> SUBSET (Nat \X ChoiceIndices)] /\ hashes'[v] = hashes[v] \cup {e}
          /\ \A u \in Voters : u # v => hashes'[u] = hashes[u]
      BY <1>1, <3>1, <3>2 DEF BallotTyped
    <3>4. /\ IsFiniteSet(hashes[v] \cup {e})
          /\ Cardinality(hashes[v] \cup {e}) = IF e \in hashes[v] THEN Cardinality(hashes[v]) ELSE Cardinality(hashes[v]) + 1
      BY <1>4, FS_AddElement
    <3>5. QED BY <1>4, <3>3, <3>4
  <2>3. QED BY <2>1, <2>2
<1>6. PendingAt(v) = 0 BY <1>2 DEF PendingAt
<1>7. commitments' \in [Voters -> Commitments \cup {Unset}] /\ commitments'[v] = c
      /\ \A u \in Voters : u # v => commitments'[u] = commitments[u]
  BY <1>1, <1>2, <1>3 DEF BallotTyped
<1>8. BallotTyped' BY <1>1, <1>2, <1>5, <1>7 DEF BallotTyped
<1>9. CountedOnce(v)' BY <1>1, <1>2 DEF VoterSound, CountedOnce
<1>10. PendingAt(v)' = 1 BY <1>3, <1>7 DEF PendingAt
<1>11. BlindedOnce(v)'
  <2>1. cast[v]["blinded"] \in Nat /\ cast[v]["reveal"] \in Nat BY <1>1, RouteNames
  <2>2. cast'[v]["blinded"] + Cardinality(hashes'[v]) <= cast'[v]["reveal"] + 1
    BY <1>2, <1>4, <1>5, <1>6, <2>1
  <2>3. QED BY <1>5, <1>10, <2>2 DEF BlindedOnce
<1>12. RevealedOnce(v)'
  <2>1. cast[v]["reveal"] + 1 <= commitPhases BY <1>1, <1>2 DEF VoterSound, RevealedOnce
  <2>2. QED BY <1>2, <1>10, <2>1 DEF RevealedOnce
<1>13. VoterSound(v)' BY <1>9, <1>11, <1>12 DEF VoterSound
<1>14. \A u \in Voters : u # v => VoterLeft(u) BY <1>2, <1>5, <1>7 DEF VoterLeft
<1>15. QED BY <1>2, <1>8, <1>13, <1>14, OneVoter

\* A new commit phase lets every voter commit once more.
LEMMA PhaseStep ==
  ASSUME BallotInv, StartCommitPhase
  PROVE  BallotInv'
<1>1. commitPhases' = commitPhases + 1 /\ UNCHANGED <<cast, commitments, hashes, hasVoted, ranked>> BY DEF StartCommitPhase
<1>2. BallotTyped /\ commitPhases \in Nat BY DEF BallotInv, BallotTyped
<1>3. BallotTyped' BY <1>1, <1>2 DEF BallotTyped
<1>4. ASSUME NEW v \in Voters PROVE VoterSound(v)'
  <2>1. VoterSound(v) /\ \A r \in Routes : cast[v][r] \in Nat BY VoterFacts
  <2>2. CountedOnce(v)' BY <1>1, <2>1 DEF VoterSound, CountedOnce
  <2>4. PendingAt(v)' = PendingAt(v) /\ PendingAt(v) \in {0, 1} BY <1>1 DEF PendingAt
  <2>3. BlindedOnce(v)' BY <1>1, <2>1, <2>4 DEF VoterSound, BlindedOnce
  <2>5. cast[v]["reveal"] \in Nat /\ cast[v]["reveal"] + PendingAt(v) <= commitPhases
    BY <2>1, RouteNames DEF VoterSound, RevealedOnce
  <2>6. cast'[v]["reveal"] + PendingAt(v)' <= commitPhases' /\ cast'[v]["reveal"] + 1 <= commitPhases'
    BY <1>1, <1>2, <2>4, <2>5
  <2>7. RevealedOnce(v)' BY <2>6 DEF RevealedOnce
  <2>8. QED BY <2>2, <2>3, <2>7 DEF VoterSound
<1>5. QED BY <1>3, <1>4 DEF BallotInv, VoterSound

\* Steps that count nobody.
LEMMA BallotIdleStep ==
  ASSUME BallotInv, UNCHANGED <<cast, commitments, hashes, hasVoted, ranked, commitPhases>>, phase' = phase \/ phase' = "reveal"
  PROVE  BallotInv'
<1>1. BallotTyped BY DEF BallotInv
<1>2. BallotTyped' BY <1>1 DEF BallotTyped
<1>3. ASSUME NEW v \in Voters PROVE VoterSound(v)'
  <2>1. VoterSound(v) BY VoterFacts
  <2>2. VoterLeft(v) BY DEF VoterLeft
  <2>3. QED BY <2>1, <2>2, VoterKept
<1>4. QED BY <1>2, <1>3 DEF BallotInv, VoterSound

\* The invariant holds in every reachable state.
LEMMA BallotInvariant == BallotSpec => []BallotInv
<1>1. BallotInit => BallotInv
  <2> SUFFICES ASSUME BallotInit PROVE BallotInv
    OBVIOUS
  <2>1. /\ cast = [v \in Voters |-> [r \in Routes |-> 0]] /\ commitPhases = 0 /\ phase = "none" /\ hashes = [v \in Voters |-> {}]
        /\ commitments = [v \in Voters |-> Unset]
    BY DEF BallotInit
  <2>2. BallotTyped BY <2>1 DEF BallotTyped
  <2>3. ASSUME NEW v \in Voters PROVE VoterSound(v)
    <3>1. cast[v]["vote"] = 0 /\ cast[v]["reveal"] = 0 /\ cast[v]["blinded"] = 0 /\ cast[v]["ranked"] = 0 BY <2>1, RouteNames
    <3>2. PendingAt(v) = 0 /\ hashes[v] = {} BY <2>1 DEF PendingAt
    <3>4. IsFiniteSet(hashes[v]) /\ Cardinality(hashes[v]) = 0 BY <3>2, FS_EmptySet
    <3>3. QED BY <2>1, <3>1, <3>2, <3>4 DEF VoterSound, CountedOnce, BlindedOnce, RevealedOnce
  <2>4. QED BY <2>2, <2>3 DEF BallotInv, VoterSound
<1>2. BallotInv /\ [BallotNext]_ballotVars => BallotInv'
  <2> SUFFICES ASSUME BallotInv, [BallotNext]_ballotVars PROVE BallotInv'
    OBVIOUS
  <2>1. ASSUME NEW v \in Voters, NEW w, DeregisterVoter(v) \/ RegisterVoter(v, w) PROVE BallotInv'
    BY <2>1, BallotIdleStep DEF DeregisterVoter, RegisterVoter
  <2>2. ASSUME NEW v \in Voters, NEW i \in ChoiceIndices, CastVote(v, i) PROVE BallotInv' BY <2>2, CastVoteStep
  <2>c. ASSUME NEW v \in Voters, NEW c \in Hidden, CommitVote(v, c) \/ CommitVoteBlinded(v, c) PROVE BallotInv'
    BY <2>c, CommitStep
  <2>3. ASSUME NEW v \in Voters, NEW h, RevealVote(v) \/ RevealVoteBlinded(v, h) PROVE BallotInv'
    BY <2>3, RevealStep, BlindedRevealStep
  <2>4. ASSUME NEW v \in Voters, NEW list, VoteRanked(v, list) PROVE BallotInv' BY <2>4, RankedStep
  <2>5. CASE StartCommitPhase BY <2>5, PhaseStep
  <2>6. ASSUME NEW t, NEW i, AnnounceBallot \/ CloseTally \/ StartRevealPhase \/ CertifyResults \/ SetTieBreaker(t) \/ ResolveTie(i)
        PROVE  BallotInv'
    BY <2>6, BallotIdleStep DEF AnnounceBallot, CloseTally, StartRevealPhase, CertifyResults, SetTieBreaker, ResolveTie
  <2>7. CASE UNCHANGED ballotOnlyVars BY <2>7, BallotIdleStep DEF ballotOnlyVars
  <2>8. UNCHANGED ballotVars => UNCHANGED ballotOnlyVars BY DEF ballotVars
  <2>9. QED BY <2>1, <2>2, <2>c, <2>3, <2>4, <2>5, <2>6, <2>7, <2>8 DEF BallotNext
<1>3. QED BY <1>1, <1>2, PTL DEF BallotSpec

\* vote and vote_ranked count a voter once, reveal_vote once per commit phase and
\* reveal_vote_blinded once per commitment (RoutesCountOnce), although one commitment
\* may be opened both ways: what was counted and what is still to be opened never
\* exceed the commitments the phases have allowed.
THEOREM EachRouteCountsOnce == BallotSpec => []RoutesCountOnce
<1>1. BallotInv => RoutesCountOnce
  <2> SUFFICES ASSUME BallotInv, NEW v \in Voters
               PROVE  /\ cast[v]["vote"] <= 1 /\ cast[v]["ranked"] <= 1
                      /\ cast[v]["reveal"] <= commitPhases /\ cast[v]["blinded"] <= commitPhases
                      /\ cast[v]["blinded"] <= cast[v]["reveal"] + 1
    BY DEF RoutesCountOnce
  <2>1. /\ VoterSound(v) /\ (\A r \in Routes : cast[v][r] \in Nat) /\ commitPhases \in Nat
        /\ PendingAt(v) \in {0, 1} /\ Cardinality(hashes[v]) \in Nat
    BY VoterFacts
  <2>2. cast[v]["vote"] <= 1 /\ cast[v]["ranked"] <= 1 BY <2>1 DEF VoterSound, CountedOnce
  <2>3. /\ cast[v]["blinded"] \in Nat /\ cast[v]["reveal"] \in Nat
        /\ cast[v]["blinded"] + Cardinality(hashes[v]) <= cast[v]["reveal"] + PendingAt(v)
        /\ cast[v]["reveal"] + PendingAt(v) <= commitPhases
    BY <2>1, RouteNames DEF VoterSound, BlindedOnce, RevealedOnce
  <2>4. QED BY <2>1, <2>2, <2>3
<1>2. QED BY <1>1, BallotInvariant, PTL

\* What the counts are made of.
CountsTyped ==
  /\ ballot \in Ballots /\ weightOf \in [Voters -> Int] /\ choiceVotes \in [ChoiceIndices -> Int]
  /\ commitments \in [Voters -> Commitments \cup {Unset}]

\* Weights, counts and commitments keep their types.
LEMMA CountsStep ==
  ASSUME BallotInv, CountsTyped, [BallotNext]_ballotVars
  PROVE  CountsTyped'
<1>1. /\ ballot \in Ballots /\ weightOf \in [Voters -> Int] /\ choiceVotes \in [ChoiceIndices -> Int]
      /\ commitments \in [Voters -> Commitments \cup {Unset}]
  BY DEF CountsTyped
<1>2. ASSUME NEW i \in ChoiceIndices, NEW w \in Int, RecordChoice(i, w) PROVE choiceVotes' \in [ChoiceIndices -> Int]
  BY <1>1, <1>2 DEF RecordChoice
<1>3. ASSUME NEW v \in Voters, NEW i \in ChoiceIndices, CastVote(v, i) PROVE CountsTyped'
  <2>1. weightOf[v] \in Int /\ RecordChoice(i, weightOf[v]) /\ Credit(v, "vote") /\ commitments' = commitments
    BY <1>1, <1>3 DEF CastVote
  <2>2. choiceVotes' \in [ChoiceIndices -> Int] BY <1>2, <2>1
  <2>3. QED BY <1>1, <2>1, <2>2 DEF CountsTyped, Credit
<1>5. ASSUME NEW v \in Voters, RevealVote(v) PROVE CountsTyped'
  <2>1. /\ commitments[v] # Unset /\ commitments[v].open # Unset
        /\ RecordChoice(commitments[v].open, weightOf[v]) /\ Credit(v, "reveal")
        /\ commitments' = [commitments EXCEPT ![v] = Unset]
    BY <1>5 DEF RevealVote
  <2>2. weightOf[v] \in Int /\ commitments[v].open \in ChoiceIndices BY <1>1, <2>1 DEF Commitments
  <2>3. choiceVotes' \in [ChoiceIndices -> Int] BY <1>2, <2>1, <2>2
  <2>4. commitments' \in [Voters -> Commitments \cup {Unset}] BY <1>1, <2>1
  <2>5. QED BY <1>1, <2>1, <2>3, <2>4 DEF CountsTyped, Credit
<1>6. ASSUME NEW v \in Voters, NEW h, RevealVoteBlinded(v, h) PROVE CountsTyped'
  <2>1. h \in hashes[v] /\ RecordChoice(h[2], 1) /\ Credit(v, "blinded") /\ commitments' = commitments
    BY <1>6 DEF RevealVoteBlinded
  <2>2. h[2] \in ChoiceIndices BY <2>1 DEF BallotInv, BallotTyped
  <2>3. choiceVotes' \in [ChoiceIndices -> Int] BY <1>2, <2>1, <2>2
  <2>4. QED BY <1>1, <2>1, <2>3 DEF CountsTyped, Credit
<1>7. ASSUME NEW v \in Voters, NEW c \in Hidden, CommitVote(v, c) \/ CommitVoteBlinded(v, c) PROVE CountsTyped'
  <2>1. c \in Commitments BY BallotAssumption
  <2>2. commitments' = [commitments EXCEPT ![v] = c] /\ UNCHANGED <<ballot, weightOf, choiceVotes>>
    BY <1>7 DEF CommitVote, CommitVoteBlinded
  <2>3. commitments' \in [Voters -> Commitments \cup {Unset}] BY <1>1, <2>1, <2>2
  <2>4. QED BY <1>1, <2>2, <2>3 DEF CountsTyped
<1>8. ASSUME NEW v \in Voters, NEW w \in VoterWeights, RegisterVoter(v, w) PROVE CountsTyped'
  <2>1. w \in Int
    <3>1. w \in Nat BY BallotAssumption
    <3>2. QED BY <3>1
  <2>2. weightOf' \in [Voters -> Int] /\ UNCHANGED <<ballot, choiceVotes, commitments>> BY <1>1, <1>8, <2>1 DEF RegisterVoter
  <2>3. QED BY <1>1, <2>2 DEF CountsTyped
<1>9. ASSUME NEW v, NEW list, NEW t, NEW i,
             \/ DeregisterVoter(v) \/ VoteRanked(v, list) \/ AnnounceBallot \/ CloseTally \/ StartRevealPhase
             \/ StartCommitPhase \/ CertifyResults \/ SetTieBreaker(t) \/ ResolveTie(i) \/ UNCHANGED ballotOnlyVars
      PROVE  CountsTyped'
  <2>1. UNCHANGED <<ballot, weightOf, choiceVotes, commitments>>
    BY <1>9 DEF DeregisterVoter, VoteRanked, Credit, AnnounceBallot, CloseTally, StartRevealPhase, StartCommitPhase,
       CertifyResults, SetTieBreaker, ResolveTie, ballotOnlyVars
  <2>2. QED BY <1>1, <2>1 DEF CountsTyped
<1>10. UNCHANGED ballotVars => UNCHANGED ballotOnlyVars BY DEF ballotVars
<1>11. QED BY <1>3, <1>5, <1>6, <1>7, <1>8, <1>9, <1>10 DEF BallotNext

\* The leading choices lead, and are one or several.
LEMMA TiedLead ==
  ASSUME CountsTyped
  PROVE  /\ IsFiniteSet(TiedChoices) /\ TiedChoices \subseteq Nat
         /\ \A c \in TiedChoices : choiceVotes[c] > 0 /\ \A i \in 0..(ballot.choices - 1) : choiceVotes[i] <= choiceVotes[c]
         /\ \A c \in TiedChoices, i \in 0..(ballot.choices - 1) : choiceVotes[i] = choiceVotes[c] => i \in TiedChoices
<1> DEFINE R == 0..(ballot.choices - 1)
           V == {choiceVotes[i] : i \in R}
           most == Max(V)
           f == [i \in R |-> choiceVotes[i]]
<1>1. ballot.choices \in 0..MaxChoices /\ MaxChoices \in Nat BY BallotAssumption DEF CountsTyped
<1>2. IsFiniteSet(R) /\ R \subseteq Nat /\ R \subseteq ChoiceIndices
  <2>1. ballot.choices - 1 \in Int BY <1>1
  <2>2. IsFiniteSet(R) BY <2>1, FS_Interval
  <2>3. R \subseteq Nat /\ R \subseteq ChoiceIndices BY <1>1 DEF ChoiceIndices
  <2>4. QED BY <2>2, <2>3
<1>3. \A i \in R : choiceVotes[i] \in Int BY <1>2 DEF CountsTyped
<1>4. TiedChoices = {i \in R : choiceVotes[i] = most /\ most > 0} BY DEF TiedChoices
<1>5. V \in SUBSET Int BY <1>3
<1>6. f \in Surjection(R, V) BY DEF Surjection
<1> HIDE DEF f, R
<1>7. IsFiniteSet(V) BY <1>2, <1>6, FS_Surjection
<1>8. \A i \in R : choiceVotes[i] \in V OBVIOUS
<1> HIDE DEF V
<1>9. ASSUME V # {} PROVE most \in V /\ \A y \in V : most >= y
  <2>1. \E x \in V : \A y \in V : x >= y BY <1>5, <1>7, <1>9, TopExists
  <2>2. QED BY <2>1 DEF Max
<1>10. ASSUME NEW c \in TiedChoices
       PROVE  choiceVotes[c] = most /\ most > 0 /\ \A i \in R : choiceVotes[i] <= choiceVotes[c]
  <2>1. c \in R /\ choiceVotes[c] = most /\ most > 0 BY <1>4, <1>10
  <2>2. V # {} BY <1>8, <2>1
  <2>3. \A i \in R : most >= choiceVotes[i] BY <1>8, <1>9, <2>2
  <2>4. QED BY <1>3, <2>1, <2>3
<1>11. IsFiniteSet(TiedChoices) /\ TiedChoices \subseteq Nat
  <2>1. TiedChoices \subseteq R BY <1>4
  <2>2. QED BY <1>2, <2>1, FS_Subset
<1>12. \A c \in TiedChoices, i \in R : choiceVotes[i] = choiceVotes[c] => i \in TiedChoices BY <1>4, <1>10
<1>13. QED BY <1>10, <1>11, <1>12 DEF R

\* A certified winner led the closed count, alone or by the admin's decision between
\* the leaders (CertifiedLeads), and is never replaced.
THEOREM CertifiedWinnerLeads == BallotSpec => CertifiedLeads
<1> DEFINE Move ==
      certified' # certified =>
         /\ certified = Unset /\ now > ballot.end /\ totalVotes >= ballot.quorum
         /\ choiceVotes[certified'] > 0
         /\ \A i \in 0..(ballot.choices - 1) : choiceVotes[i] <= choiceVotes[certified']
         /\ (\E i \in 0..(ballot.choices - 1) \ {certified'} : choiceVotes[i] = choiceVotes[certified'])
               => tieBreaker = "AdminDecidingVote"
<1>1. BallotInit => CountsTyped
  <2> SUFFICES ASSUME BallotInit PROVE CountsTyped
    OBVIOUS
  <2>1. /\ ballot \in Ballots /\ weightOf = [v \in Voters |-> 1] /\ choiceVotes = [i \in ChoiceIndices |-> 0]
        /\ commitments = [v \in Voters |-> Unset]
    BY DEF BallotInit
  <2>2. QED BY <2>1 DEF CountsTyped
<1>2. BallotInv /\ CountsTyped /\ [BallotNext]_ballotVars => CountsTyped' BY CountsStep
<1>3. CountsTyped /\ [BallotNext]_ballotVars => Move
  <2> SUFFICES ASSUME CountsTyped, [BallotNext]_ballotVars, certified' # certified
               PROVE  /\ certified = Unset /\ now > ballot.end /\ totalVotes >= ballot.quorum
                      /\ choiceVotes[certified'] > 0
                      /\ \A i \in 0..(ballot.choices - 1) : choiceVotes[i] <= choiceVotes[certified']
                      /\ (\E i \in 0..(ballot.choices - 1) \ {certified'} : choiceVotes[i] = choiceVotes[certified'])
                            => tieBreaker = "AdminDecidingVote"
    OBVIOUS
  <2>1. CertifyResults
    <3>1. ASSUME NEW v, NEW i, NEW w, NEW list, NEW t,
                 \/ DeregisterVoter(v) \/ RegisterVoter(v, w) \/ CommitVote(v, i) \/ CommitVoteBlinded(v, i)
                 \/ AnnounceBallot \/ CloseTally \/ StartRevealPhase \/ StartCommitPhase \/ SetTieBreaker(t) \/ ResolveTie(i)
                 \/ UNCHANGED ballotOnlyVars
          PROVE  certified' = certified
      BY <3>1 DEF DeregisterVoter, RegisterVoter, CommitVote, CommitVoteBlinded, AnnounceBallot, CloseTally, StartRevealPhase,
         StartCommitPhase, SetTieBreaker, ResolveTie, ballotOnlyVars
    <3>2. ASSUME NEW v, NEW i, NEW list, NEW h, CastVote(v, i) \/ RevealVote(v) \/ RevealVoteBlinded(v, h) \/ VoteRanked(v, list)
          PROVE  certified' = certified
      BY <3>2 DEF CastVote, RevealVote, RevealVoteBlinded, VoteRanked, Credit
    <3>3. UNCHANGED ballotVars => UNCHANGED ballotOnlyVars BY DEF ballotVars
    <3>4. QED BY <3>1, <3>2, <3>3 DEF BallotNext
  <2>2. /\ certified = Unset /\ now > ballot.end /\ totalVotes >= ballot.quorum /\ Winner # Unset /\ certified' = Winner
    BY <2>1 DEF CertifyResults, WindowClosed
  <2>3. /\ IsFiniteSet(TiedChoices) /\ TiedChoices \subseteq Nat
        /\ \A c \in TiedChoices : choiceVotes[c] > 0 /\ \A i \in 0..(ballot.choices - 1) : choiceVotes[i] <= choiceVotes[c]
        /\ \A c \in TiedChoices, i \in 0..(ballot.choices - 1) : choiceVotes[i] = choiceVotes[c] => i \in TiedChoices
    BY TiedLead
  <2>4. ASSUME Cardinality(TiedChoices) = 1 PROVE TiedChoices = {Winner}
    <3>1. PICK x : TiedChoices = {x} BY <2>3, <2>4, FS_Singleton
    <3>2. x \in Nat BY <2>3, <3>1
    <3>3. Max(TiedChoices) = x BY <3>1, <3>2 DEF Max
    <3>4. QED BY <2>4, <3>1, <3>3 DEF Winner
  <2>5. Winner \in TiedChoices BY <2>2, <2>4 DEF Winner
  <2>6. Cardinality(TiedChoices) # 1 => tieBreaker = "AdminDecidingVote" BY <2>2 DEF Winner
  <2>7. (\E i \in 0..(ballot.choices - 1) \ {certified'} : choiceVotes[i] = choiceVotes[certified'])
          => tieBreaker = "AdminDecidingVote"
    BY <2>2, <2>3, <2>4, <2>5, <2>6
  <2>8. QED BY <2>2, <2>3, <2>5, <2>7
<1>4. CertifiedLeads <=> [][Move]_ballotVars BY DEF CertifiedLeads
<1>5. QED BY <1>1, <1>2, <1>3, <1>4, BallotInvariant, PTL DEF BallotSpec
====
