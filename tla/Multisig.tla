---- MODULE Multisig ----
(***************************************************************************)
(* The multisignature wallet (contracts/multisig): signers with weights    *)
(* propose calls, sign them, and anyone executes a proposal whose          *)
(* accumulated weight reaches the threshold before it expires.  The signer *)
(* set and the threshold change while proposals are open.                  *)
(*                                                                         *)
(* Weights are u32 and added with saturating_add; U32Max stands for the    *)
(* limit.  The called contract is external: an executed call either fails, *)
(* which rolls the whole invocation back, or happens once.                 *)
(***************************************************************************)
EXTENDS HostClock, Sequences, FiniteSets, Functions

CONSTANTS
    Addresses,     \* signers and candidates
    SignerLists,   \* candidate signer lists for initialize
    WeightMaps,    \* candidate weights: functions from some addresses to u32
    Approvals,     \* candidate lists of approving signers
    Thresholds,    \* candidate thresholds
    Lifetimes,     \* candidate expiry_ledgers
    Validities,    \* candidate MaxProposalValidityLedgers, Unlimited among them
    Unlimited,     \* the MaxProposalValidityLedgers key is absent
    Missing,       \* no proposal is stored under an id
    Batches,       \* candidate id lists for execute_batch
    MaxProposals,  \* bound: ids run from 0 to MaxProposals - 1
    U32Max

Ids == 0..(MaxProposals - 1)

\* signatures holds, for each address that signed, the weight it was counted with.
Proposals == [signatures : [Addresses -> 0..U32Max], weight : 0..U32Max,
              executed : BOOLEAN, expiry : Nat, created : Nat]

ASSUME MultisigAssumption ==
    /\ IsFiniteSet(Addresses)
    /\ SignerLists \subseteq Seq(Addresses) /\ Approvals \subseteq Seq(Addresses)
    /\ \A w \in WeightMaps : DOMAIN w \subseteq Addresses /\ Range(w) \subseteq 0..U32Max
    /\ Thresholds \subseteq Nat /\ Lifetimes \subseteq Nat
    /\ Missing \notin Proposals
    /\ Unlimited \notin Nat /\ Validities \subseteq Nat \cup {Unlimited}
    /\ MaxProposals \in Nat /\ U32Max \in Nat \ {0} /\ MaxLedger <= U32Max
    /\ Batches \subseteq Seq(Ids)

VARIABLES
    signers,    \* Signers key; empty while absent
    weights,    \* Weights key: 0 for an address without an entry
    threshold,  \* Threshold key
    validity,   \* MaxProposalValidityLedgers key
    nextId,     \* NextTransactionId key
    tx,         \* Transaction keys
    calls       \* how often the call of each proposal was made

multisigVars == <<now, signers, weights, threshold, validity, nextId, tx, calls>>

\* saturating_add on u32.
Saturated(x) == IF x > U32Max THEN U32Max ELSE x
SaturatedSum(f, S) == Saturated(SumFunctionOnSet(f, S))
WeightIn(w, a) == IF w[a] = 0 THEN 1 ELSE w[a]
TotalWeight(S, w) == SaturatedSum([a \in S |-> WeightIn(w, a)], S)
ValidThreshold(n, total) == n # 0 /\ n <= total

MultisigInit ==
    /\ now = 0
    /\ signers = {} /\ weights = [a \in Addresses |-> 0]
    /\ threshold = 0 /\ validity = Unlimited /\ nextId = 0
    /\ tx = [i \in Ids |-> Missing]
    /\ calls = [i \in Ids |-> 0]

\* Every listed signer authorizes.  Addresses given a weight need not be signers.
InitializeWallet(list, n, given, v) ==
    LET S == Range(list)
        w == [a \in Addresses |-> IF a \in DOMAIN given THEN given[a]
                                  ELSE IF a \in S THEN 1 ELSE 0]
    IN  /\ signers = {}
        /\ list # <<>> /\ IsInjective(list)
        /\ \A a \in DOMAIN given : given[a] # 0
        /\ ValidThreshold(n, TotalWeight(S, w))
        /\ signers' = S /\ weights' = w /\ threshold' = n /\ validity' = v
        /\ UNCHANGED <<now, nextId, tx, calls>>

\* require_threshold_approvals: distinct signers, together of enough weight.
Approved(ap) ==
    /\ ap # <<>> /\ IsInjective(ap)
    /\ Range(ap) \subseteq signers
    /\ TotalWeight(Range(ap), weights) >= threshold

AddSigner(ap, a, n) ==
    LET w == [weights EXCEPT ![a] = 1] IN
    /\ signers # {}
    /\ Approved(ap)
    /\ a \notin signers
    /\ ValidThreshold(n, TotalWeight(signers \cup {a}, w))
    /\ signers' = signers \cup {a} /\ weights' = w /\ threshold' = n
    /\ UNCHANGED <<now, validity, nextId, tx, calls>>

\* Mutant: the new threshold checked against the weight before the removal.
RemoveSignerStale(ap, a, n) ==
    /\ Approved(ap)
    /\ a \in signers /\ signers # {a}
    /\ ValidThreshold(n, TotalWeight(signers, weights))
    /\ signers' = signers \ {a} /\ weights' = [weights EXCEPT ![a] = 0] /\ threshold' = n
    /\ UNCHANGED <<now, validity, nextId, tx, calls>>

RemoveSigner(ap, a, n) ==
    LET w == [weights EXCEPT ![a] = 0] IN
    /\ signers # {}
    /\ Approved(ap)
    /\ a \in signers
    /\ signers # {a}
    /\ ValidThreshold(n, TotalWeight(signers \ {a}, w))
    /\ signers' = signers \ {a} /\ weights' = w /\ threshold' = n
    /\ UNCHANGED <<now, validity, nextId, tx, calls>>

----
(* Proposals.                                                              *)

\* A signer.  The proposer's signature is counted at once.
ProposeTransaction(a, life) ==
    LET w == WeightIn(weights, a) IN
    /\ a \in signers
    /\ validity # Unlimited => life <= validity
    /\ nextId \in Ids
    /\ tx' = [tx EXCEPT ![nextId] =
                [signatures |-> [b \in Addresses |-> IF b = a THEN w ELSE 0], weight |-> w,
                 executed |-> FALSE, expiry |-> Saturated(now + life), created |-> now]]
    /\ nextId' = nextId + 1
    /\ UNCHANGED <<now, signers, weights, threshold, validity, calls>>

\* The checks vote_phase and execute_phase share.
Pending(i) ==
    /\ tx[i] # Missing
    /\ ~tx[i].executed
    /\ now <= tx[i].expiry
    /\ validity # Unlimited => now - tx[i].created <= validity

\* Mutant: a signer may sign again.
SignTransactionTwice(a, i) ==
    LET w == WeightIn(weights, a) IN
    /\ a \in signers /\ Pending(i)
    /\ tx' = [tx EXCEPT ![i].signatures[a] = w, ![i].weight = Saturated(@ + w)]
    /\ UNCHANGED <<now, signers, weights, threshold, validity, nextId, calls>>

SignTransaction(a, i) ==
    LET w == WeightIn(weights, a) IN
    /\ a \in signers
    /\ Pending(i)
    /\ tx[i].signatures[a] = 0
    /\ tx' = [tx EXCEPT ![i].signatures[a] = w, ![i].weight = Saturated(@ + w)]
    /\ UNCHANGED <<now, signers, weights, threshold, validity, nextId, calls>>

\* Mutant: an executed proposal executes again.
ExecutableAgain(i) == tx[i] # Missing /\ now <= tx[i].expiry /\ tx[i].weight >= threshold

Executable(i) == Pending(i) /\ signers # {} /\ tx[i].weight >= threshold

Execute(S) ==
    /\ tx' = [i \in Ids |-> IF i \in S THEN [tx[i] EXCEPT !.executed = TRUE] ELSE tx[i]]
    /\ calls' = [i \in Ids |-> IF i \in S THEN calls[i] + 1 ELSE calls[i]]
    /\ UNCHANGED <<now, signers, weights, threshold, validity, nextId>>

\* Anyone: execute_transaction and its aliases.
ExecuteTransaction(i) == Executable(i) /\ Execute({i})

\* Anyone.  Ids that cannot execute are skipped, a repeated one because the first
\* attempt has marked it executed.
ExecuteBatch(ids) == Execute({i \in Range(ids) : Executable(i)})

\* Anyone.
CleanupExpired(i) ==
    /\ tx[i] # Missing
    /\ ~tx[i].executed
    /\ now > tx[i].expiry
    /\ tx' = [tx EXCEPT ![i] = Missing]
    /\ UNCHANGED <<now, signers, weights, threshold, validity, nextId, calls>>

MultisigTick == LedgerCloses /\ UNCHANGED <<signers, weights, threshold, validity, nextId, tx, calls>>

SignerStep ==
    \/ \E list \in SignerLists, n \in Thresholds, g \in WeightMaps, v \in Validities :
           InitializeWallet(list, n, g, v)
    \/ \E ap \in Approvals, a \in Addresses, n \in Thresholds :
           AddSigner(ap, a, n) \/ RemoveSigner(ap, a, n)

ProposalStep ==
    \/ \E a \in Addresses, life \in Lifetimes : ProposeTransaction(a, life)
    \/ \E a \in Addresses, i \in Ids : SignTransaction(a, i)
    \/ \E i \in Ids : ExecuteTransaction(i) \/ CleanupExpired(i)
    \/ \E ids \in Batches : ExecuteBatch(ids)

MultisigNext == SignerStep \/ ProposalStep \/ MultisigTick

MultisigSpec == MultisigInit /\ [][MultisigNext]_multisigVars

----
(* Properties.                                                             *)

\* Every key keeps its type.
MultisigTypeOK ==
    /\ now \in Nat
    /\ signers \subseteq Addresses
    /\ weights \in [Addresses -> 0..U32Max]
    /\ threshold \in Nat
    /\ validity \in Nat \cup {Unlimited}
    /\ nextId \in Nat
    /\ tx \in [Ids -> Proposals \cup {Missing}]
    /\ calls \in [Ids -> Nat]

\* However the signer set and the threshold change, all signers together can
\* still reach the threshold: the wallet never locks itself out.
ThresholdReachable == signers # {} => ValidThreshold(threshold, TotalWeight(signers, weights))

\* A proposal's call is made at most once, by single calls and batches in any
\* order, and a proposal whose call was made is never cleaned up, signed or
\* proposed over.
CalledOnce ==
    \A i \in Ids : /\ calls[i] <= 1
                   /\ calls[i] = 1 <=> (tx[i] # Missing /\ tx[i].executed)

\* A call is made only when distinct addresses, each counted once with the weight
\* it had when it signed, reach the threshold of the moment, and never after the
\* proposal's expiry.  Removing and re-adding a signer does not count it twice.
QuorumCalls ==
    [][\A i \in Ids : calls'[i] # calls[i] =>
          /\ SaturatedSum(tx[i].signatures, Addresses) >= threshold
          /\ now <= tx[i].expiry]_multisigVars
====
