---- MODULE Airdrop ----
(***************************************************************************)
(* The airdrop (contracts/airdrop): claims against a Merkle tree, singly   *)
(* or in a batch, part of each locked in a vesting schedule.               *)
(*                                                                         *)
(* The source holds two versions, one with tokens and vesting and one with *)
(* rounds; modelled is the first, whose functions are complete, with the   *)
(* set_root of the second for its only root.  A tree is the set of its     *)
(* leaves: a proof verifies exactly for a leaf of the tree.                *)
(***************************************************************************)
EXTENDS HostClock, SequencesExt, FiniteSetsExt

CONSTANTS
    Claimants,    \* addresses
    AirTokens,    \* tokens of the trees
    AirTrees,     \* candidate sets of leaves <<claimant, token, amount>>
    AirTerms,     \* candidate [deadline, liquid, duration]; liquid is a share of LiquidBase
    LiquidBase,   \* BPS_DENOMINATOR, 10_000 in the code
    AirFunding,   \* candidate deposits
    ClaimLists,   \* candidate sequences of leaves
    MaxAirHeld,   \* bound: no deposit above this balance
    NoRoot        \* an absent tree, vesting configuration or schedule

ASSUME AirdropAssumption ==
    /\ LiquidBase \in Nat \ {0} /\ AirFunding \subseteq Nat /\ MaxAirHeld \in Nat /\ IsFiniteSet(Claimants)
    /\ NoRoot \notin Nat /\ NoRoot \notin [total : Nat, released : Nat, start : Nat, duration : Nat]
    /\ \A tree \in AirTrees : tree \subseteq Claimants \X AirTokens \X Int
    /\ \A t \in AirTerms : {t.deadline, t.duration} \subseteq Nat /\ t.liquid \in Nat \cup {NoRoot}
    /\ \A l \in ClaimLists : l \in Seq(Claimants \X AirTokens \X Int)

VARIABLES
    drop,       \* terms given to initialize
    dropOpen,   \* Admin key is set
    dropRoot,   \* MerkleRoot key
    dropClaims, \* Claimed keys
    schedules,  \* Vesting keys
    dropLocked, \* TotalLocked keys
    dropHeld,   \* what the contract holds
    dropPaid    \* what each claimant got of each token

airdropOnlyVars == <<drop, dropOpen, dropRoot, dropClaims, schedules, dropLocked, dropHeld, dropPaid>>
airdropVars == <<now, airdropOnlyVars>>

DropPairs == Claimants \X AirTokens

AirdropInit ==
    /\ now = 0
    /\ drop \in AirTerms
    /\ dropOpen = FALSE /\ dropRoot = NoRoot /\ dropClaims = {}
    /\ schedules = [c \in DropPairs |-> NoRoot]
    /\ dropLocked = [t \in AirTokens |-> 0] /\ dropHeld = [t \in AirTokens |-> 0]
    /\ dropPaid = [c \in DropPairs |-> 0]

\* The admin, once; a locked part needs a duration.
InitializeAirdrop ==
    /\ ~dropOpen
    /\ drop.liquid # NoRoot => \/ drop.liquid = LiquidBase
                               \/ drop.liquid < LiquidBase /\ drop.duration # 0
    /\ dropOpen' = TRUE
    /\ UNCHANGED <<now, drop, dropRoot, dropClaims, schedules, dropLocked, dropHeld, dropPaid>>

\* The admin; not while claims against the present root are open.
SetRoot(tree) ==
    /\ dropOpen
    /\ dropRoot # NoRoot => now > drop.deadline
    /\ dropRoot' = tree
    /\ UNCHANGED <<now, drop, dropOpen, dropClaims, schedules, dropLocked, dropHeld, dropPaid>>

\* Anyone sends tokens to the contract.
FundAirdrop(t, x) ==
    /\ dropHeld[t] + x <= MaxAirHeld
    /\ dropHeld' = [dropHeld EXCEPT ![t] = @ + x]
    /\ UNCHANGED <<now, drop, dropOpen, dropRoot, dropClaims, schedules, dropLocked, dropPaid>>

\* load_claim_context.
ClaimsOpen == dropOpen /\ dropRoot # NoRoot /\ now <= drop.deadline

Pair(leaf) == <<leaf[1], leaf[2]>>

\* settle_claim: the liquid part is paid, the rest is locked.
LiquidPart(x) == IF drop.liquid = NoRoot THEN x ELSE (x * drop.liquid) \div LiquidBase

\* What a list in which no claimant and token repeat allocates.
Allocated(list) ==
    [c \in DropPairs |->
        IF \E i \in DOMAIN list : Pair(list[i]) = c
        THEN list[CHOOSE i \in DOMAIN list : Pair(list[i]) = c][3] ELSE 0]

\* What the claimants' parts of token t come to.
Parts(part, t) == SumFunctionOnSet([c \in Claimants |-> part[<<c, t>>]], Claimants)

SettleClaims(alloc) ==
    LET liquid == [c \in DropPairs |-> LiquidPart(alloc[c])]
        locked == [c \in DropPairs |-> alloc[c] - liquid[c]]
    IN
    /\ schedules' = [c \in DropPairs |->
                       IF locked[c] = 0 THEN schedules[c]
                       ELSE [total |-> locked[c], released |-> 0, start |-> now, duration |-> drop.duration]]
    /\ dropLocked' = [t \in AirTokens |-> dropLocked[t] + Parts(locked, t)]
    /\ dropHeld' = [t \in AirTokens |-> dropHeld[t] - Parts(liquid, t)]
    /\ dropPaid' = [c \in DropPairs |-> dropPaid[c] + liquid[c]]

\* Mutant: the whole balance counts, locked or not.
AnyBalance(t) == dropHeld[t]

\* ensure_available: what is not locked for existing schedules.
Available(t) == dropHeld[t] - dropLocked[t]

\* A claimant, or a relayer with a list in which no claimant and token may repeat.
ClaimBatch(list) ==
    /\ ClaimsOpen
    /\ list # <<>>
    /\ \A i \in DOMAIN list : list[i][3] > 0 /\ Pair(list[i]) \notin dropClaims /\ list[i] \in dropRoot
    /\ \A i, j \in DOMAIN list : Pair(list[i]) = Pair(list[j]) => i = j
    /\ \A t \in {list[i][2] : i \in DOMAIN list} : Available(t) >= Parts(Allocated(list), t)
    /\ dropClaims' = dropClaims \cup {Pair(list[i]) : i \in DOMAIN list}
    /\ SettleClaims(Allocated(list))
    /\ UNCHANGED <<now, drop, dropOpen, dropRoot>>

\* vested_amount.
VestedAmount(sch) ==
    IF sch.duration = 0 \/ now - sch.start >= sch.duration THEN sch.total
    ELSE (sch.total * (now - sch.start)) \div sch.duration

\* The claimant, also after the deadline.
ReleaseVested(c) ==
    LET x == VestedAmount(schedules[c]) - schedules[c].released
        t == c[2]
    IN
    /\ schedules[c] # NoRoot
    /\ x > 0
    /\ dropHeld[t] >= x
    /\ schedules' = [schedules EXCEPT ![c].released = @ + x]
    /\ dropLocked' = [dropLocked EXCEPT ![t] = @ - x]
    /\ dropHeld' = [dropHeld EXCEPT ![t] = @ - x]
    /\ dropPaid' = [dropPaid EXCEPT ![c] = @ + x]
    /\ UNCHANGED <<now, drop, dropOpen, dropRoot, dropClaims>>

AirdropNext ==
    \/ InitializeAirdrop
    \/ \E tree \in AirTrees : SetRoot(tree)
    \/ \E t \in AirTokens, x \in AirFunding : FundAirdrop(t, x)
    \/ \E l \in ClaimLists : ClaimBatch(l)
    \/ \E c \in DropPairs : ReleaseVested(c)
    \/ LedgerCloses /\ UNCHANGED airdropOnlyVars

AirdropSpec == AirdropInit /\ [][AirdropNext]_airdropVars

----
(* Properties.                                                             *)

Outstanding(c) == IF schedules[c] = NoRoot THEN 0 ELSE schedules[c].total - schedules[c].released

\* Every allocation is honoured once and in full: the contract holds what its
\* schedules still owe of each token, and what a claimant got and is still owed
\* is one leaf's amount, whichever way the claim came in.
AllocationsHonoured ==
    /\ \A t \in AirTokens :
         dropHeld[t] >= SumFunctionOnSet([c \in Claimants |-> Outstanding(<<c, t>>)], Claimants)
    /\ \A c \in DropPairs :
         \/ dropPaid[c] + Outstanding(c) = 0
         \/ \E tree \in AirTrees : <<c[1], c[2], dropPaid[c] + Outstanding(c)>> \in tree
====
