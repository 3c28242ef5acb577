---- MODULE Nft ----
(***************************************************************************)
(* The non-fungible token (contracts/nft): owners, approvals, and the      *)
(* enumeration of each owner's tokens that mints, transfers and burns keep *)
(* by swapping the last entry into the gap.                                *)
(*                                                                         *)
(* A merge left two versions of the contract in one file.  Modelled is the *)
(* one its tests drive: ids chosen by the minter, persistent keys, the     *)
(* enumeration, one approved spender per token.  URIs are left out.        *)
(* repeated is a history variable.                                         *)
(***************************************************************************)
EXTENDS HostClock, SequencesExt, FiniteSetsExt

CONSTANTS
    Collectors,    \* addresses
    MaxTokenId,    \* bound: the largest token id a mint chooses
    Collections,   \* candidate [maxSupply, bps, soulbound] of initialize; no cap and no bps are 0
    TokenRoyalties,\* candidate token_royalty_bps
    MintCounts,    \* candidate sizes of mint_batch
    TokenLists,    \* candidate lists of transfer_batch
    MaxOwned,      \* bound: entries of one owner's enumeration
    Nobody         \* an absent owner, spender, token, index or royalty

ASSUME NftAssumption ==
    /\ MaxTokenId \in Nat
    /\ \A c \in Collections : c.maxSupply \in Nat /\ c.bps \in Nat /\ c.soulbound \in BOOLEAN
    /\ TokenRoyalties \subseteq Nat /\ MintCounts \subseteq Nat /\ TokenLists \subseteq Seq(1..MaxTokenId)
    /\ MaxOwned \in Nat /\ Nobody \notin Collectors \cup Nat

VARIABLES
    nftReady,     \* Initialized key
    nftConf,      \* MaxSupply, RoyaltyBps and Soulbound keys
    nftOwner,     \* Owner keys
    nftApproval,  \* Approval keys
    tokenBps,     \* TokenRoyaltyBps keys
    nftBalance,   \* Balance keys
    ownerTokens,  \* OwnerTokens keys
    ownedIndex,   \* OwnedIndex keys
    totalSupply,  \* TotalSupply key
    nextTokenId,  \* NextTokenId key
    repeated      \* a batch transfer named a token twice

enumVars == <<nftBalance, ownerTokens, ownedIndex>>
nftOnlyVars == <<nftReady, nftConf, nftOwner, nftApproval, tokenBps, enumVars, totalSupply, nextTokenId, repeated>>
nftVars == <<now, nftOnlyVars>>

TokenIds == 1..MaxTokenId
Slots == 0..MaxOwned

NftInit ==
    /\ now = 0
    /\ nftReady = FALSE /\ nftConf \in Collections
    /\ nftOwner = [i \in TokenIds |-> Nobody] /\ nftApproval = [i \in TokenIds |-> Nobody]
    /\ tokenBps = [i \in TokenIds |-> Nobody]
    /\ nftBalance = [a \in Collectors |-> 0]
    /\ ownerTokens = [a \in Collectors |-> [x \in Slots |-> Nobody]]
    /\ ownedIndex = [i \in TokenIds |-> Nobody]
    /\ totalSupply = 0 /\ nextTokenId = 1 /\ repeated = FALSE

\* The enumeration as one value.
Enumeration == [balance |-> nftBalance, tokens |-> ownerTokens, index |-> ownedIndex]

SetEnumeration(e) ==
    /\ nftBalance' = e.balance
    /\ ownerTokens' = e.tokens
    /\ ownedIndex' = e.index

\* enumerable_add: the token becomes the owner's last.
EnumerableAdd(e, a, i) ==
    [e EXCEPT !.tokens[a][e.balance[a]] = i, !.index[i] = e.balance[a], !.balance[a] = @ + 1]

\* Mutant: the token that fills the gap keeps its index.
EnumerableRemoveStale(e, a, i) ==
    LET last == e.balance[a] - 1
        at == IF e.index[i] = Nobody THEN 0 ELSE e.index[i]
    IN
    IF last < 0 THEN e
    ELSE [e EXCEPT !.tokens[a] = [@ EXCEPT ![at] = e.tokens[a][last], ![last] = Nobody],
                   !.index[i] = Nobody, !.balance[a] = last]

\* enumerable_remove: the owner's last token fills the gap.
EnumerableRemove(e, a, i) ==
    LET last == e.balance[a] - 1
        at == IF e.index[i] = Nobody THEN 0 ELSE e.index[i]
        moved == e.tokens[a][last]
        swapped == IF at = last THEN e
                   ELSE [e EXCEPT !.tokens[a][at] = moved, !.index[moved] = at]
    IN
    IF last < 0 THEN e
    ELSE [swapped EXCEPT !.tokens[a][last] = Nobody, !.index[i] = Nobody, !.balance[a] = last]

\* Tokens change hands one after the other.
Handed(e, from, to, list) ==
    FoldLeft(LAMBDA acc, i : EnumerableAdd(EnumerableRemove(acc, from, i), to, i), e, list)

\* Admin.
InitializeNft ==
    /\ ~nftReady
    /\ nftConf.bps <= 10000
    /\ nftReady' = TRUE
    /\ UNCHANGED <<now, nftConf, nftOwner, nftApproval, tokenBps, enumVars, totalSupply, nextTokenId, repeated>>

\* Admin.
MintNft(to, i, bps) ==
    /\ nftReady
    /\ nftBalance[to] < MaxOwned
    /\ nftOwner[i] = Nobody
    /\ bps # Nobody => bps <= 10000
    /\ nftConf.maxSupply # 0 => totalSupply < nftConf.maxSupply
    /\ nftOwner' = [nftOwner EXCEPT ![i] = to]
    /\ totalSupply' = totalSupply + 1
    /\ SetEnumeration(EnumerableAdd(Enumeration, to, i))
    /\ tokenBps' = IF bps = Nobody THEN tokenBps ELSE [tokenBps EXCEPT ![i] = bps]
    /\ nextTokenId' = IF i >= nextTokenId THEN i + 1 ELSE nextTokenId
    /\ UNCHANGED <<now, nftReady, nftConf, nftApproval, repeated>>

\* Ids the batch takes: the next that are free.
FreeIds(n) ==
    LET free == {i \in TokenIds : i >= nextTokenId /\ nftOwner[i] = Nobody} IN
    {i \in free : Cardinality({j \in free : j < i}) < n}

\* Admin.
MintBatchNft(to, n) ==
    LET ids == FreeIds(n)
        list == CHOOSE l \in [1..n -> ids] : \A x, y \in 1..n : x < y => l[x] < l[y]
    IN
    /\ nftReady
    /\ n > 0
    /\ nftConf.maxSupply # 0 => totalSupply + n <= nftConf.maxSupply
    /\ Cardinality(ids) = n
    /\ nftBalance[to] + n <= MaxOwned
    /\ nftOwner' = [i \in TokenIds |-> IF i \in ids THEN to ELSE nftOwner[i]]
    /\ totalSupply' = totalSupply + n
    /\ nextTokenId' = Max(ids) + 1
    /\ SetEnumeration(FoldLeft(LAMBDA acc, i : EnumerableAdd(acc, to, i), Enumeration, list))
    /\ UNCHANGED <<now, nftReady, nftConf, nftApproval, tokenBps, repeated>>

\* Tokens of one owner change hands, and lose their approvals.
MoveTokens(from, to, list) ==
    LET moved == {list[x] : x \in DOMAIN list} IN
    /\ nftReady
    /\ ~nftConf.soulbound
    /\ nftBalance[to] + Len(list) <= MaxOwned
    /\ \A i \in moved : nftOwner[i] = from
    /\ nftOwner' = [i \in TokenIds |-> IF i \in moved THEN to ELSE nftOwner[i]]
    /\ nftApproval' = [i \in TokenIds |-> IF i \in moved THEN Nobody ELSE nftApproval[i]]
    /\ SetEnumeration(Handed(Enumeration, from, to, list))
    /\ repeated' = (repeated \/ Len(list) # Cardinality(moved))
    /\ UNCHANGED <<nftReady, nftConf, tokenBps, totalSupply, nextTokenId>>

\* The owner.
TransferNft(from, to, i) == MoveTokens(from, to, <<i>>) /\ UNCHANGED now

\* The owner; every token is checked before the first moves.
TransferBatchNft(from, to, list) == MoveTokens(from, to, list) /\ UNCHANGED now

\* The approved spender.
TransferFromNft(spender, from, to, i) ==
    /\ nftApproval[i] = spender
    /\ MoveTokens(from, to, <<i>>)
    /\ UNCHANGED now

\* The owner.
ApproveNft(i, spender) ==
    /\ nftReady
    /\ nftOwner[i] # Nobody
    /\ nftApproval' = [nftApproval EXCEPT ![i] = spender]
    /\ UNCHANGED <<now, nftReady, nftConf, nftOwner, tokenBps, enumVars, totalSupply, nextTokenId, repeated>>

\* The owner.
BurnNft(from, i) ==
    /\ nftReady
    /\ nftOwner[i] = from
    /\ SetEnumeration(EnumerableRemove(Enumeration, from, i))
    /\ nftOwner' = [nftOwner EXCEPT ![i] = Nobody]
    /\ nftApproval' = [nftApproval EXCEPT ![i] = Nobody]
    /\ totalSupply' = totalSupply - 1
    /\ UNCHANGED <<now, nftReady, nftConf, tokenBps, nextTokenId, repeated>>

\* royalty_info: the token's rate goes before the collection's.
RoyaltyBps(i) == IF tokenBps[i] # Nobody THEN tokenBps[i] ELSE nftConf.bps

NftNext ==
    \/ InitializeNft
    \/ \E a \in Collectors, i \in TokenIds, bps \in TokenRoyalties \cup {Nobody} : MintNft(a, i, bps)
    \/ \E a \in Collectors, n \in MintCounts : MintBatchNft(a, n)
    \/ \E a, b \in Collectors, i \in TokenIds : TransferNft(a, b, i)
    \/ \E a, b \in Collectors, list \in TokenLists : TransferBatchNft(a, b, list)
    \/ \E s, a, b \in Collectors, i \in TokenIds : TransferFromNft(s, a, b, i)
    \/ \E i \in TokenIds, s \in Collectors : ApproveNft(i, s)
    \/ \E a \in Collectors, i \in TokenIds : BurnNft(a, i)

NftSpec == NftInit /\ [][NftNext]_nftVars

----
(* Properties.                                                             *)

OwnedBy(a) == {i \in TokenIds : nftOwner[i] = a}

\* The enumeration lists each owner's tokens once and nothing else, OwnedIndex is
\* its inverse and the supply counts the owned tokens, whatever the mints,
\* transfers and burns that swapped entries about, while no batch named a token
\* twice.
EnumerationAgrees ==
    ~repeated =>
        /\ \A a \in Collectors :
             /\ nftBalance[a] = Cardinality(OwnedBy(a))
             /\ \A i \in OwnedBy(a) : /\ ownedIndex[i] \in 0..(nftBalance[a] - 1)
                                      /\ ownerTokens[a][ownedIndex[i]] = i
        /\ totalSupply = Cardinality({i \in TokenIds : nftOwner[i] # Nobody})
====
