---- MODULE MCExchange ----
(***************************************************************************)
(* Instances of the NFT collection, the marketplace over it and the swap   *)
(* for TLC.  A behaviour exercises the collection, the marketplace with    *)
(* its collection, or the swap.                                            *)
(***************************************************************************)
EXTENDS Marketplace, Swap, TLC

CONSTANTS ann, ben, cid, usd, eur

\* The last collection must be refused.
CollectionChoices ==
    {[maxSupply |-> 0, bps |-> 0, soulbound |-> FALSE], [maxSupply |-> 2, bps |-> 5000, soulbound |-> TRUE],
     [maxSupply |-> 2, bps |-> 10001, soulbound |-> FALSE]}
TokenListChoices == {<<1, 2>>, <<2, 1>>, <<1, 1>>}

ListChoices ==
    {[token |-> 1, price |-> 3, floor |-> 3, start |-> 0, stop |-> 0, pay |-> usd, expires |-> 1],
     [token |-> 1, price |-> 3, floor |-> 1, start |-> 0, stop |-> 2, pay |-> eur, expires |-> Nobody]}
BundleChoices == {[tokens |-> <<1, 2>>, price |-> 3, pay |-> usd]}
IdListChoices == {<<1>>, <<2, 1>>}
OfferListChoices == {<<[token |-> 1, amount |-> 1]>>, <<[token |-> 1, amount |-> 2], [token |-> 1, amount |-> 1]>>}
FundsChoice == [a \in Collectors |-> IF a = ben THEN 3 ELSE 0]
SplitChoices == {<<5000, 4000>>}
WhitelistChoices == {{usd}}

Term(a, b, until, who, delay, partial, escrowed, locked) ==
    [tokenA |-> usd, amountA |-> a, tokenB |-> eur, amountB |-> b, expires |-> until,
     counterparty |-> who, maxDelay |-> delay, partial |-> partial, escrowed |-> escrowed,
     hashLock |-> locked]
\* Two fills of two out of 4-for-3 round the price down twice.
TermChoices ==
    {Term(4, 3, 1, Anyone, Anyone, TRUE, TRUE, FALSE), Term(2, 1, 1, Anyone, Anyone, TRUE, FALSE, FALSE),
     [Term(2, 2, 1, ben, 0, FALSE, TRUE, TRUE) EXCEPT !.tokenA = eur, !.tokenB = usd]}
BasketChoices ==
    {[offers |-> [t \in {usd, eur} |-> 1], demands |-> [t \in {usd, eur} |-> IF t = eur THEN 2 ELSE 0],
      expires |-> 1]}
KeepChoices == {[t \in {usd, eur} |-> 0], [t \in {usd, eur} |-> 1]}
NothingKept == {[t \in {usd, eur} |-> 0]}
CancelChoices == {<<1, 2>>, <<1, 1>>}

CONSTANT MaxCalls  \* bound: invocations in a behaviour of the marketplace

VARIABLES
    contract,  \* "nft", "market" or "swap"
    calls      \* invocations of the marketplace and its collection so far

exchangeVars == <<nftVars, marketOnlyVars, swapOnlyVars, contract, calls>>

\* Contract c is exercised; the others have one initial state.
Exercised(c) ==
    /\ contract = c
    /\ IF c = "nft" THEN NftInit ELSE MintedInit
    /\ MarketInit /\ SwapInit
    /\ calls = 0
    /\ c # "swap" => feeBps = 0 /\ keeps = NoTokens

ExchangeInit == \E c \in {"nft", "market", "swap"} : Exercised(c)

\* Bound: the third collector owns nothing and lists nothing, and is left to try the
\* calls of a seller on what belongs to others.
TwoOwners ==
    /\ \A i \in TokenIds : cid \notin {nftOwner'[i], nftApproval'[i]}
    /\ \A l \in DOMAIN listings' : listings'[l].seller # cid

ExchangeNext ==
    /\ UNCHANGED contract
    /\ calls < MaxCalls
    /\ \/ contract = "nft" /\ NftNext /\ UNCHANGED <<marketOnlyVars, swapOnlyVars>>
       \/ contract = "market" /\ MarketNext /\ UNCHANGED swapOnlyVars
       \/ contract = "swap" /\ SwapNext /\ UNCHANGED <<nftOnlyVars, marketOnlyVars>>
    /\ TwoOwners
    /\ calls' = IF contract = "market" /\ now' = now THEN calls + 1 ELSE calls

ExchangeSpec == ExchangeInit /\ [][ExchangeNext]_exchangeVars
====
