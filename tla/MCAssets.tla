---- MODULE MCAssets ----
(***************************************************************************)
(* The token, and the contracts that trade: the NFT collection, the        *)
(* marketplace over it and the swap.  A behaviour exercises one of them,   *)
(* within the bounds of MCToken and MCExchange.                            *)
(***************************************************************************)
EXTENDS MCToken, MCExchange

tokenOnlyVars == <<admin, pending, cap, supply, bal, allow, paused, frozen, blacklisted, treasury, lock,
                   ghosts, permitVars, snapshotVars, part>>
assetVars == <<tokenOnlyVars, exchangeVars>>

AssetsInit ==
    /\ TokenInit
    /\ \E c \in {"token", "nft", "market", "swap"} : Exercised(c)
    /\ contract # "token" => part = "compliance"

\* Bound: offers and swaps have expired by then.
TradeClock == now' <= 2

AssetsNext ==
    \/ contract = "token" /\ TokenNext /\ UNCHANGED <<contract, calls, nftOnlyVars, marketOnlyVars, swapOnlyVars>>
    \/ ExchangeNext /\ TradeClock /\ UNCHANGED tokenOnlyVars

AssetsSpec == AssetsInit /\ [][AssetsNext]_assetVars
====
