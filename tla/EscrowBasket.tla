---- MODULE EscrowBasket ----
(***************************************************************************)
(* The multi-token variant of the escrow: a basket of tokens is agreed on, *)
(* its first entry is the lead token and drives the ordinary lifecycle of  *)
(* Escrow (TokenContract and Amount), and three entry points of their own  *)
(* move the whole basket.  Every other entry point of Escrow stays         *)
(* callable and only knows the lead token.                                 *)
(***************************************************************************)
EXTENDS Escrow

CONSTANTS
    Lead,        \* the token of the basket's first entry
    SideTokens,  \* the other tokens
    Baskets,     \* candidate baskets: sequences of [token, amount]
    BuyerSide    \* the buyer's initial balance of each side token

ASSUME BasketAssumption ==
    /\ Lead \notin SideTokens
    /\ BuyerSide \in Nat
    /\ Baskets \subseteq Seq([token : SideTokens \cup {Lead}, amount : Int])
    /\ \A bk \in Baskets : bk # <<>> => bk[1].token = Lead

VARIABLES
    basket,   \* TokenContracts and TokenAmounts keys; <<>> while absent
    side,     \* what the contract holds of each side token
    sideBuyer \* what the buyer holds of each side token

basketVars == <<basket, side, sideBuyer>>
allVars == <<vars, basketVars>>

Total(bk, t) ==
    SumFunctionOnSet([i \in DOMAIN bk |-> bk[i].amount], {i \in DOMAIN bk : bk[i].token = t})

BasketInit ==
    /\ Init
    /\ basket = <<>>
    /\ side = [t \in SideTokens |-> 0]
    /\ sideBuyer = [t \in SideTokens |-> BuyerSide]

InitializeWithTokens(bk, dl, timeout) ==
    /\ bk # <<>>
    /\ \A i \in DOMAIN bk : bk[i].amount > 0
    /\ StoreEscrowData(bk[1].amount, dl, [NoTerms EXCEPT !.timeout = timeout])
    /\ basket' = bk
    /\ UNCHANGED <<released, side, sideBuyer>>

\* Buyer.  Moves TokenAmounts, whatever Amount says by now.
FundBasket ==
    /\ NotPaused
    /\ basket # <<>>
    /\ state = "Created"
    /\ TransferOk(bal, Buyer, Total(basket, Lead))
    /\ \A t \in SideTokens : sideBuyer[t] >= Total(basket, t)
    /\ state' = "Funded"
    /\ bal' = Move(bal, Buyer, Self, Total(basket, Lead))
    /\ side' = [t \in SideTokens |-> side[t] + Total(basket, t)]
    /\ sideBuyer' = [t \in SideTokens |-> sideBuyer[t] - Total(basket, t)]
    /\ UNCHANGED <<now, amount, deadline, terms, deliveredAt, raisedAt, approvals,
                   released, fees, paused, basket>>

\* Mutant: the last entry forgotten.
PayBasketButLast(final) ==
    /\ NotPaused /\ basket # <<>> /\ state' = final /\ amount' = 0
    /\ \A t \in SideTokens : side[t] >= Total(basket, t)
    /\ side' = [t \in SideTokens |->
                  side[t] - Total(SubSeq(basket, 1, Len(basket) - 1), t)]
    /\ UNCHANGED <<now, deadline, terms, deliveredAt, raisedAt, approvals, released,
                   fees, paused, basket>>

\* What the two payout loops share: final state, zero amount, and enough of
\* every token for the whole basket.
PayBasket(final) ==
    /\ NotPaused
    /\ basket # <<>>
    /\ \A t \in SideTokens : side[t] >= Total(basket, t)
    /\ bal[Self] >= Total(basket, Lead)
    /\ state' = final
    /\ amount' = 0
    /\ side' = [t \in SideTokens |-> side[t] - Total(basket, t)]
    /\ UNCHANGED <<now, deadline, terms, deliveredAt, raisedAt, approvals, released,
                   fees, paused, basket>>

\* Anyone.  Each entry pays its net amount and its own fee.
ReleaseBasket ==
    LET leads == {i \in DOMAIN basket : basket[i].token = Lead}
        fee   == SumFunctionOnSet([i \in leads |-> PlatformFee(basket[i].amount)], leads)
        net   == Total(basket, Lead) - fee
        b1    == Move(bal, Self, Seller, net)
    IN  /\ state = "Delivered"
        /\ PayBasket("Completed")
        /\ \A i \in DOMAIN basket : PlatformFee(basket[i].amount) = basket[i].amount => ZeroTransferOk
        /\ bal' = IF fee > 0 /\ fees.treasury # NoTreasury
                  THEN Move(b1, Self, fees.treasury, fee) ELSE b1
        /\ UNCHANGED sideBuyer

\* Anyone.
RefundBasket ==
    /\ state = "Funded"
    /\ PayBasket("Refunded")
    /\ bal' = Move(bal, Self, Buyer, Total(basket, Lead))
    /\ sideBuyer' = [t \in SideTokens |-> sideBuyer[t] + Total(basket, t)]

BasketNext ==
    \/ \E bk \in Baskets, dl \in Deadlines, t \in Timeouts : InitializeWithTokens(bk, dl, t)
    \/ FundBasket
    \/ ReleaseBasket
    \/ RefundBasket
    \/ (InitializeStep \/ LifecycleStep \/ DisputeStep \/ AdminStep \/ Tick) /\ UNCHANGED basketVars
    \/ basket = <<>> /\ (ReleaseMultiToken \/ RefundMultiToken) /\ UNCHANGED basketVars

BasketSpec == BasketInit /\ [][BasketNext]_allVars

\* update_amount and release_partial know nothing of milestones, nor update_amount
\* of baskets: parties who use either feature leave Amount to it.
AmountLeftAlone ==
    /\ terms.plan # <<>> => ~\E x \in Amounts : UpdateAmount(x) \/ ReleasePartial(x)
    /\ basket # <<>> => ~\E x \in Amounts : UpdateAmount(x)

CarefulSpec == BasketInit /\ [][BasketNext /\ AmountLeftAlone]_allVars /\ DiligentBuyer

----
\* A step that moves any side token moves the whole agreed basket, the lead
\* token included: never some of the tokens without the others.
BasketMovesWhole ==
    [][(side' # side) =>
          /\ \A t \in SideTokens : side'[t] - side[t] \in {Total(basket, t), -Total(basket, t)}
          /\ bal'[Self] - bal[Self] \in {Total(basket, Lead), -Total(basket, Lead)}]_allVars
====
