---- MODULE MCServices ----
(***************************************************************************)
(* Instances of the subscription, the wrapped token, the airdrop and the   *)
(* price oracle for TLC.  They do not interact: a behaviour exercises one. *)
(***************************************************************************)
EXTENDS Subscription, WrappedToken, Airdrop, Oracle, TLC

CONSTANTS ann, ben, carol, basic, gold

VARIABLE contract  \* "subscription", "wrapped", "airdrop" or "oracle"

serviceVars == <<now, subscriptionOnlyVars, wrappedOnlyVars, airdropOnlyVars, oracleOnlyVars, contract>>

\* A contract that is not exercised has one initial state.
ServicesInit ==
    /\ contract \in {"subscription", "wrapped", "airdrop", "oracle"}
    /\ SubscriptionInit /\ WrappedInit /\ AirdropInit /\ OracleInit
    /\ contract # "wrapped" => tax = 0 /\ wrapper.unwrapFee = 3
    /\ contract # "airdrop" => drop.liquid = NoRoot

\* Bound: bonds are in a second token only where no price is reported.
OneToken == reports' > 0 => bondToken' # gold /\ bondHeld'[gold] = 0

ServicesNext ==
    /\ UNCHANGED contract
    /\ \/ contract = "subscription" /\ SubscriptionNext /\ UNCHANGED <<wrappedOnlyVars, airdropOnlyVars, oracleOnlyVars>>
       \/ contract = "wrapped" /\ WrappedNext /\ UNCHANGED <<subscriptionOnlyVars, airdropOnlyVars, oracleOnlyVars>>
       \/ contract = "airdrop" /\ AirdropNext /\ UNCHANGED <<subscriptionOnlyVars, wrappedOnlyVars, oracleOnlyVars>>
       \/ contract = "oracle" /\ OracleNext /\ OneToken /\ UNCHANGED <<subscriptionOnlyVars, wrappedOnlyVars, airdropOnlyVars>>

ServicesSpec == ServicesInit /\ [][ServicesNext]_serviceVars

NameSymmetry == Permutations({ann, ben})

\* A free plan must be refused; gold costs more than the longest interval of basic.
PlanChoices ==
    {[id |-> basic, amount |-> 1, interval |-> 1, discount |-> 0],
     [id |-> gold, amount |-> 2, interval |-> 2, discount |-> 1],
     [id |-> gold, amount |-> 0, interval |-> 2, discount |-> 0]}
ChargeChoices == {<<<<carol, basic>>>>, <<<<carol, gold>>>>, <<<<carol, basic>>, <<carol, basic>>>>}

\* Fees without a recipient must be refused.
WrapChoices ==
    {[cap |-> 2, wrapFee |-> 0, unwrapFee |-> 0, min |-> NoLimit, recipient |-> FALSE],
     [cap |-> NoLimit, wrapFee |-> 1, unwrapFee |-> 1, min |-> 1, recipient |-> TRUE],
     [cap |-> NoLimit, wrapFee |-> 0, unwrapFee |-> 3, min |-> NoLimit, recipient |-> FALSE]}
BatchChoices == {<<<<ann, 2>>>>, <<<<ben, 2>>>>, <<<<ann, 1>>, <<ben, 1>>>>, <<<<ben, 1>>, <<ann, 1>>>>}
MinChoices == {2}
LimitChoices == {[limit |-> 2, window |-> 1]}

\* The trees differ in an amount; a list may name a leaf twice.
TreeChoices == {{<<ann, gold, 2>>, <<ben, gold, 2>>}, {<<ann, gold, 1>>, <<ben, gold, 1>>, <<ann, basic, 1>>, <<ben, basic, 1>>}}
AirChoices == {[deadline |-> 1, liquid |-> NoRoot, duration |-> 0], [deadline |-> 1, liquid |-> 1, duration |-> 2],
               [deadline |-> 1, liquid |-> 1, duration |-> 0]}
LeafChoices == UNION TreeChoices
ClaimChoices == {<<l>> : l \in LeafChoices} \cup {<<l, m>> : l, m \in LeafChoices}

ListChoices == {<<ann, ben>>, <<ben, ann>>, <<ann, ann>>, <<ben, ben>>}
\* A sum of two equal ones saturates, and so does the difference.
SubmittedChoices == {-5, 4}
BondChoices == {0, 1}
====
