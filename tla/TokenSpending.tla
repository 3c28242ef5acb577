---- MODULE TokenSpending ----
(***************************************************************************)
(* The token with history variables: what each owner has granted to each   *)
(* spender in total, what has left the owner's balance through that        *)
(* spender's calls, and what circulated before initialize.  They observe   *)
(* the token and constrain nothing but the bound MaxGranted.               *)
(***************************************************************************)
EXTENDS Token

CONSTANT MaxGranted  \* bound on what an owner grants to one spender, and on what that one takes or gives back

ASSUME SpendingAssumption == MaxGranted \in Nat

VARIABLES
    granted,      \* sum of the amounts approved and of the increases, per pair
    spent,        \* what the spender's transfer_from and burn_from calls took on balance, per pair
    selfRaised,   \* pairs whose spender has called transfer_from(owner, owner) with a negative amount
    startedWith   \* what circulated when initialize set the supply to 0

ghosts == <<granted, spent, selfRaised, startedWith>>
spendingVars == <<vars, ghosts>>

SpendingInit ==
    /\ Init
    /\ granted = [k \in Pairs |-> 0]
    /\ spent = [k \in Pairs |-> 0]
    /\ selfRaised = {}
    /\ startedWith = 0

\* The owner raises the allowance by x.
Grant(k, x) ==
    /\ granted[k] + x <= MaxGranted
    /\ granted' = [granted EXCEPT ![k] = IF x > 0 THEN @ + x ELSE @]
    /\ UNCHANGED <<spent, selfRaised, startedWith>>

\* A call of the spender; burn_from of a negative amount gives something back.
Took(k) ==
    /\ spent' = [spent EXCEPT ![k] = @ + bal[k[1]] - bal'[k[1]]]
    /\ spent'[k] \in -MaxGranted..(MaxGranted + 1)
    /\ UNCHANGED <<granted, startedWith>>

\* initialize may run after others have called the contract.
Started ==
    /\ startedWith' = IF admin = None /\ admin' # None THEN Circulating ELSE startedWith
    /\ UNCHANGED <<granted, spent, selfRaised>>

SpendingNext ==
    \/ \E k \in Pairs, x \in Amounts, e \in Expiries : Approve(k, x, e) /\ Grant(k, x)
    \/ \E k \in Pairs, x \in Amounts : IncreaseAllowance(k, x) /\ Grant(k, x)
    \/ \E k \in Pairs, x \in Amounts : DecreaseAllowance(k, x) /\ Grant(k, -x)
    \/ \E k \in Pairs, b \in Accounts, x \in Amounts :
          /\ TransferFrom(k, b, x) /\ Took(k)
          /\ selfRaised' = IF x < 0 THEN selfRaised \cup {k} ELSE selfRaised
    \/ \E k \in Pairs, x \in Amounts : BurnFrom(k, x) /\ Took(k) /\ UNCHANGED selfRaised
    \/ (SupplyStep \/ TransferStep \/ AdminStep \/ Tick) /\ Started

SpendingSpec == SpendingInit /\ [][SpendingNext]_spendingVars

\* However approvals, increases, decreases and expiries interleave with the
\* spender's calls, the spender never takes more on balance than the owner granted.
\* Excepted is a pair whose spender has once called transfer_from with a negative
\* amount and the owner as recipient: transfer_impl returns Ok before it looks at
\* the amount (lib.rs:887) and the deduction has raised the allowance, although
\* test.rs:310 expects a negative transfer_from to be refused.
NoOverspend == \A k \in Pairs \ selfRaised : spent[k] <= granted[k]

\* No path creates balance that total_supply does not count, except that
\* initialize forgets what a burn_from of a negative amount made before it.
SupplyCoversBalances == Circulating <= supply + startedWith

\* A spender takes something only out of an approval that has not expired: in the
\* ledger after expires at the latest, transfer_from and burn_from are refused.
SpendsUnexpired ==
    [][\A k \in Pairs : spent'[k] > spent[k] => now <= allow[k].expires]_spendingVars
====
