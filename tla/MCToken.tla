---- MODULE MCToken ----
(***************************************************************************)
(* The token for TLC: an owner, a spender and the admin role on the        *)
(* spender.  A behaviour exercises one part of the contract in depth:      *)
(* compliance together with every way to move tokens, the bookkeeping of   *)
(* allowances, signed permits, or snapshots; the bounds of a part keep the *)
(* keys it is not about small.  Batches name a recipient twice, name the   *)
(* sender itself, are empty, or hold an amount the guards must reject; two *)
(* permits compete for the first nonce, and two, signed with different     *)
(* keys, for the second.                                                   *)
(***************************************************************************)
EXTENDS TokenSpending, TokenPermit, TokenSnapshot

CONSTANTS alice, bob, k1, k2

VARIABLE part

allVars == <<vars, ghosts, permitVars, snapshotVars, part>>

TokenInit ==
    /\ part \in {"compliance", "spending", "permits", "snapshots"}
    /\ SpendingInit
    /\ PermitInit
    /\ SnapshotInit

\* Bounds of the parts: how far the clock runs, and which keys stay as they are.
ShortClock == now' <= 1
Uncomplicated == UNCHANGED <<pending, frozen, blacklisted, treasury, lock>>
OnlyAllowed == UNCHANGED <<supply, bal>> /\ \A k \in Pairs : allow'[k].amount \in 0..2
OneToken == supply' \in 0..1 /\ UNCHANGED <<cap, allow>>

TokenNext ==
    /\ UNCHANGED part
    /\ \/ /\ part = "compliance" /\ Next /\ ShortClock
          /\ Started /\ UNCHANGED <<permitVars, snapshotVars>>
       \/ /\ part = "spending" /\ SpendingNext /\ ShortClock /\ Uncomplicated
          /\ UNCHANGED <<permitVars, snapshotVars>>
       \/ /\ part = "permits" /\ PermitNext /\ Uncomplicated /\ OnlyAllowed
          /\ Started /\ UNCHANGED snapshotVars
       \/ /\ part = "snapshots" /\ PunctualNext /\ Uncomplicated /\ OneToken
          /\ Started /\ UNCHANGED permitVars

TokenSpec == TokenInit /\ [][TokenNext]_allVars

Entry(a, x) == [to |-> a, amount |-> x]
BatchChoices == {<<>>, <<Entry(alice, 1), Entry(bob, 0)>>, <<Entry(bob, 1), Entry(bob, 1)>>,
                 <<Entry(alice, 1), Entry(bob, 1)>>}
AmountChoices == {-1, 0, 1, 2}  \* entry points differ in the signs they accept
CapChoices == {None, 0, 1}
OnePair == {<<alice, bob>>}
Permit(s, x, n, e, key) ==
    [owner |-> alice, spender |-> s, amount |-> x, nonce |-> n, expiry |-> e, key |-> key]
SignedPermits == {Permit(bob, 2, 0, 2, k1), Permit(bob, 1, 0, 1, k1),
                  Permit(bob, 1, 1, 2, k1), Permit(bob, 1, 1, 2, k2), Permit(bob, 2, 2, 2, k2)}
MinusOne == -1
====
