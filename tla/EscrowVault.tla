---- MODULE EscrowVault ----
(***************************************************************************)
(* What an escrow promises to whoever puts money in it, with no parties,   *)
(* no clock and no fees: one deposit, payouts that only ever drain it, and *)
(* a closing that leaves nothing behind and is final.                      *)
(***************************************************************************)
EXTENDS Naturals

VARIABLES
    phase,  \* "open" before the deposit, "held" after it, "closed" for good
    held    \* what is in the vault

Init == phase = "open" /\ held = 0

Deposit == phase = "open" /\ phase' = "held" /\ held' \in Nat \ {0}

Payout == phase = "held" /\ phase' = "held" /\ held' \in Nat /\ held' < held

Settle == phase = "held" /\ phase' = "closed" /\ held' = 0

Abandon == phase = "open" /\ phase' = "closed" /\ held' = held

Next == Deposit \/ Payout \/ Settle \/ Abandon

Spec == Init /\ [][Next]_<<phase, held>>
====
