---- MODULE HostClock ----
(***************************************************************************)
(* What a contract sees of the Soroban host: the sequence number of the    *)
(* ledger being closed.  Invocations are atomic (the host rolls a failed   *)
(* one back and forbids re-entering a contract), so a step of a contract's *)
(* module is one successful invocation.                                    *)
(***************************************************************************)
EXTENDS Integers, FiniteSets

VARIABLE now  \* env.ledger().sequence()

CONSTANT MaxLedger  \* bound: the last ledger that closes

ASSUME LedgerAssumption == MaxLedger \in Nat

LedgerCloses ==
    /\ now' = now + 1
    /\ now' <= MaxLedger
====
