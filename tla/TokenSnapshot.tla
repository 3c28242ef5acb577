---- MODULE TokenSnapshot ----
(***************************************************************************)
(* Balance snapshots (snapshot and balance_at of contracts/token).  A      *)
(* snapshot is filed under a ledger number the caller chooses, both under  *)
(* its own key and at the end of the account's history, and balance_at     *)
(* looks it up in the history by binary search.                            *)
(***************************************************************************)
EXTENDS Token

CONSTANTS
    Ledgers,      \* ledger numbers a caller may file a snapshot under
    MaxSnapshots  \* bound on the length of an account's history

ASSUME SnapshotAssumption == Ledgers \subseteq Nat /\ MaxSnapshots \in Nat

VARIABLES
    snapshot,  \* Snapshot(account, ledger) keys, None while absent
    history    \* SnapshotHistory keys, <<>> while absent

snapshotVars == <<snapshot, history>>
snapshotAllVars == <<vars, snapshotVars>>

SnapshotInit ==
    /\ Init
    /\ snapshot = [k \in Accounts \X Ledgers |-> None]
    /\ history = [a \in Accounts |-> <<>>]

\* The holder.
Snapshot(a, ledger) ==
    /\ Len(history[a]) < MaxSnapshots
    /\ snapshot' = [snapshot EXCEPT ![<<a, ledger>>] = bal[a]]
    /\ history' = [history EXCEPT ![a] = Append(@, [ledger |-> ledger, balance |-> bal[a]])]
    /\ UNCHANGED vars

\* Mutant: the upper bound moved one entry too far.
SearchShort(h, ledger) ==
    LET probe[w \in (0..Len(h)) \X (0..Len(h))] ==
          IF w[1] >= w[2] THEN None
          ELSE LET mid == w[1] + (w[2] - w[1]) \div 2
                   e   == h[mid + 1]
               IN  CASE e.ledger < ledger -> probe[<<mid + 1, w[2]>>]
                     [] e.ledger > ledger -> probe[<<w[1], IF mid > 0 THEN mid - 1 ELSE 0>>]
                     [] OTHER -> e.balance
    IN  probe[<<0, Len(h)>>]

\* The loop of balance_at over a window [lo, hi), with the 0-based indices of the code.
Search(h, ledger) ==
    LET probe[w \in (0..Len(h)) \X (0..Len(h))] ==
          IF w[1] >= w[2] THEN None
          ELSE LET mid == w[1] + (w[2] - w[1]) \div 2
                   e   == h[mid + 1]
               IN  CASE e.ledger < ledger -> probe[<<mid + 1, w[2]>>]
                     [] e.ledger > ledger -> probe[<<w[1], mid>>]
                     [] OTHER -> e.balance
    IN  probe[<<0, Len(h)>>]

\* The per-ledger key is read only for an account without a history.
BalanceAt(a, ledger) ==
    IF history[a] # <<>> THEN Search(history[a], ledger) ELSE snapshot[<<a, ledger>>]

SnapshotNext ==
    \/ \E a \in Accounts, l \in Ledgers : Snapshot(a, l)
    \/ Next /\ UNCHANGED snapshotVars

SnapshotSpec == SnapshotInit /\ [][SnapshotNext]_snapshotAllVars

\* The caller files each snapshot under the ledger it is taken in, at most one a ledger.
Punctual(a, l) == l = now /\ snapshot[<<a, l>>] = None

PunctualNext ==
    \/ \E a \in Accounts, l \in Ledgers : Punctual(a, l) /\ Snapshot(a, l)
    \/ Next /\ UNCHANGED snapshotVars

\* Callers that follow the convention balance_at is written for.
PunctualSpec == SnapshotInit /\ [][PunctualNext]_snapshotAllVars

\* balance_at returns what was recorded under that ledger last, and nothing for
\* a ledger no snapshot was filed under: the history and its search agree with
\* the per-ledger keys they replace.
BalanceAtAgrees ==
    \A a \in Accounts, l \in Ledgers : BalanceAt(a, l) = snapshot[<<a, l>>]
====
