---- MODULE Token ----
(***************************************************************************)
(* The fungible token (contracts/token) with all its default features:     *)
(* admin-controlled supply with an optional cap, balances, allowances that *)
(* expire, batches, pausing, freezing and blacklisting, transfer lockups   *)
(* and the two ways of handing over the admin role.                        *)
(*                                                                         *)
(* A step is one successful invocation: a call that returns Err or panics  *)
(* is rolled back by the host, and one that returns Ok without writing is  *)
(* a stutter.  Amounts are i128 and every addition is checked; I128Max and *)
(* I128Min stand for its limits.  Permits are in TokenPermit, snapshots in *)
(* TokenSnapshot.                                                          *)
(***************************************************************************)
EXTENDS HostClock, Sequences, Functions

CONSTANTS
    Accounts,        \* addresses
    None,            \* an absent Admin, PendingAdmin, ComplianceTreasury or MaxSupply
    Admins,          \* addresses that may hold the admin role
    Caps,            \* candidate MaxSupply values, None among them
    Amounts,         \* candidate amounts, of any sign
    Batches,         \* candidate lists of [to, amount]
    Pairs,           \* <<from, spender>> pairs whose allowance is exercised
    Expiries,        \* candidate expiration ledgers
    Targets,         \* accounts the admin may freeze, blacklist or lock
    Treasuries,      \* candidate compliance treasuries
    Locks,           \* candidate lockup ledgers
    I128Max, I128Min

ASSUME TokenAssumption ==
    /\ IsFiniteSet(Accounts) /\ None \notin Accounts /\ None \notin Int
    /\ Admins \subseteq Accounts /\ Targets \subseteq Accounts /\ Treasuries \subseteq Accounts
    /\ Caps \subseteq Int \cup {None}
    /\ Amounts \subseteq Int
    /\ Batches \subseteq Seq([to : Accounts, amount : Int])
    /\ Pairs \subseteq Accounts \X Accounts
    /\ Expiries \subseteq Nat /\ Locks \subseteq Nat
    /\ I128Max \in Nat /\ I128Min \in Int /\ I128Min < 0

\* The sum of the amounts of some entries of a batch.
EntrySum(rs, S) == SumFunctionOnSet([i \in DOMAIN rs |-> rs[i].amount], S)

VARIABLES
    admin,        \* Admin key
    pending,      \* PendingAdmin key
    cap,          \* MaxSupply key
    supply,       \* TotalSupply key
    bal,          \* Balance keys
    allow,        \* Allowance keys
    paused,       \* Paused key
    frozen,       \* accounts with a Frozen key
    blacklisted,  \* accounts with a Blacklisted key
    treasury,     \* ComplianceTreasury key
    lock          \* TransferLock keys, NoLock while absent

vars == <<now, admin, pending, cap, supply, bal, allow, paused, frozen, blacklisted,
          treasury, lock>>

NoLock == -1
Allowances == [amount : Int, expires : Nat]
Expired == [amount |-> 0, expires |-> 0]  \* also what an absent entry reads as

----
(* Guards shared by the entry points.                                      *)

Locked(a) == now <= lock[a]

\* Mutant: a frozen or blacklisted account is not looked up.
UnrestrictedUnchecked(from) == ~paused

\* What the transfer and burn families check of the account that pays.
Unrestricted(from) == ~paused /\ from \notin frozen /\ from \notin blacklisted

\* read_active_allowance
Active(k) == IF now <= allow[k].expires THEN allow[k] ELSE Expired

\* Mutant: the cap compared before the amount is added.
BelowCapStale(x) == cap # None => supply <= cap

BelowCap(x) == cap # None => supply + x <= cap

\* update_balance
Fits(b, a, delta) == b[a] + delta \in 0..I128Max
Updated(b, a, delta) == [b EXCEPT ![a] = @ + delta]

\* transfer_impl.  The hook call that ends it is fire-and-forget and the host
\* forbids it to re-enter the token.
TransferImpl(from, to, x) ==
    IF from = to THEN UNCHANGED bal
    ELSE /\ x > 0
         /\ ~Locked(from)
         /\ Fits(bal, from, -x)
         /\ Fits(bal, to, x)
         /\ bal' = Updated(Updated(bal, from, -x), to, x)

\* What a batch credits to a: every entry that names it.
Credited(rs, a) == EntrySum(rs, {i \in DOMAIN rs : rs[i].to = a})
BatchTotal(rs) == EntrySum(rs, DOMAIN rs)
PositiveEntries(rs) == \A i \in DOMAIN rs : rs[i].amount > 0

----
Init ==
    /\ now = 0 /\ admin = None /\ pending = None /\ cap = None /\ supply = 0
    /\ bal = [a \in Accounts |-> 0]
    /\ allow = [k \in Accounts \X Accounts |-> Expired]
    /\ paused = FALSE /\ frozen = {} /\ blacklisted = {} /\ treasury = None
    /\ lock = [a \in Accounts |-> NoLock]

Initialize(a, c) ==
    /\ admin = None
    /\ c # None => c > 0
    /\ admin' = a /\ cap' = c /\ supply' = 0
    /\ UNCHANGED <<now, pending, bal, allow, paused, frozen, blacklisted, treasury, lock>>

(* Supply.  The admin authorizes the first three.                          *)

\* Mutant: the new total is not stored.
MintUncounted(to, x) ==
    /\ ~paused /\ admin # None /\ x > 0
    /\ BelowCap(x) /\ Fits(bal, to, x) /\ supply + x <= I128Max
    /\ bal' = Updated(bal, to, x)
    /\ UNCHANGED <<now, admin, pending, cap, supply, allow, paused, frozen, blacklisted,
                   treasury, lock>>

Mint(to, x) ==
    /\ ~paused
    /\ admin # None
    /\ x > 0
    /\ BelowCap(x)
    /\ Fits(bal, to, x)
    /\ supply + x <= I128Max
    /\ bal' = Updated(bal, to, x)
    /\ supply' = supply + x
    /\ UNCHANGED <<now, admin, pending, cap, allow, paused, frozen, blacklisted,
                   treasury, lock>>

BatchMint(rs) ==
    /\ ~paused
    /\ admin # None
    /\ PositiveEntries(rs)
    /\ BatchTotal(rs) <= I128Max
    /\ BelowCap(BatchTotal(rs))
    /\ \A a \in Accounts : bal[a] + Credited(rs, a) <= I128Max
    /\ supply + BatchTotal(rs) <= I128Max
    /\ bal' = [a \in Accounts |-> bal[a] + Credited(rs, a)]
    /\ supply' = supply + BatchTotal(rs)
    /\ UNCHANGED <<now, admin, pending, cap, allow, paused, frozen, blacklisted,
                   treasury, lock>>

AdminBurn(from, x) ==
    /\ ~paused
    /\ admin # None
    /\ x > 0
    /\ Fits(bal, from, -x)
    /\ supply - x >= I128Min
    /\ bal' = Updated(bal, from, -x)
    /\ supply' = supply - x
    /\ UNCHANGED <<now, admin, pending, cap, allow, paused, frozen, blacklisted,
                   treasury, lock>>

\* The holder.
Burn(from, x) ==
    /\ Unrestricted(from)
    /\ x > 0
    /\ Fits(bal, from, -x)
    /\ supply - x >= I128Min
    /\ bal' = Updated(bal, from, -x)
    /\ supply' = supply - x
    /\ UNCHANGED <<now, admin, pending, cap, allow, paused, frozen, blacklisted,
                   treasury, lock>>

----
(* Transfers.                                                              *)

\* The holder.
Transfer(from, to, x) ==
    /\ Unrestricted(from)
    /\ ~Locked(from)
    /\ TransferImpl(from, to, x)
    /\ UNCHANGED <<now, admin, pending, cap, supply, allow, paused, frozen, blacklisted,
                   treasury, lock>>

\* transfer_batch and transfer_to_many, which differ in their events only.  The
\* total leaves the sender; an entry that names the sender is not credited.
TransferBatch(from, rs) ==
    /\ Unrestricted(from)
    /\ ~Locked(from)
    /\ rs # <<>>
    /\ PositiveEntries(rs)
    /\ BatchTotal(rs) <= bal[from]
    /\ \A a \in Accounts \ {from} : bal[a] + Credited(rs, a) <= I128Max
    /\ bal' = [a \in Accounts |-> IF a = from THEN bal[a] - BatchTotal(rs)
                                  ELSE bal[a] + Credited(rs, a)]
    /\ UNCHANGED <<now, admin, pending, cap, supply, allow, paused, frozen, blacklisted,
                   treasury, lock>>

(* Allowances.  k is <<from, spender>>.                                    *)

\* Mutant: the deduction not written back.
DeductKept(k, x) ==
    /\ Active(k).amount >= x
    /\ allow' = [allow EXCEPT ![k] = Active(k)]

\* validate_and_deduct_allowance
Deduct(k, x) ==
    /\ Active(k).amount >= x
    /\ Active(k).amount - x <= I128Max
    /\ allow' = [allow EXCEPT ![k] = [amount |-> Active(k).amount - x,
                                      expires |-> Active(k).expires]]

\* The spender.
TransferFrom(k, to, x) ==
    /\ Unrestricted(k[1])
    /\ ~Locked(k[1])
    /\ Deduct(k, x)
    /\ TransferImpl(k[1], to, x)
    /\ UNCHANGED <<now, admin, pending, cap, supply, paused, frozen, blacklisted,
                   treasury, lock>>

\* The spender.
BurnFrom(k, x) ==
    /\ Unrestricted(k[1])
    /\ Deduct(k, x)
    /\ Fits(bal, k[1], -x)
    /\ supply - x \in I128Min..I128Max
    /\ bal' = Updated(bal, k[1], -x)
    /\ supply' = supply - x
    /\ UNCHANGED <<now, admin, pending, cap, paused, frozen, blacklisted, treasury, lock>>

\* set_allowance: any amount, any ledger.
SetAllowance(k, x, exp) == allow' = [allow EXCEPT ![k] = [amount |-> x, expires |-> exp]]

\* The owner.
Approve(k, x, exp) ==
    /\ ~paused
    /\ SetAllowance(k, x, exp)
    /\ UNCHANGED <<now, admin, pending, cap, supply, bal, paused, frozen, blacklisted,
                   treasury, lock>>

\* The owner.  An expired approval restarts from 0 and stays expired.
IncreaseAllowance(k, delta) ==
    /\ Active(k).amount + delta \in I128Min..I128Max
    /\ SetAllowance(k, Active(k).amount + delta, Active(k).expires)
    /\ UNCHANGED <<now, admin, pending, cap, supply, bal, paused, frozen, blacklisted,
                   treasury, lock>>

\* The owner.  checked_sub fails on i128 overflow only, not below zero.
DecreaseAllowance(k, delta) ==
    /\ Active(k).amount - delta \in I128Min..I128Max
    /\ SetAllowance(k, Active(k).amount - delta, Active(k).expires)
    /\ UNCHANGED <<now, admin, pending, cap, supply, bal, paused, frozen, blacklisted,
                   treasury, lock>>

----
(* Administration.                                                         *)

ProposeAdmin(a) ==
    /\ admin # None
    /\ pending' = a
    /\ UNCHANGED <<now, admin, cap, supply, bal, allow, paused, frozen, blacklisted,
                   treasury, lock>>

AcceptAdmin ==
    /\ pending # None
    /\ admin' = pending /\ pending' = None
    /\ UNCHANGED <<now, cap, supply, bal, allow, paused, frozen, blacklisted, treasury, lock>>

CancelAdminProposal ==
    /\ admin # None
    /\ pending' = None
    /\ UNCHANGED <<now, admin, cap, supply, bal, allow, paused, frozen, blacklisted,
                   treasury, lock>>

\* The deprecated one-step handover; an open proposal survives it.
SetAdmin(a) ==
    /\ admin # None
    /\ admin' = a
    /\ UNCHANGED <<now, pending, cap, supply, bal, allow, paused, frozen, blacklisted,
                   treasury, lock>>

SetPaused(p) ==
    /\ admin # None
    /\ paused' = p
    /\ UNCHANGED <<now, admin, pending, cap, supply, bal, allow, frozen, blacklisted,
                   treasury, lock>>

\* freeze_account and unfreeze_account
SetFrozen(a, on) ==
    /\ admin # None
    /\ frozen' = IF on THEN frozen \cup {a} ELSE frozen \ {a}
    /\ UNCHANGED <<now, admin, pending, cap, supply, bal, allow, paused, blacklisted,
                   treasury, lock>>

\* blacklist and unblacklist
SetBlacklisted(a, on) ==
    /\ admin # None
    /\ blacklisted' = IF on THEN blacklisted \cup {a} ELSE blacklisted \ {a}
    /\ UNCHANGED <<now, admin, pending, cap, supply, bal, allow, paused, frozen,
                   treasury, lock>>

SetComplianceTreasury(a) ==
    /\ admin # None
    /\ treasury' = a
    /\ UNCHANGED <<now, admin, pending, cap, supply, bal, allow, paused, frozen,
                   blacklisted, lock>>

\* Not stopped by a pause.
ConfiscateBlacklisted(a, x) ==
    /\ admin # None
    /\ x > 0
    /\ a \in blacklisted
    /\ treasury # None
    /\ Fits(bal, a, -x)
    /\ Fits(Updated(bal, a, -x), treasury, x)
    /\ bal' = Updated(Updated(bal, a, -x), treasury, x)
    /\ UNCHANGED <<now, admin, pending, cap, supply, allow, paused, frozen, blacklisted,
                   treasury, lock>>

SetTransferLock(a, ledger) ==
    /\ admin # None
    /\ lock' = [lock EXCEPT ![a] = ledger]
    /\ UNCHANGED <<now, admin, pending, cap, supply, bal, allow, paused, frozen,
                   blacklisted, treasury>>

Tick ==
    /\ LedgerCloses
    /\ UNCHANGED <<admin, pending, cap, supply, bal, allow, paused, frozen, blacklisted,
                   treasury, lock>>

----
SupplyStep ==
    \/ \E a \in Accounts, x \in Amounts : Mint(a, x) \/ AdminBurn(a, x) \/ Burn(a, x)
    \/ \E rs \in Batches : BatchMint(rs)

TransferStep ==
    \/ \E a, b \in Accounts, x \in Amounts : Transfer(a, b, x)
    \/ \E a \in Accounts, rs \in Batches : TransferBatch(a, rs)

SpendStep ==
    \/ \E k \in Pairs, b \in Accounts, x \in Amounts : TransferFrom(k, b, x)
    \/ \E k \in Pairs, x \in Amounts : BurnFrom(k, x)

AllowanceStep ==
    \/ \E k \in Pairs, x \in Amounts, e \in Expiries : Approve(k, x, e)
    \/ \E k \in Pairs, x \in Amounts : IncreaseAllowance(k, x) \/ DecreaseAllowance(k, x)

AdminStep ==
    \/ \E a \in Admins, c \in Caps : Initialize(a, c)
    \/ \E a \in Admins : ProposeAdmin(a) \/ SetAdmin(a)
    \/ AcceptAdmin
    \/ CancelAdminProposal
    \/ \E p \in BOOLEAN : SetPaused(p)
    \/ \E a \in Targets, on \in BOOLEAN : SetFrozen(a, on) \/ SetBlacklisted(a, on)
    \/ \E a \in Treasuries : SetComplianceTreasury(a)
    \/ \E a \in Targets, x \in Amounts : ConfiscateBlacklisted(a, x)
    \/ \E a \in Targets, l \in Locks : SetTransferLock(a, l)

Next == SupplyStep \/ TransferStep \/ SpendStep \/ AllowanceStep \/ AdminStep \/ Tick

Spec == Init /\ [][Next]_vars

----
(* Properties.                                                             *)

\* Every key keeps its type; balances in particular never go below zero.
TypeOK ==
    /\ now \in Nat
    /\ admin \in Accounts \cup {None} /\ pending \in Accounts \cup {None}
    /\ treasury \in Accounts \cup {None}
    /\ cap \in Nat \cup {None}
    /\ supply \in Int
    /\ bal \in [Accounts -> Nat]
    /\ allow \in [Accounts \X Accounts -> Allowances]
    /\ paused \in BOOLEAN
    /\ frozen \subseteq Accounts /\ blacklisted \subseteq Accounts
    /\ lock \in [Accounts -> Nat \cup {NoLock}]

Circulating == SumFunctionOnSet(bal, Accounts)

\* prop_total_supply_matches_sum_of_balances, for every sequence of calls.
SupplyMatchesBalances == Circulating = supply

\* The cap agreed at initialize binds every mint and batch, after any burns and
\* re-mints (prop_total_supply_never_exceeds_cap).  The one call that takes the
\* supply past it is burn_from of a negative amount, which
\* test_burn_from_negative_amount_returns_invalid_amount (test.rs:386) expects to
\* be refused: burn_from never looks at the sign.
CapRespected ==
    [][cap' # None /\ supply' > cap' /\ supply' > supply =>
          \E k \in Accounts \X Accounts : BurnFrom(k, supply - supply')]_vars

\* A frozen or blacklisted account loses tokens only to the admin: to admin_burn
\* or confiscate_blacklisted, never through its own or a spender's calls.
RestrictedHolds ==
    [][\A a \in frozen \cup blacklisted :
          LET lost == bal[a] - bal'[a] IN
          lost > 0 => AdminBurn(a, lost) \/ ConfiscateBlacklisted(a, lost)]_vars

\* Tokens under a transfer lockup may be destroyed or confiscated; until the
\* lock ledger has passed they never reach another holder's hands otherwise.
LockedHolds ==
    [][\A a \in Accounts :
          LET lost == bal[a] - bal'[a] IN
          now <= lock[a] /\ lost > 0 => supply' = supply - lost \/ ConfiscateBlacklisted(a, lost)]_vars

\* While paused no balance and no supply moves, except by confiscation.
PausedHolds ==
    [][paused /\ <<bal, supply>>' # <<bal, supply>> =>
          \E a \in blacklisted : bal'[a] < bal[a] /\ supply' = supply]_vars

\* Freezing, blacklisting, a lockup and the pause bind together, whichever of them
\* is set or lifted in between and by whatever entry point tokens would leave.
RestrictionsBind == RestrictedHolds /\ LockedHolds /\ PausedHolds
====
