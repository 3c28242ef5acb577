---- MODULE TokenPermit ----
(***************************************************************************)
(* Signature-based approvals (contracts/token/src/permit.rs).  Permits are *)
(* the signed messages in circulation: anybody may submit any of them, in  *)
(* any order, at any time and any number of times.  A permit records the   *)
(* key it was signed with; ed25519_verify is external and accepts exactly  *)
(* the permits signed with the key registered for their owner.             *)
(***************************************************************************)
EXTENDS Token

CONSTANTS
    Permits,  \* [owner, spender, amount, nonce, expiry, key]
    Keys,     \* ed25519 public keys
    U32Max    \* the largest nonce

ASSUME PermitAssumption ==
    /\ None \notin Keys
    /\ U32Max \in Nat
    /\ Permits \subseteq [owner : Accounts, spender : Accounts, amount : Int,
                          nonce : Nat, expiry : Nat, key : Keys]

VARIABLES
    signer,     \* PermitSigner keys
    nonce,      \* PermitNonce keys
    cancelled,  \* CancelledPermitNonce keys
    applied     \* the permit_used events so far

permitVars == <<signer, nonce, cancelled, applied>>
permitAllVars == <<vars, permitVars>>

Owners == {p.owner : p \in Permits}
Nonces == {p.nonce : p \in Permits}

PermitInit ==
    /\ Init
    /\ signer = [o \in Owners |-> None]
    /\ nonce = [o \in Owners |-> 0]
    /\ cancelled = [o \in Owners |-> {}]
    /\ applied = {}

\* The owner; also rotates the key.
SetPermitSigner(o, key) ==
    /\ signer' = [signer EXCEPT ![o] = key]
    /\ UNCHANGED <<vars, nonce, cancelled, applied>>

\* The owner; any nonce, used or not.
CancelPermitNonce(o, n) ==
    /\ cancelled' = [cancelled EXCEPT ![o] = @ \cup {n}]
    /\ UNCHANGED <<vars, signer, nonce, applied>>

\* Mutant: a nonce that is no longer current is accepted.
NonceCurrentOrPast(p) == p.nonce <= nonce[p.owner]

NonceCurrent(p) == p.nonce = nonce[p.owner]

\* Mutant: the cancellation not looked up.
NonceOpenUnchecked(p) == TRUE

NonceOpen(p) == p.nonce \notin cancelled[p.owner]

\* Anyone.
ApproveWithSignature(p) ==
    /\ ~paused
    /\ now <= p.expiry
    /\ NonceCurrent(p)
    /\ NonceOpen(p)
    /\ signer[p.owner] = p.key
    /\ nonce[p.owner] < U32Max
    /\ nonce' = [nonce EXCEPT ![p.owner] = @ + 1]
    /\ SetAllowance(<<p.owner, p.spender>>, p.amount, p.expiry)
    /\ applied' = applied \cup {p}
    /\ UNCHANGED <<now, admin, pending, cap, supply, bal, paused, frozen, blacklisted,
                   treasury, lock, signer, cancelled>>

PermitNext ==
    \/ \E o \in Owners, key \in Keys : SetPermitSigner(o, key)
    \/ \E o \in Owners, n \in Nonces : CancelPermitNonce(o, n)
    \/ \E p \in Permits : ApproveWithSignature(p)
    \/ Next /\ UNCHANGED permitVars

PermitSpec == PermitInit /\ [][PermitNext]_permitAllVars

\* The permits an owner's nonce counts are distinct messages with distinct nonces,
\* one for each nonce below the current one: none is replayed, none is skipped.
PermitsAppliedOnce ==
    \A o \in Owners :
        LET used == {p \in applied : p.owner = o} IN
        /\ Cardinality(used) = nonce[o]
        /\ {p.nonce : p \in used} = 0..(nonce[o] - 1)

\* A permit revoked before it was used never takes effect: no later permit of
\* that owner does either, since the owner's nonce never moves past it.
RevokedStaysRevoked ==
    [][\A o \in Owners : \A n \in cancelled[o] :
          (\A p \in applied : p.owner = o => p.nonce # n)
              => (\A p \in applied' : p.owner = o => p.nonce < n \/ p \in applied)]_permitAllVars
====
