---- MODULE WrappedToken ----
(***************************************************************************)
(* The wrapped token (contracts/wrapped-token): an underlying token goes   *)
(* into a reserve and wrapped tokens are minted for it, less fees, within  *)
(* a quota, pauses, a rate limit and what a reserve oracle reports.        *)
(*                                                                         *)
(* wrap and unwrap are defined twice.  The short definitions are a batch   *)
(* of one and covered by WrapBatch and UnwrapBatch; Wrap and Unwrap model  *)
(* the long ones.  The underlying token may keep a tax on every transfer.  *)
(* shortBatch is a history variable.                                       *)
(***************************************************************************)
EXTENDS HostClock, SequencesExt, FiniteSetsExt

CONSTANTS
    Wrappers,      \* users
    WrapperFunds,  \* underlying tokens of a user at first
    WrapTerms,     \* candidate [cap, wrapFee, unwrapFee, min, recipient] of initialize
    WrapTaxes,     \* what the underlying token keeps of a transfer
    WrapAmounts,   \* candidate amounts
    WrapBatches,   \* candidate sequences of <<recipient, amount>>
    MinAmounts,    \* candidate minima
    RateLimits,    \* candidate [limit, window]
    Reserves,      \* what the reserve oracle may answer
    FeeBase,       \* BPS_DENOMINATOR, 10_000 in the code
    NoLimit        \* an absent cap, minimum, rate limit or window

ASSUME WrappedTokenAssumption ==
    /\ WrapperFunds \in Nat /\ WrapTaxes \subseteq Nat /\ WrapAmounts \subseteq Int /\ Reserves \subseteq Nat
    /\ FeeBase \in Nat \ {0} /\ IsFiniteSet(Wrappers) /\ NoLimit \notin Int /\ MinAmounts \subseteq Int \cup {NoLimit}
    /\ \A t \in WrapTerms : {t.wrapFee, t.unwrapFee} \subseteq Nat /\ {t.cap, t.min} \subseteq Int \cup {NoLimit}
                            /\ t.recipient \in BOOLEAN
    /\ \A b \in WrapBatches : b \in Seq(Wrappers \X Int)
    /\ \A r \in RateLimits : {r.limit, r.window} \subseteq Int

VARIABLES
    wrapper,      \* terms given to initialize
    wrapOpen,     \* Admin key is set
    wrapPaused,   \* WrapPaused key
    unwrapPaused, \* UnwrapPaused key
    minAmount,    \* MinAmount key
    rate,         \* UnwrapRateLimit and UnwrapRateWindow keys
    ratePaused,   \* UnwrapRateLimitPaused key
    usage,        \* UnwrapRateUsage key
    callUsage,    \* check_and_record's entry
    porOracle,    \* PorOracle key is set
    totalWrapped, \* TotalWrapped key
    quotaUsed,    \* WrappedByAddress keys
    wrappedBal,   \* wrapped tokens of the users
    underBal,     \* underlying tokens of the users
    reserve,      \* underlying tokens of the contract
    tax,          \* what the underlying token keeps
    shortBatch    \* a batch was wrapped although the token keeps a tax

wrapAdminVars == <<wrapper, wrapPaused, unwrapPaused, minAmount, rate, ratePaused, porOracle, tax>>
wrapMoneyVars == <<totalWrapped, quotaUsed, wrappedBal, underBal, reserve, shortBatch>>
wrappedOnlyVars == <<wrapAdminVars, wrapOpen, usage, callUsage, wrapMoneyVars>>
wrappedVars == <<now, wrappedOnlyVars>>

WrappedInit ==
    /\ now = 0
    /\ wrapper \in WrapTerms /\ tax \in WrapTaxes
    /\ wrapOpen = FALSE /\ wrapPaused = FALSE /\ unwrapPaused = FALSE /\ minAmount = NoLimit
    /\ rate = NoLimit /\ ratePaused = FALSE /\ usage = NoLimit /\ callUsage = NoLimit /\ porOracle = FALSE
    /\ totalWrapped = 0 /\ reserve = 0 /\ shortBatch = FALSE
    /\ quotaUsed = [u \in Wrappers |-> 0] /\ wrappedBal = [u \in Wrappers |-> 0]
    /\ underBal = [u \in Wrappers |-> WrapperFunds]

\* The admin, once; fees need a recipient.
InitializeWrapper ==
    LET t == wrapper IN
    /\ ~wrapOpen
    /\ t.wrapFee <= FeeBase /\ t.unwrapFee <= FeeBase
    /\ (t.wrapFee > 0 \/ t.unwrapFee > 0) => t.recipient
    /\ t.cap # NoLimit => t.cap > 0
    /\ t.min # NoLimit => t.min > 0
    /\ wrapOpen' = TRUE /\ minAmount' = t.min
    /\ UNCHANGED <<now, wrapper, wrapPaused, unwrapPaused, rate, ratePaused, porOracle, tax, usage, callUsage, wrapMoneyVars>>

\* The admin's switches: set_wrap_paused and set_unwrap_paused, and both with pause and unpause.
SetWrapPauses(w, u) ==
    /\ wrapOpen
    /\ w = u \/ w = wrapPaused \/ u = unwrapPaused
    /\ wrapPaused' = w /\ unwrapPaused' = u
    /\ UNCHANGED <<now, wrapper, wrapOpen, minAmount, rate, ratePaused, porOracle, tax, usage, callUsage, wrapMoneyVars>>

\* The admin.
SetMinAmount(m) ==
    /\ wrapOpen /\ (m # NoLimit => m > 0)
    /\ minAmount' = m
    /\ UNCHANGED <<now, wrapper, wrapOpen, wrapPaused, unwrapPaused, rate, ratePaused, porOracle, tax, usage, callUsage,
                   wrapMoneyVars>>

\* The admin; the usage so far is kept.
SetUnwrapRateLimit(r) ==
    /\ wrapOpen /\ r.limit > 0 /\ r.window # 0
    /\ rate' = r
    /\ UNCHANGED <<now, wrapper, wrapOpen, wrapPaused, unwrapPaused, minAmount, ratePaused, porOracle, tax, usage, callUsage,
                   wrapMoneyVars>>

\* The admin.
SetUnwrapRateLimitPaused(on) ==
    /\ wrapOpen
    /\ ratePaused' = on
    /\ UNCHANGED <<now, wrapper, wrapOpen, wrapPaused, unwrapPaused, minAmount, rate, porOracle, tax, usage, callUsage,
                   wrapMoneyVars>>

\* The admin.
SetPorOracle(on) ==
    /\ wrapOpen
    /\ porOracle' = on
    /\ UNCHANGED <<now, wrapper, wrapOpen, wrapPaused, unwrapPaused, minAmount, rate, ratePaused, tax, usage, callUsage,
                   wrapMoneyVars>>

\* apply_bps_fee.
FeeOf(x, bps) == (x * bps) \div FeeBase

\* A transfer of the underlying token arrives without the tax.
Arrives(x) == IF x > tax THEN x - tax ELSE 0

\* What f makes of the entries of a batch.
Each(batch, f(_)) == [i \in DOMAIN batch |-> f(batch[i][2])]

SumOf(batch, f(_)) == SumFunctionOnSet(Each(batch, f), DOMAIN batch)

\* What the entries of a batch give to u.
ShareOf(batch, f(_), u) == SumFunctionOnSet(Each(batch, f), {i \in DOMAIN batch : batch[i][1] = u})

\* split_batch: every entry is positive and leaves something after the fee.
Splits(batch, bps) ==
    /\ batch # <<>>
    /\ \A i \in DOMAIN batch : batch[i][2] > 0 /\ batch[i][2] > FeeOf(batch[i][2], bps)

\* do_wrap: the quota counts the gross amount, the recipients get the net one.
WrapBatch(u, batch) ==
    LET Gross(x) == x
        Net(x) == x - FeeOf(x, wrapper.wrapFee)
        gross == SumOf(batch, Gross)
        net == SumOf(batch, Net)
    IN
    /\ wrapOpen /\ ~wrapPaused
    /\ Splits(batch, wrapper.wrapFee)
    /\ wrapper.cap # NoLimit => quotaUsed[u] + gross <= wrapper.cap
    /\ underBal[u] >= gross
    /\ quotaUsed' = IF wrapper.cap = NoLimit THEN quotaUsed ELSE [quotaUsed EXCEPT ![u] = @ + gross]
    /\ underBal' = [underBal EXCEPT ![u] = @ - gross]
    /\ reserve' = reserve + Arrives(net)
    /\ wrappedBal' = [v \in Wrappers |-> wrappedBal[v] + ShareOf(batch, Net, v)]
    /\ totalWrapped' = totalWrapped + net
    /\ shortBatch' = (shortBatch \/ tax > 0)
    /\ UNCHANGED <<now, wrapAdminVars, wrapOpen, usage, callUsage>>

\* do_unwrap: the gross amount is burned, the recipients and the fee recipient are paid.
UnwrapBatch(u, batch) ==
    LET Gross(x) == x
        Paid(x) == Arrives(x - FeeOf(x, wrapper.unwrapFee))
        gross == SumOf(batch, Gross)
    IN
    /\ wrapOpen /\ ~unwrapPaused
    /\ Splits(batch, wrapper.unwrapFee)
    /\ totalWrapped >= gross /\ wrappedBal[u] >= gross /\ reserve >= gross
    /\ wrappedBal' = [wrappedBal EXCEPT ![u] = @ - gross]
    /\ underBal' = [v \in Wrappers |-> underBal[v] + ShareOf(batch, Paid, v)]
    /\ reserve' = reserve - gross
    /\ totalWrapped' = totalWrapped - gross
    /\ UNCHANGED <<now, wrapAdminVars, wrapOpen, usage, callUsage, quotaUsed, shortBatch>>

AtLeastMin(x) == x > 0 /\ (minAmount # NoLimit => x >= minAmount)

\* Mutant: mints what was sent, whatever arrived.
Sent(x) == x

\* The change of the reserve's balance.
ActualReceived(x) == Arrives(x)

\* wrap: mints what arrived, if the oracle, when there is one, reports enough (answer).
Wrap(u, x, answer) ==
    LET got == ActualReceived(x) IN
    /\ wrapOpen /\ ~wrapPaused
    /\ AtLeastMin(x)
    /\ underBal[u] >= x /\ got > 0
    /\ wrapper.cap # NoLimit => quotaUsed[u] + got <= wrapper.cap
    /\ porOracle => totalWrapped + got <= answer
    /\ quotaUsed' = IF wrapper.cap = NoLimit THEN quotaUsed ELSE [quotaUsed EXCEPT ![u] = @ + got]
    /\ underBal' = [underBal EXCEPT ![u] = @ - x]
    /\ reserve' = reserve + Arrives(x)
    /\ wrappedBal' = [wrappedBal EXCEPT ![u] = @ + got]
    /\ totalWrapped' = totalWrapped + got
    /\ UNCHANGED <<now, wrapAdminVars, wrapOpen, usage, callUsage, shortBatch>>

\* A counter that starts again when its window is over.
InWindow(counter, window) ==
    IF counter = NoLimit \/ now >= counter.start + window THEN [start |-> now, used |-> 0] ELSE counter

\* enforce_unwrap_rate_limit: the volume and, through check_and_record, the calls.
EnforceUnwrapRateLimit(x) ==
    IF ratePaused \/ rate = NoLimit THEN UNCHANGED <<usage, callUsage>>
    ELSE LET volume == InWindow(usage, rate.window)
             calls == InWindow(callUsage, rate.window)
         IN /\ volume.used + x <= rate.limit
            /\ calls.used < rate.limit
            /\ usage' = [volume EXCEPT !.used = @ + x]
            /\ callUsage' = [calls EXCEPT !.used = @ + 1]

\* unwrap: gives the quota back, without a fee.
Unwrap(u, x) ==
    /\ wrapOpen /\ ~unwrapPaused
    /\ AtLeastMin(x)
    /\ EnforceUnwrapRateLimit(x)
    /\ totalWrapped >= x /\ reserve >= x /\ wrappedBal[u] >= x
    /\ quotaUsed' = IF wrapper.cap = NoLimit THEN quotaUsed ELSE [quotaUsed EXCEPT ![u] = @ - x]
    /\ wrappedBal' = [wrappedBal EXCEPT ![u] = @ - x]
    /\ underBal' = [underBal EXCEPT ![u] = @ + Arrives(x)]
    /\ reserve' = reserve - x
    /\ totalWrapped' = totalWrapped - x
    /\ UNCHANGED <<now, wrapAdminVars, wrapOpen, shortBatch>>

WrappedNext ==
    \/ InitializeWrapper
    \/ \E w, u \in BOOLEAN : SetWrapPauses(w, u)
    \/ \E m \in MinAmounts : SetMinAmount(m)
    \/ \E r \in RateLimits : SetUnwrapRateLimit(r)
    \/ \E on \in BOOLEAN : SetUnwrapRateLimitPaused(on)
    \/ \E on \in BOOLEAN : SetPorOracle(on)
    \/ \E u \in Wrappers, b \in WrapBatches : WrapBatch(u, b)
    \/ \E u \in Wrappers, b \in WrapBatches : UnwrapBatch(u, b)
    \/ \E u \in Wrappers, x \in WrapAmounts, r \in Reserves : Wrap(u, x, r)
    \/ \E u \in Wrappers, x \in WrapAmounts : Unwrap(u, x)
    \/ LedgerCloses /\ UNCHANGED wrappedOnlyVars

WrappedSpec == WrappedInit /\ [][WrappedNext]_wrappedVars

----
(* Properties.                                                             *)

\* Every wrapped token is backed: the reserve holds TotalWrapped and so do the
\* users, through fees, batches, pauses, the rate limit and a token that taxes
\* its transfers, until a batch, which does not measure what arrives, wraps such
\* a token.
WrappedBacked ==
    /\ totalWrapped = SumFunctionOnSet(wrappedBal, Wrappers)
    /\ ~shortBatch => reserve = totalWrapped
====
