---- MODULE Subscription ----
(***************************************************************************)
(* Recurring payments (contracts/subscription): plans, trials, prepayment, *)
(* pulled charges with a grace period, switches with pro-rated credit.     *)
(*                                                                         *)
(* The source holds pieces of two versions.  Modelled is the one billed    *)
(* per subscriber and plan by charge_one, whose functions are complete;    *)
(* metering and the release of prepaid money belong to the fragments.      *)
(* replacedPrepaid is a history variable.                                  *)
(***************************************************************************)
EXTENDS HostClock, SequencesExt, FiniteSetsExt

CONSTANTS
    Subscribers,     \* addresses other than the provider's
    SubscriberFunds, \* what a subscriber holds at first
    PlanIds,         \* symbols
    PlanTerms,       \* candidate [id, amount, interval, discount]
    Trials,          \* candidate trial_ledgers
    Prepays,         \* candidate prepay_intervals
    GracePeriods,    \* candidate grace periods; the longest is the default
    Approvals,       \* candidate allowances
    ChargeLists,     \* candidate sequences of <<subscriber, plan>>
    BpsDenominator,  \* 10_000 in the code
    NoPlan           \* an absent record or ledger

\* A subscription record.
Infos == [amount : Int, interval : Nat \ {0}, prepaid : Int, trial : Nat, trialDone : BOOLEAN, last : Int,
          active : BOOLEAN, suspended : BOOLEAN, since : Int \cup {NoPlan}]

ASSUME SubscriptionAssumption ==
    /\ IsFiniteSet(Subscribers) /\ IsFiniteSet(PlanIds)
    /\ SubscriberFunds \in Nat /\ Trials \subseteq Nat /\ Prepays \subseteq Nat
    /\ GracePeriods \subseteq Nat /\ GracePeriods # {} /\ Approvals \subseteq Nat
    /\ BpsDenominator \in Nat \ {0} /\ NoPlan \notin Int /\ NoPlan \notin Infos
    /\ \A t \in PlanTerms : t.id \in PlanIds /\ {t.interval, t.discount} \subseteq Nat /\ t.amount \in Int
    /\ \A l \in ChargeLists : l \in Seq(Subscribers \X PlanIds)

VARIABLES
    provider,   \* Provider key is set
    plans,      \* Plan keys
    subs,       \* Subscription keys
    grace,      \* GracePeriod key
    subBal,     \* what the subscribers hold
    subAllow,   \* what the contract may pull from them
    received,   \* what the provider got from each subscriber
    prepaidPot, \* what the contract holds
    replacedPrepaid  \* prepaid money of records that a new subscription replaced

subscriptionOnlyVars == <<provider, plans, subs, grace, subBal, subAllow, received, prepaidPot, replacedPrepaid>>
subscriptionVars == <<now, subscriptionOnlyVars>>

SubscriptionInit ==
    /\ now = 0
    /\ provider = FALSE /\ plans = [p \in PlanIds |-> NoPlan]
    /\ subs = [s \in Subscribers |-> [p \in PlanIds |-> NoPlan]]
    /\ grace = CHOOSE g \in GracePeriods : \A h \in GracePeriods : g >= h
    /\ subBal = [s \in Subscribers |-> SubscriberFunds]
    /\ subAllow = [s \in Subscribers |-> 0]
    /\ received = [s \in Subscribers |-> 0]
    /\ prepaidPot = 0 /\ replacedPrepaid = 0

\* The provider, once.
InitializeSubscription ==
    /\ ~provider
    /\ provider' = TRUE
    /\ UNCHANGED <<now, plans, subs, grace, subBal, subAllow, received, prepaidPot, replacedPrepaid>>

\* The provider.
SetGracePeriod(g) ==
    /\ provider
    /\ grace' = g
    /\ UNCHANGED <<now, provider, plans, subs, subBal, subAllow, received, prepaidPot, replacedPrepaid>>

\* The provider; a plan is never replaced.
RegisterPlan(t) ==
    /\ provider
    /\ t.amount > 0 /\ t.interval # 0 /\ t.discount <= BpsDenominator
    /\ plans[t.id] = NoPlan
    /\ plans' = [plans EXCEPT ![t.id] =
                   [amount |-> t.amount, interval |-> t.interval, discount |-> t.discount, active |-> TRUE]]
    /\ UNCHANGED <<now, provider, subs, grace, subBal, subAllow, received, prepaidPot, replacedPrepaid>>

\* The provider; only new subscriptions look at the flag.
SetPlanActive(p, on) ==
    /\ provider /\ plans[p] # NoPlan
    /\ plans' = [plans EXCEPT ![p].active = on]
    /\ UNCHANGED <<now, provider, subs, grace, subBal, subAllow, received, prepaidPot, replacedPrepaid>>

\* The payment token's approve, by a subscriber.
Approve(s, x) ==
    /\ subAllow' = [subAllow EXCEPT ![s] = x]
    /\ UNCHANGED <<now, provider, plans, subs, grace, subBal, received, prepaidPot, replacedPrepaid>>

PrepayCost(amount, intervals, discount) ==
    (amount * intervals * (BpsDenominator - discount)) \div BpsDenominator

Holds(s, p) == subs[s][p] # NoPlan /\ subs[s][p].active

\* A new record for plan p; last is the ledger its interval is measured from.
NewSubscription(p, trial, trialDone, last, prepaid) ==
    [amount |-> plans[p].amount, interval |-> plans[p].interval, prepaid |-> prepaid, trial |-> trial,
     trialDone |-> trialDone, last |-> last, active |-> TRUE, suspended |-> FALSE, since |-> NoPlan]

Left(info) == IF info = NoPlan THEN 0 ELSE info.prepaid

\* The subscriber.
Subscribe(s, p, trial, intervals) ==
    LET cost == PrepayCost(plans[p].amount, intervals, plans[p].discount) IN
    /\ provider
    /\ plans[p] # NoPlan /\ plans[p].active
    /\ ~Holds(s, p)
    /\ subBal[s] >= cost
    /\ replacedPrepaid' = replacedPrepaid + Left(subs[s][p])
    /\ subs' = [subs EXCEPT ![s][p] = NewSubscription(p, trial, trial = 0, now, cost)]
    /\ subBal' = [subBal EXCEPT ![s] = @ - cost]
    /\ prepaidPot' = prepaidPot + cost
    /\ UNCHANGED <<now, provider, plans, grace, subAllow, received>>

\* Due for charge_one: the trial is over, or else a whole interval is.
Due(info) ==
    /\ info # NoPlan
    /\ info.active /\ ~info.suspended
    /\ now >= info.last + (IF info.trialDone THEN info.interval ELSE info.trial)

\* Mutant: a payment leaves the old delinquency in place.
SettledLate(info) == [info EXCEPT !.last = now]

\* A payment starts a new interval and ends the delinquency.
Settled(info) == [info EXCEPT !.last = now, !.since = NoPlan]

\* A failed payment: delinquent since the first failure, suspended after the grace period.
Missed(info) ==
    LET since == IF info.since = NoPlan THEN now ELSE info.since
        over == now >= since + grace
    IN [info EXCEPT !.since = since, !.active = ~over, !.suspended = over]

\* charge_one on what a charge touches; an entry that is not due changes nothing.
ChargeOne(st, s, p) ==
    LET info == st.subs[s][p]
        paid == st.bal[s] >= info.amount /\ st.allow[s] >= info.amount
    IN CASE ~Due(info) -> st
         [] Due(info) /\ ~info.trialDone ->
              [st EXCEPT !.subs[s][p] = [info EXCEPT !.trialDone = TRUE, !.last = now]]
         [] Due(info) /\ info.trialDone /\ paid ->
              [st EXCEPT !.subs[s][p] = Settled(info), !.bal[s] = @ - info.amount,
                         !.allow[s] = @ - info.amount, !.got[s] = @ + info.amount]
         [] OTHER -> [st EXCEPT !.subs[s][p] = Missed(info)]

\* The provider; a single charge is a list of one that must be due.
ChargeBatch(list) ==
    LET st == [subs |-> subs, bal |-> subBal, allow |-> subAllow, got |-> received]
        end == FoldLeft(LAMBDA acc, e : ChargeOne(acc, e[1], e[2]), st, list)
    IN
    /\ provider
    /\ Len(list) = 1 => Due(subs[list[1][1]][list[1][2]])
    /\ subs' = end.subs /\ subBal' = end.bal /\ subAllow' = end.allow /\ received' = end.got
    /\ UNCHANGED <<now, provider, plans, grace, prepaidPot, replacedPrepaid>>

\* prorate: what the rest of the interval is worth.
Credit(old) == (old.amount * (old.last + old.interval - now)) \div old.interval

\* prorate: the first ledger of the new plan's interval.
SwitchedFrom(credit, plan) ==
    IF credit < plan.amount THEN now
    ELSE LET bought == (credit * plan.interval) \div plan.amount IN
         now + (IF bought > plan.interval THEN bought - plan.interval ELSE 0)

\* The subscriber; a trial is carried over, and otherwise nothing may be due.
ChangePlan(s, p, q) ==
    LET old == subs[s][p]
        credit == IF old.trialDone THEN Credit(old) ELSE 0
        charge == IF old.trialDone /\ credit < plans[q].amount THEN plans[q].amount - credit ELSE 0
        last == IF old.trialDone THEN SwitchedFrom(credit, plans[q]) ELSE old.last
    IN
    /\ provider
    /\ Holds(s, p) /\ ~old.suspended
    /\ plans[q] # NoPlan /\ plans[q].active
    /\ ~Holds(s, q)
    /\ old.trialDone => old.since = NoPlan /\ old.last + old.interval > now
    /\ subBal[s] >= charge /\ subAllow[s] >= charge
    /\ replacedPrepaid' = replacedPrepaid + Left(subs[s][q])
    /\ subs' = [subs EXCEPT ![s][p].active = FALSE,
                            ![s][q] = NewSubscription(q, old.trial, old.trialDone, last, 0)]
    /\ subBal' = [subBal EXCEPT ![s] = @ - charge]
    /\ subAllow' = [subAllow EXCEPT ![s] = @ - charge]
    /\ received' = [received EXCEPT ![s] = @ + charge]
    /\ UNCHANGED <<now, provider, plans, grace, prepaidPot>>

\* Mutant: the refunded money stays on record.
Closed(info) == [info EXCEPT !.active = FALSE]

\* A cancelled record keeps no prepaid money.
Emptied(info) == [info EXCEPT !.active = FALSE, !.prepaid = 0]

\* The subscriber; prepaid money is paid back.
CancelSubscription(s, p) ==
    /\ provider
    /\ Holds(s, p)
    /\ prepaidPot >= subs[s][p].prepaid
    /\ subs' = [subs EXCEPT ![s][p] = Emptied(@)]
    /\ prepaidPot' = prepaidPot - subs[s][p].prepaid
    /\ subBal' = [subBal EXCEPT ![s] = @ + subs[s][p].prepaid]
    /\ UNCHANGED <<now, provider, plans, grace, subAllow, received, replacedPrepaid>>

SubscriptionNext ==
    \/ InitializeSubscription
    \/ \E g \in GracePeriods : SetGracePeriod(g)
    \/ \E t \in PlanTerms : RegisterPlan(t)
    \/ \E p \in PlanIds, on \in BOOLEAN : SetPlanActive(p, on)
    \/ \E s \in Subscribers, x \in Approvals : Approve(s, x)
    \/ \E s \in Subscribers, p \in PlanIds, d \in Trials, n \in Prepays : Subscribe(s, p, d, n)
    \/ \E l \in ChargeLists : ChargeBatch(l)
    \/ \E s \in Subscribers, p, q \in PlanIds : ChangePlan(s, p, q)
    \/ \E s \in Subscribers, p \in PlanIds : CancelSubscription(s, p)
    \/ LedgerCloses /\ UNCHANGED subscriptionOnlyVars

SubscriptionSpec == SubscriptionInit /\ [][SubscriptionNext]_subscriptionVars

----
(* Properties.                                                             *)

Records == {r \in Subscribers \X PlanIds : subs[r[1]][r[2]] # NoPlan}

\* What each record says was prepaid.
PrepaidOn == [r \in Subscribers \X PlanIds |-> Left(subs[r[1]][r[2]])]

\* The contract holds what every record says was prepaid, through refunds, suspension,
\* switches and charges, and beyond it exactly what stood on records that a later
\* subscribe or switch replaced.  Without such a replacement the two are equal; with
\* one the money is on no record and cannot be refunded: subscribe takes a suspended
\* plan's place (lib.rs:476-484), where ADR-0012:87 has AlreadySubscribed.
PrepaidAccounted == prepaidPot = replacedPrepaid + SumFunctionOnSet(PrepaidOn, Subscribers \X PlanIds)

\* The grace period is measured in the interval that is unpaid: a delinquency
\* starts after the payment was due, so a subscriber who has paid since is not
\* suspended for an older failure.
DelinquencyIsCurrent ==
    \A r \in Records :
        LET info == subs[r[1]][r[2]] IN
        /\ info.since # NoPlan => info.since >= info.last + info.interval
        /\ info.suspended => info.since # NoPlan
====
