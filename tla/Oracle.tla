---- MODULE Oracle ----
(***************************************************************************)
(* The price oracle (contracts/oracle): a price set by the admin, prices   *)
(* submitted by publishers, a history from which averages are read, a feed *)
(* of a further asset with a limit on deviation, and the publishers' bonds.*)
(*                                                                         *)
(* Feeds of several assets are independent, so one is modelled.  A price   *)
(* that deviates too far is refused; the flag set before the refusal is    *)
(* rolled back with it, so nothing ever sets FeedPaused.  Time stamps are  *)
(* ledger numbers.  Prices are i128, and what is computed from them        *)
(* saturates; PriceMax stands for i128::MAX.  Times are u64 and their sums *)
(* do not get near it.                                                     *)
(***************************************************************************)
EXTENDS HostClock, SequencesExt, FiniteSetsExt

CONSTANTS
    Feeders,        \* addresses that may publish
    PublisherLists, \* candidate sequences of publishers
    Heartbeats,     \* candidate staleness thresholds
    Prices,         \* candidate prices of the admin
    Submitted,      \* candidate prices of the publishers
    Quorums,        \* candidate values of MinQuorum
    Deviations,     \* candidate values of MaxDeviationBps
    Smoothings,     \* smoothing factors a reader may ask for
    Bonds,          \* candidate bonds and penalties
    BondTokens,     \* candidate tokens of the bonds
    MaxBond,        \* bound: what a publisher bonds at most
    MaxReports,     \* bound: how many prices are reported
    OracleBase,     \* BPS_DENOMINATOR, 10_000 in the code
    MaxHistory,     \* MAX_HISTORY, 30 in the code
    PriceMax,       \* i128::MAX
    NoPrice         \* an absent value

\* i128.
Representable == (-PriceMax - 1)..PriceMax

ASSUME OracleAssumption ==
    /\ PriceMax \in Nat /\ Prices \cup Submitted \subseteq Representable
    /\ Bonds \subseteq Int /\ {MaxBond, MaxReports} \subseteq Nat
    /\ Heartbeats \cup Quorums \cup Deviations \cup Smoothings \subseteq Nat
    /\ IsFiniteSet(Feeders) /\ IsFiniteSet(BondTokens) /\ NoPrice \notin BondTokens
    /\ OracleBase \in Nat \ {0} /\ MaxHistory \in Nat \ {0} /\ NoPrice \notin Int
    /\ \A l \in PublisherLists : l \in Seq(Feeders)

VARIABLES
    heartbeat,   \* StalenessThreshold key, set by initialize
    spot,        \* Price, UpdatedAt and UpdatedAtTimestamp keys
    history,     \* History key
    publishers,  \* Publishers key
    minQuorum,   \* MinQuorum key
    submissions, \* Submission and LastSubmissionLedger keys
    assetSpot,   \* AssetPrice key
    assetTrail,  \* AssetHistory key
    maxDev,      \* MaxDeviationBps key
    bondToken,   \* BondToken key; InsuranceFund is set with it
    bonds,       \* PublisherBond keys
    bondHeld,    \* what the contract holds of each token
    reports      \* prices reported so far

oracleOnlyVars == <<heartbeat, spot, history, publishers, minQuorum, submissions, assetSpot, assetTrail, maxDev,
                    bondToken, bonds, bondHeld, reports>>
oracleVars == <<now, oracleOnlyVars>>

OracleInit ==
    /\ now = 0
    /\ heartbeat = NoPrice /\ spot = NoPrice /\ history = <<>>
    /\ publishers = NoPrice /\ minQuorum = 1 /\ submissions = [f \in Feeders |-> NoPrice]
    /\ assetSpot = NoPrice /\ assetTrail = <<>> /\ maxDev = 0
    /\ bondToken = NoPrice /\ bonds = [f \in Feeders |-> 0] /\ bondHeld = [t \in BondTokens |-> 0] /\ reports = 0

\* The admin, once.
InitializeOracle(h) ==
    /\ heartbeat = NoPrice /\ h # 0
    /\ heartbeat' = h
    /\ UNCHANGED <<now, spot, history, publishers, minQuorum, submissions, assetSpot, assetTrail, maxDev,
                   bondToken, bonds, bondHeld, reports>>

\* The bound on what is reported.
Reported ==
    /\ reports < MaxReports
    /\ reports' = reports + 1

\* Division of i128, towards zero.
Quotient(a, b) == IF a >= 0 THEN a \div b ELSE -((-a) \div b)

\* The saturating operations of i128: what does not fit becomes the limit it is beyond.
Saturating(x) ==
    CASE x > PriceMax -> PriceMax
      [] x < -PriceMax - 1 -> -PriceMax - 1
      [] OTHER -> x

Observation(x) == [price |-> x, at |-> now]

\* The ring buffer keeps the newest MaxHistory observations.
Appended(trail, x) ==
    LET longer == Append(trail, Observation(x)) IN
    IF Len(longer) > MaxHistory THEN Tail(longer) ELSE longer

\* push_history: an observation with the last one's time stamp is averaged with it.
PushHistory(x) ==
    IF history # <<>> /\ Last(history).at = now
    THEN [history EXCEPT ![Len(history)].price = Quotient(Saturating(@ + x), 2)]
    ELSE Appended(history, x)

\* The admin.
UpdatePrice(x) ==
    /\ heartbeat # NoPrice /\ x > 0
    /\ spot' = Observation(x)
    /\ history' = PushHistory(x)
    /\ Reported
    /\ UNCHANGED <<now, heartbeat, publishers, minQuorum, submissions, assetSpot, assetTrail, maxDev, bondToken, bonds, bondHeld>>

\* The admin.
SetPublishers(list) ==
    /\ heartbeat # NoPrice
    /\ publishers' = list
    /\ UNCHANGED <<now, heartbeat, spot, history, minQuorum, submissions, assetSpot, assetTrail, maxDev, bondToken, bonds, bondHeld, reports>>

\* The admin.
SetMinQuorum(q) ==
    /\ heartbeat # NoPrice /\ q # 0
    /\ minQuorum' = q
    /\ UNCHANGED <<now, heartbeat, spot, history, publishers, submissions, assetSpot, assetTrail, maxDev, bondToken, bonds, bondHeld, reports>>

\* A publisher, once per ledger; the price may be anything.
SubmitPrice(f, x) ==
    /\ publishers # NoPrice /\ \E i \in DOMAIN publishers : publishers[i] = f
    /\ submissions[f] # NoPrice => now > submissions[f].at
    /\ submissions' = [submissions EXCEPT ![f] = Observation(x)]
    /\ history' = PushHistory(x)
    /\ Reported
    /\ UNCHANGED <<now, heartbeat, spot, publishers, minQuorum, assetSpot, assetTrail, maxDev, bondToken, bonds, bondHeld>>

\* exceeds_deviation.
ExceedsDeviation(prev, x) ==
    /\ maxDev # 0 /\ prev > 0
    /\ Saturating((IF x >= prev THEN x - prev ELSE prev - x) * OracleBase) > Saturating(prev * maxDev)

\* The admin: update_asset_price and update_price_for.
UpdateAssetPrice(x) ==
    /\ heartbeat # NoPrice /\ x > 0
    /\ assetSpot # NoPrice => ~ExceedsDeviation(assetSpot.price, x)
    /\ assetSpot' = Observation(x)
    /\ assetTrail' = Appended(assetTrail, x)
    /\ Reported
    /\ UNCHANGED <<now, heartbeat, spot, history, publishers, minQuorum, submissions, maxDev, bondToken, bonds, bondHeld>>

\* The admin.
SetMaxDeviation(d) ==
    /\ heartbeat # NoPrice /\ d <= OracleBase
    /\ maxDev' = d
    /\ UNCHANGED <<now, heartbeat, spot, history, publishers, minQuorum, submissions, assetSpot, assetTrail, bondToken, bonds, bondHeld, reports>>

\* The admin; the token may replace another one under the bonds paid in that.
ConfigureBonding(t) ==
    /\ heartbeat # NoPrice
    /\ bondToken' = t
    /\ UNCHANGED <<now, heartbeat, spot, history, publishers, minQuorum, submissions, assetSpot, assetTrail, maxDev, bonds, bondHeld, reports>>

\* Anyone becomes a publisher by bonding, or adds to its bond.
RegisterPublisher(f, x) ==
    LET listed == IF publishers = NoPrice THEN <<>> ELSE publishers IN
    /\ bondToken # NoPrice /\ x > 0
    /\ bonds[f] + x <= MaxBond
    /\ publishers' = IF \E i \in DOMAIN listed : listed[i] = f THEN publishers ELSE Append(listed, f)
    /\ bonds' = [bonds EXCEPT ![f] = @ + x]
    /\ bondHeld' = [bondHeld EXCEPT ![bondToken] = @ + x]
    /\ UNCHANGED <<now, heartbeat, spot, history, minQuorum, submissions, assetSpot, assetTrail, maxDev, bondToken, reports>>

\* The admin; the penalty goes to the insurance fund, in the token of the moment.
SlashPublisher(f, x) ==
    /\ bondToken # NoPrice /\ x > 0
    /\ bonds[f] >= x /\ bondHeld[bondToken] >= x
    /\ bonds' = [bonds EXCEPT ![f] = @ - x]
    /\ bondHeld' = [bondHeld EXCEPT ![bondToken] = @ - x]
    /\ UNCHANGED <<now, heartbeat, spot, history, publishers, minQuorum, submissions, assetSpot, assetTrail, maxDev, bondToken, reports>>

OracleNext ==
    \/ \E h \in Heartbeats : InitializeOracle(h)
    \/ \E x \in Prices : UpdatePrice(x)
    \/ \E l \in PublisherLists : SetPublishers(l)
    \/ \E q \in Quorums : SetMinQuorum(q)
    \/ \E f \in Feeders, x \in Submitted : SubmitPrice(f, x)
    \/ \E x \in Prices : UpdateAssetPrice(x)
    \/ \E d \in Deviations : SetMaxDeviation(d)
    \/ \E t \in BondTokens : ConfigureBonding(t)
    \/ \E f \in Feeders, x \in Bonds : RegisterPublisher(f, x)
    \/ \E f \in Feeders, x \in Bonds : SlashPublisher(f, x)
    \/ LedgerCloses /\ UNCHANGED oracleOnlyVars

OracleSpec == OracleInit /\ [][OracleNext]_oracleVars

----
(* What readers get.                                                       *)

\* The loops of the readers: what stands at the given places is kept, in order.
Kept(s, places) ==
    FoldLeft(LAMBDA kept, i : IF i \in places THEN Append(kept, s[i]) ELSE kept, <<>>, [i \in DOMAIN s |-> i])

\* get_twap: the observations of the last window ledgers.
InTrailing(trail, window) == Kept(trail, {i \in DOMAIN trail : trail[i].at >= now - window})

\* How long the i-th observation held.
HeldFor(obs, i) == (IF i < Len(obs) THEN obs[i + 1].at ELSE now) - obs[i].at

\* A round of twap's loop: the price weighted by the time it held, and the time.
Weighed(tally, obs, i) ==
    [sum |-> Saturating(tally.sum + Saturating(obs[i].price * HeldFor(obs, i))),
     time |-> tally.time + HeldFor(obs, i)]

Tally(obs) == FoldLeft(LAMBDA tally, i : Weighed(tally, obs, i), [sum |-> 0, time |-> 0], [i \in DOMAIN obs |-> i])

\* twap: without time, the last price.
Twap(obs) ==
    LET tally == Tally(obs) IN
    IF Len(obs) = 1 THEN obs[1].price
    ELSE IF tally.time = 0 THEN Last(obs).price
    ELSE Quotient(tally.sum, tally.time)

\* Mutant: the step is divided after it is added.
EmaStepLate(avg, x, alpha) == Quotient(Saturating(avg + Saturating(Saturating(x - avg) * alpha)), OracleBase)

EmaStep(avg, x, alpha) == Saturating(avg + Quotient(Saturating(Saturating(x - avg) * alpha), OracleBase))

\* get_ema refuses the other smoothing factors.
Accepted(alpha) == alpha # 0 /\ alpha <= OracleBase

\* ema: from the oldest observation on.
Ema(obs, alpha) == FoldLeft(LAMBDA avg, o : EmaStep(avg, o.price, alpha), obs[1].price, Tail(obs))

\* get_median_price: the fresh submissions, one for every mention of a publisher.
FreshPrices(age) ==
    LET fresh == Kept(publishers, {i \in DOMAIN publishers :
                                     /\ submissions[publishers[i]] # NoPrice
                                     /\ now - submissions[publishers[i]].at <= age})
    IN [i \in DOMAIN fresh |-> submissions[fresh[i]].price]

\* The inner loop of the insertion sort: behind the last one that is not greater.
Inserted(done, x) == InsertAt(done, Max({0} \cup {i \in DOMAIN done : done[i] <= x}) + 1, x)

Sorted(prices) == FoldLeft(LAMBDA done, x : Inserted(done, x), <<>>, prices)

\* median: of a sorted copy; the two middle ones are averaged.
Median(prices) ==
    LET sorted == Sorted(prices)
        mid == Len(prices) \div 2
    IN IF Len(prices) % 2 = 0 THEN Quotient(Saturating(sorted[mid] + sorted[mid + 1]), 2) ELSE sorted[mid + 1]

----
(* Properties.                                                             *)

Within(x, prices) == (\E p \in prices : p <= x) /\ (\E p \in prices : p >= x)

PricesOf(obs) == {obs[i].price : i \in DOMAIN obs}

\* The publishers on the list whose submissions are fresh.
FreshFrom(age) ==
    {f \in {publishers[i] : i \in DOMAIN publishers} : submissions[f] # NoPrice /\ now - submissions[f].at <= age}

\* At least half of the publishers reported at most x, and at least half at least x.
Halves(x, from) ==
    /\ 2 * Cardinality({f \in from : submissions[f].price <= x}) >= Cardinality(from)
    /\ 2 * Cardinality({f \in from : submissions[f].price >= x}) >= Cardinality(from)

ListsNobodyTwice == \A i, j \in DOMAIN publishers : publishers[i] = publishers[j] => i = j

\* Each price times the ledgers that the observations cover is an i128, so that the
\* weighted sum does not saturate.
Summable(obs) == \A i \in DOMAIN obs : obs[i].price * (now - obs[1].at) \in Representable

\* What get_median_price promises of a median of the submissions of that age.
MedianFair(age) ==
    LET prices == FreshPrices(age)
        x == Median(prices)
    IN
    /\ prices # <<>> /\ Len(prices) >= minQuorum
    /\ \A i \in DOMAIN prices : 2 * prices[i] \in Representable
    => /\ Within(x, {prices[i] : i \in DOMAIN prices})
       /\ ListsNobodyTwice => Cardinality(FreshFrom(age)) >= minQuorum /\ Halves(x, FreshFrom(age))

\* No average invents a price.  The time-weighted average of either history over
\* any window lies between the prices it is taken from unless their weighted sum
\* saturates, and the moving average does so even where its steps saturate,
\* through merged and dropped observations and submissions of either sign.  The
\* median lies between the fresh prices unless twice a price saturates.  While the
\* list names nobody twice, it is of as many publishers as the quorum asks for and
\* splits them in halves, so that no minority moves it past all the others.  A list
\* with repetitions, which set_publishers takes, keeps neither: a publisher listed
\* twice makes up a quorum of two alone, against lib.rs:516-520.
AveragesWithinReports ==
    /\ \A trail \in {history, assetTrail}, window \in 0..MaxLedger :
         LET obs == InTrailing(trail, window) IN
         obs # <<>> /\ Summable(obs) => Within(Twap(obs), PricesOf(obs))
    /\ history # <<>> => \A alpha \in Smoothings : Accepted(alpha) => Within(Ema(history, alpha), PricesOf(history))
    /\ publishers # NoPrice => \A age \in 0..MaxLedger : MedianFair(age)
====
