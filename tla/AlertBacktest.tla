---------------------------- MODULE AlertBacktest ----------------------------
(* MetricAlertBacktester.run: what an alert rule would have reported over a   *)
(* range of calendar windows.  The observations are those of the read_*_      *)
(* backtest functions over the imported orders and reviews; they are complete *)
(* and in the order of their windows, so the checks of run never refuse them. *)
(*                                                                            *)
(* Windows are numbered, and rates are integers in units of 1 / Precision.    *)
(* Neither the grain nor the filters of a specification reach a query.        *)
EXTENDS Naturals, FiniteSets

CONSTANTS
    Precision,   \* decimals of a rate: 10^6
    DigestStep   \* of them, what the digest of a specification rounds to: 100

ASSUME PrecisionAssumption == Precision \in Nat \ {0} /\ DigestStep \in Nat \ {0}

-----------------------------------------------------------------------------
(* Rule specifications *)

Metrics == {"late_delivery_rate", "low_rating_rate", "cancellation_rate"}
Comparators == {"greater_than", "greater_than_or_equal"}

Specification ==
    [metric : Metrics, comparator : Comparators, threshold : Nat, minimum : Nat \ {0},
     from : Nat, to : Nat]

\* Decimal.quantize: to the nearest, ties to even.
Rounded(n, d) ==
    LET q == n \div d
        rest == 2 * (n % d)
    IN IF rest > d \/ (rest = d /\ q % 2 = 1) THEN q + 1 ELSE q

\* backtest_ref: the digest of a specification names its threshold with fewer
\* decimals than the threshold has.
BacktestRef(spec) == [spec EXCEPT !.threshold = Rounded(@, DigestStep)]

-----------------------------------------------------------------------------
(* Observations: data.orders have an id, a status, the window they were placed *)
(* in and how they were delivered; data.reviews the order they are about, the  *)
(* window they were written in and a score.                                    *)

Statuses(metric) ==
    IF metric = "cancellation_rate"
    THEN {"approved", "created", "processing", "invoiced", "shipped", "delivered", "canceled", "unavailable"}
    ELSE {"delivered"}

Eligible(data, spec) == { o \in data.orders : o.status \in Statuses(spec.metric) }

\* The rows a metric counts, each in its window.
Facts(data, spec) ==
    CASE spec.metric = "late_delivery_rate" ->
            { [row |-> o, at |-> o.placed, counted |-> o.delivery # "none", bad |-> o.delivery = "late"] :
                o \in Eligible(data, spec) }
      [] spec.metric = "cancellation_rate" ->
            { [row |-> o, at |-> o.placed, counted |-> TRUE, bad |-> o.status = "canceled"] :
                o \in Eligible(data, spec) }
      [] spec.metric = "low_rating_rate" ->
            { [row |-> r, at |-> r.written, counted |-> TRUE, bad |-> r.score <= 2] :
                r \in { r \in data.reviews : \E o \in Eligible(data, spec) : o.id = r.order } }

FactsOf(data, spec, window) == { f \in Facts(data, spec) : f.at = window }

Observation(data, spec, window) ==
    [start |-> window,
     numerator |-> Cardinality({ f \in FactsOf(data, spec, window) : f.bad }),
     denominator |-> Cardinality({ f \in FactsOf(data, spec, window) : f.counted })]

\* One observation for every window of the range that has a row.
Observations(data, spec) ==
    { Observation(data, spec, w) :
        w \in { w \in spec.from .. spec.to - 1 : FactsOf(data, spec, w) # {} } }

-----------------------------------------------------------------------------
(* Results *)

IsExcluded(o, spec) == o.denominator = 0 \/ o.denominator < spec.minimum

\* The rate is rounded before it is compared.
Exceeds(o, spec) ==
    LET rate == Rounded(o.numerator * Precision, o.denominator) IN
    IF spec.comparator = "greater_than" THEN rate > spec.threshold ELSE rate >= spec.threshold

IsHit(o, spec) == ~IsExcluded(o, spec) /\ Exceeds(o, spec)

Result(o, spec) ==
    [start |-> o.start, numerator |-> o.numerator, denominator |-> o.denominator, hit |-> IsHit(o, spec)]

WindowResults(data, spec) == { Result(o, spec) : o \in Observations(data, spec) }
=============================================================================
