--------------------------- MODULE MCInvestigations ---------------------------
(* Six references: enough for a task to be opened, resolved, concluded and *)
(* closed while a competing command is approved against the same version.    *)
EXTENDS Investigations

CONSTANTS r1, r2, r3, r4, r5, r6, a1

\* Two thresholds that one digest stands for: one is below the rate of the
\* first import and one is not.  The second import has a window of less than
\* the minimum, an order outside the range and one that was not delivered.
Spec4 == [metric |-> "late_delivery_rate", comparator |-> "greater_than", threshold |-> 4,
          minimum |-> 2, from |-> 1, to |-> 2]
Spec5 == [Spec4 EXCEPT !.threshold = 5]
Order(i, window, status, delivery) == [id |-> i, placed |-> window, status |-> status, delivery |-> delivery]
SmallImports ==
    { [orders |-> { Order(1, 1, "delivered", "late"), Order(2, 1, "delivered", "in_time") }, reviews |-> {}],
      [orders |-> { Order(1, 1, "delivered", "late"), Order(2, 2, "delivered", "late"),
                    Order(3, 1, "canceled", "none") }, reviews |-> {}] }
TwoSpecs == {Spec4, Spec5}
OneBacktest == {BacktestRef(Spec4)}

\* Commands against task r1 (and the alert chain through rule r2), versions
\* 1 to 5: every type, with conflicting pairs at the same version.
MCCommands ==
    { [type |-> "open_seller_risk_case"],
      [type |-> "create_investigation_task"],
      [type |-> "create_investigation_from_alert_hit", rule |-> r2, window |-> 1] }
    \cup { [type |-> "create_and_enable_metric_alert_rule", backtest |-> BacktestRef(s), spec |-> s] :
             s \in TwoSpecs }
    \cup { [type |-> "assign_investigation", task |-> r1, version |-> v, assignee |-> a1] :
             v \in {1, 2, 5} }
    \cup { [type |-> "transition_investigation", task |-> r1, version |-> v,
            from |-> p[1], to |-> p[2]] : v \in 1 .. 2, p \in AllowedTransitions }
    \cup { [type |-> "add_investigation_conclusion", task |-> r1, version |-> v] :
             v \in 3 .. 4 }
    \cup { [type |-> "close_investigation", task |-> r1, version |-> v,
            conclusion |-> k, disposition |-> d] :
             v \in 4 .. 5, k \in {r4}, d \in {"confirmed", "null"} }
=============================================================================
