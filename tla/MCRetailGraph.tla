---------------------------- MODULE MCRetailGraph ----------------------------
(* One attempt under every wiring of the graph.  An investigation of two      *)
(* steps takes four calls and a fifth for a proposal, or a repair in its      *)
(* place; one more runs into the limit.                                       *)
EXTENDS RetailGraph

CONSTANTS q1, s1, s2, s3, s4, s5, k1, c1, c2

Wirings ==
    { [graph |-> "decide", dispatcher |-> FALSE, engine |-> FALSE],
      [graph |-> "decide", dispatcher |-> TRUE, engine |-> FALSE],
      [graph |-> "investigate", dispatcher |-> TRUE, engine |-> TRUE],
      [graph |-> "investigate", dispatcher |-> FALSE, engine |-> TRUE],
      [graph |-> "investigate", dispatcher |-> TRUE, engine |-> FALSE] }

\* q1 is what tells one tool call from another.
SmallBatches == { [batch |-> <<q1>>, tokens |-> 1], [batch |-> <<q1, q1>>, tokens |-> 3] }

Leaf(path, table, column) == [path |-> path, table |-> table, column |-> column]
Column(name, leaf) == [name |-> name, leaves |-> {leaf}]
Select(alias, source, projections) ==
    [sources |-> [a \in {alias} |-> source], filters |-> {}, joins |-> {}, projections |-> projections]
Query(scopes, functions, limit) ==
    [form |-> "select", nodes |-> {}, recursive |-> FALSE, scopes |-> scopes,
     functions |-> functions, grouped |-> FALSE, limit |-> limit]

\* SELECT count(seller_id) FROM sellers; a city of every seller; the
\* identities of the sellers under another name; an INSERT; and a query that
\* gives the identity the name of the city by a column list.
SmallTrees ==
    LET sellers == Table("sellers")
        counted == Select("t", sellers, { Column("n", Leaf(<<"COUNT">>, "t", "seller_id")) })
        other == Select("t", sellers, { Column("city", Leaf(<<>>, "t", "other")) })
        renamed == Select("t", sellers, { Column("s", Leaf(<<>>, "t", "seller_id")) })
        reads == Select("d", Derived(1), { Column("s", Leaf(<<>>, "d", "s")) })
        relabelled == Select("t", Relabelled(sellers, [other |-> "seller_id"]),
                             { Column("city", Leaf(<<>>, "t", "other")) })
    IN [s \in {s1, s2, s3, s4, s5} |->
           CASE s = s1 -> Query(<<counted>>, {"COUNT"}, 0)
             [] s = s2 -> Query(<<other>>, {}, 1)
             [] s = s3 -> Query(<<renamed, reads>>, {}, 1)
             [] s = s4 -> [Query(<<other>>, {}, 1) EXCEPT !.nodes = {"INSERT"}]
             [] s = s5 -> Query(<<relabelled>>, {}, 1)]

\* A result, a plan that costs too much, a value of no scalar type, a row too
\* many.
SmallAnswers ==
    LET result == [fails |-> FALSE, cost |-> 1, distinct |-> TRUE, rows |-> 2, scalar |-> TRUE, bytes |-> 2]
    IN { result, [result EXCEPT !.cost = 2], [result EXCEPT !.scalar = FALSE], [result EXCEPT !.rows = 3] }

TwoSteps == { <<"baseline", "drilldown">> }
=============================================================================
