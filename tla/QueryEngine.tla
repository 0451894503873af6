------------------------------ MODULE QueryEngine ------------------------------
(* QueryEngine.execute: AstPolicy.validate over the syntax tree of a query,   *)
(* and what PostgresExecutor makes of the database's answer.                  *)
(*                                                                            *)
(* A statement is its SELECT scopes, inner ones before the scope that reads   *)
(* them, the outermost last, with what the policy reads off the whole tree.   *)
(* An expression is its leaves, each with the kinds of the nodes above it.    *)
EXTENDS Naturals, Sequences, FiniteSets

CONSTANTS
    MaxRows,    \* rows of a result, and of a LIMIT
    MaxBytes,   \* of its serialisation
    MaxCost     \* of a plan, in cost and in rows alike

ASSUME QueryAssumption == MaxRows \in Nat \ {0} /\ MaxBytes \in Nat /\ MaxCost \in Nat

-----------------------------------------------------------------------------
(* The reviewed schema.  "other" stands for the columns of a relation that    *)
(* neither identify somebody nor join.                                        *)

Identities == {"seller_id", "customer_id", "customer_unique_id", "order_id"}

Relations ==
    [customers      |-> {"customer_id", "customer_unique_id", "other"},
     orders         |-> {"order_id", "customer_id", "other"},
     order_items    |-> {"order_id", "product_id", "seller_id", "other"},
     order_payments |-> {"order_id", "other"},
     order_reviews  |-> {"order_id", "other"},
     products       |-> {"product_id", "product_category_name", "other"},
     sellers        |-> {"seller_id", "other"},
     translations   |-> {"product_category_name", "other"},
     ops_read       |-> {"other"}]

Edge(left, right, column) == {<<left, column>>, <<right, column>>}

JoinEdges ==
    { Edge("orders", "customers", "customer_id"), Edge("order_items", "orders", "order_id"),
      Edge("order_items", "products", "product_id"), Edge("order_items", "sellers", "seller_id"),
      Edge("order_payments", "orders", "order_id"), Edge("order_reviews", "orders", "order_id"),
      Edge("products", "translations", "product_category_name") }

Aggregates == {"COUNT", "SUM", "AVG", "MIN", "MAX"}
AllowedFunctions ==
    Aggregates \cup {"COALESCE", "EXTRACT", "LOWER", "NULLIF", "ROUND", "TIMESTAMP_TRUNC", "UPPER"}

-----------------------------------------------------------------------------
(* Scopes *)

NoTable == "none"
Star == "*"

Table(relation) == [kind |-> "table", relation |-> relation, scope |-> 0, names |-> <<>>]
Derived(scope) == [kind |-> "scope", relation |-> "none", scope |-> scope, names |-> <<>>]

\* A source whose alias has a column list, as in `sellers AS s(a, b)`: what the
\* database takes each of the names for.
Relabelled(source, names) == [source EXCEPT !.names = names]

Kinds(path) == { path[i] : i \in DOMAIN path }

\* The names a scope gives its columns; a star is a name of its own there.
Outputs(scope) == { p.name : p \in scope.projections }

IsKnown(source) == source.kind = "table" => source.relation \in DOMAIN Relations

\* _scope_sources: the columns that an alias offers, by their own names, also
\* when the alias has a column list.
SourceColumns(s, source) ==
    IF source.kind = "table" THEN Relations[source.relation] ELSE Outputs(s.scopes[source.scope])

\* The columns a scope names, but for those of the queries within it.
ScopeColumns(scope) ==
    { ref \in scope.filters \cup UNION { p.leaves : p \in scope.projections } :
        ref.column \notin {Star, "none"} /\ "SUBQUERY" \notin Kinds(ref.path) }

\* _validate_scope_columns
KnowsColumns(s, scope) ==
    \A ref \in ScopeColumns(scope) :
        IF ref.table # NoTable
        THEN /\ ref.table \in DOMAIN scope.sources
             /\ ref.column \in SourceColumns(s, scope.sources[ref.table])
        ELSE Cardinality({ a \in DOMAIN scope.sources :
                             ref.column \in SourceColumns(s, scope.sources[a]) }) = 1

IsStar(leaf) == leaf.column = Star
IsDirect(leaf) == leaf.path = <<>>

\* _validate_direct_stars
StarsAreClear(scope) ==
    \A p \in scope.projections : \A leaf \in p.leaves :
        IsStar(leaf) /\ IsDirect(leaf) /\ leaf.table = NoTable => Cardinality(DOMAIN scope.sources) = 1

\* _validate_joins: equalities of reviewed edges between tables.
JoinsAreReviewed(scope) ==
    \A join \in scope.joins :
        /\ join.kind # "CROSS"
        /\ join.on # {}
        /\ \A term \in join.on :
              /\ term.equates
              /\ \A ref \in term.refs : ref.table \in DOMAIN scope.sources
                                        /\ scope.sources[ref.table].kind = "table"
              /\ { <<scope.sources[ref.table].relation, ref.column>> : ref \in term.refs } \in JoinEdges

\* _identity_leaks: an identity that is not counted.
LeaksIdentity(p) == \E leaf \in p.leaves : leaf.column \in Identities /\ "COUNT" \notin Kinds(leaf.path)

\* _contains_nested_star: only COUNT( * ) may wrap a star.
WrapsStar(p) ==
    \E leaf \in p.leaves :
        /\ IsStar(leaf) /\ ~IsDirect(leaf)
        /\ ~(leaf.table = NoTable /\ leaf.path[Len(leaf.path)] = "COUNT")

\* The sources that a direct star expands to.
Expanded(scope, leaf) ==
    IF leaf.table = NoTable THEN DOMAIN scope.sources ELSE {leaf.table} \cap DOMAIN scope.sources

StarLeaksIdentity(s, scope, p) ==
    \E leaf \in p.leaves :
        /\ IsStar(leaf) /\ IsDirect(leaf)
        /\ \/ leaf.table \notin DOMAIN scope.sources \cup {NoTable}
           \/ \E a \in Expanded(scope, leaf) : SourceColumns(s, scope.sources[a]) \cap Identities # {}

\* _validate_identity_projections
HidesIdentities(s, scope) ==
    \A p \in scope.projections : ~LeaksIdentity(p) /\ ~WrapsStar(p) /\ ~StarLeaksIdentity(s, scope, p)

\* _projection_is_aggregate: it aggregates the rows of its own scope.
IsAggregated(p) ==
    \E leaf \in p.leaves : \E i \in DOMAIN leaf.path :
        /\ leaf.path[i] \in Aggregates
        /\ \A j \in 1 .. i - 1 : leaf.path[j] \notin {"SUBQUERY", "WINDOW"}

-----------------------------------------------------------------------------
(* AstPolicy.validate *)

Outermost(s) == s.scopes[Len(s.scopes)]

IsAggregate(s) == s.grouped \/ \E p \in Outermost(s).projections : IsAggregated(p)

\* _validate_limit; a limit that is no integer literal is 0.
IsLimited(s) == IsAggregate(s) \/ s.limit \in 1 .. MaxRows

DeniedNodes == {"DELETE", "INSERT", "UPDATE", "MERGE", "INTO", "LOCK"}

IsOneSelect(s) == s.form = "select" /\ s.nodes \cap DeniedNodes = {} /\ ~s.recursive

Validates(s, scope) ==
    /\ \A a \in DOMAIN scope.sources : IsKnown(scope.sources[a])
    /\ KnowsColumns(s, scope)
    /\ StarsAreClear(scope)
    /\ JoinsAreReviewed(scope)
    /\ HidesIdentities(s, scope)

\* Mutant: only the outermost scope is validated.
AdmitsOutermost(s) ==
    /\ IsOneSelect(s)
    /\ Validates(s, Outermost(s))
    /\ s.functions \subseteq AllowedFunctions
    /\ IsLimited(s)

Admits(s) ==
    /\ IsOneSelect(s)
    /\ \A i \in DOMAIN s.scopes : Validates(s, s.scopes[i])
    /\ s.functions \subseteq AllowedFunctions
    /\ IsLimited(s)

-----------------------------------------------------------------------------
(* PostgresExecutor.execute *)

\* What comes of a query: a result, a QueryEngineError, or an exception that
\* is none, for a value such as an interval that _normalize_scalar refuses.
Execution(answer) ==
    IF answer.fails \/ answer.cost > MaxCost \/ ~answer.distinct THEN "refused"
    ELSE IF answer.rows > 0 /\ ~answer.scalar THEN "raised"
    ELSE IF answer.rows > MaxRows \/ answer.bytes > MaxBytes THEN "refused"
    ELSE "result"

\* The reasoner's own check of a candidate, before it is fingerprinted.
WritingNodes == {"INSERT", "UPDATE", "DELETE", "CREATE", "DROP", "ALTER", "MERGE", "COMMAND"}

IsReadOnly(s) == s.form \in {"select", "union"} /\ s.nodes \cap WritingNodes = {}

-----------------------------------------------------------------------------
(* What a query shows *)

\* A derived table is a scope of its own, which comes before its reader.  Of
\* the kinds of nodes a statement has those of the two checks are kept.
IsWellFormed(s) ==
    /\ s.nodes \subseteq DeniedNodes \cup WritingNodes
    /\ DOMAIN s.scopes = 1 .. Len(s.scopes) /\ Len(s.scopes) \in Nat \ {0}
    /\ \A i \in DOMAIN s.scopes : \A a \in DOMAIN s.scopes[i].sources :
          LET source == s.scopes[i].sources[a] IN
          source.kind = "table" \/ source.scope \in 1 .. i - 1
    /\ \A i \in DOMAIN s.scopes : \A p \in s.scopes[i].projections : \A leaf \in p.leaves :
          leaf.path \in Seq(Kinds(leaf.path))

\* No table of the statement is given a column list.
KeepsNames(s) ==
    \A i \in DOMAIN s.scopes : \A a \in DOMAIN s.scopes[i].sources :
        LET source == s.scopes[i].sources[a] IN
        source.kind = "table" => DOMAIN source.names = {}

\* The column of a source that the database takes a name for.
ColumnOf(source, name) == IF name \in DOMAIN source.names THEN source.names[name] ELSE name

\* The identities that a source shows, when each scope shows what `shown` has.
Raw(shown, source) ==
    IF source.kind = "table" THEN Relations[source.relation] \cap Identities ELSE shown[source.scope]

IsShown(shown, scope, leaf) ==
    \E a \in DOMAIN scope.sources :
        /\ leaf.table \in {a, NoTable}
        /\ LET raw == Raw(shown, scope.sources[a])
           IN IF IsStar(leaf) THEN raw # {} ELSE ColumnOf(scope.sources[a], leaf.column) \in raw

\* The columns of a scope that show an identity which is not counted, by what
\* its sources show rather than by what they are called.
ShownBy(shown, scope) ==
    { p.name : p \in { q \in scope.projections :
        \E leaf \in q.leaves : "COUNT" \notin Kinds(leaf.path) /\ IsShown(shown, scope, leaf) } }

Shows(s) ==
    LET shown[i \in DOMAIN s.scopes] == ShownBy(shown, s.scopes[i])
    IN shown[Len(s.scopes)]
=============================================================================
