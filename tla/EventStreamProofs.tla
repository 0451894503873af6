--------------------------- MODULE EventStreamProofs ---------------------------
(* Theorems about EventStream, for any number of events, clients, lost         *)
(* connections and resets, and pages of any length.                           *)
EXTENDS EventStream, FiniteSetTheorems, WellFoundedInduction, TLAPS

-----------------------------------------------------------------------------
(* Row numbers.  The number of an event among the rows of a table is the      *)
(* number of rows up to it, so the rows of a table of n are numbered 1 to n,  *)
(* each once and in order.                                                    *)

NumberIn(table, e) == Cardinality({ f \in table : f <= e })

LEMMA Bounds ==
    /\ MaxEvents \in Nat \ {0} /\ PageLimit \in Nat \ {0}
    /\ MaxBreaks \in Nat /\ MaxResets \in Nat
  BY StreamAssumption

\* Every non-empty set of numbers has a least element.
LEMMA LeastNumber ==
    ASSUME NEW T, T \subseteq Nat, T # {}
    PROVE  \E x \in T : \A y \in T : x <= y
  <1>. DEFINE Less == OpToRel(<, Nat)
  <1>1. IsWellFoundedOn(Less, Nat)
    BY NatLessThanWellFounded
  <1>. HIDE DEF Less
  <1>2. PICK x \in T : \A y \in T : ~(<<y, x>> \in Less)
    BY <1>1, WFMin
  <1>3. \A y \in T : ~(y < x)
    BY <1>2 DEF Less, OpToRel
  <1> QED
    BY <1>3

LEMMA TablesAreFinite ==
    ASSUME NEW table, table \subseteq Events
    PROVE  /\ IsFiniteSet(table)
           /\ Cardinality(table) \in 0 .. MaxEvents
  <1>1. IsFiniteSet(Events) /\ Cardinality(Events) = MaxEvents
    BY Bounds, FS_Interval DEF Events
  <1> QED
    BY <1>1, Bounds, FS_Subset, FS_CardinalityType

LEMMA EventsAreNumbers ==
    \A e \in Events : e \in Int /\ 0 < e /\ e <= MaxEvents
  BY Bounds DEF Events

LEMMA NumberType ==
    ASSUME NEW table, table \subseteq Events, NEW e
    PROVE  NumberIn(table, e) \in 0 .. Cardinality(table)
  <1>. DEFINE upTo == { f \in table : f <= e }
  <1>1. upTo \in SUBSET table /\ upTo \subseteq Events
    OBVIOUS
  <1>2. Cardinality(upTo) \in Nat /\ Cardinality(table) \in Nat /\ Cardinality(upTo) <= Cardinality(table)
    BY <1>1, TablesAreFinite, Bounds, FS_Subset
  <1> QED
    BY <1>2 DEF NumberIn

LEMMA NumbersStartAtOne ==
    ASSUME NEW table, table \subseteq Events, NEW e \in table
    PROVE  NumberIn(table, e) \in 1 .. Cardinality(table)
  <1>. DEFINE upTo == { f \in table : f <= e }
  <1>1. e \in upTo /\ upTo \subseteq Events
    <2>1. e \in Int
      BY EventsAreNumbers
    <2>2. e <= e
      BY <2>1
    <2> QED
      BY <2>2
  <1>2. IsFiniteSet(upTo)
    BY <1>1, TablesAreFinite
  <1>3. Cardinality(upTo) # 0
    BY <1>1, <1>2, FS_EmptySet
  <1> QED
    BY <1>3, NumberType, TablesAreFinite DEF NumberIn

LEMMA NumbersGrow ==
    ASSUME NEW table, table \subseteq Events, NEW e \in table, NEW f \in table, e < f
    PROVE  NumberIn(table, e) < NumberIn(table, f)
  <1>. DEFINE upTo(x) == { y \in table : y <= x }
  <1>0. e \in Int /\ f \in Int /\ \A y \in table : y \in Int
    BY EventsAreNumbers
  <1>1. upTo(e) \in SUBSET upTo(f) /\ f \in upTo(f) /\ f \notin upTo(e)
    <2>1. \A y \in table : y <= e => y <= f
      BY <1>0
    <2>2. f <= f /\ ~(f <= e)
      BY <1>0
    <2> QED
      BY <2>1, <2>2
  <1>2. IsFiniteSet(upTo(f))
    <2>1. upTo(f) \subseteq Events
      OBVIOUS
    <2> QED
      BY <2>1, TablesAreFinite
  <1>3. Cardinality(upTo(e)) <= Cardinality(upTo(f)) /\ Cardinality(upTo(e)) # Cardinality(upTo(f))
    BY <1>1, <1>2, FS_Subset
  <1>4. NumberIn(table, e) \in Int /\ NumberIn(table, f) \in Int
    BY NumberType, TablesAreFinite
  <1> QED
    BY <1>3, <1>4 DEF NumberIn

LEMMA NumbersAreUnique ==
    ASSUME NEW table, table \subseteq Events, NEW e \in table, NEW f \in table,
           NumberIn(table, e) = NumberIn(table, f)
    PROVE  e = f
  <1>1. NumberIn(table, e) \in Int /\ e \in Int /\ f \in Int
    BY NumberType, TablesAreFinite, EventsAreNumbers
  <1>2. e < f => NumberIn(table, e) < NumberIn(table, f)
    BY NumbersGrow
  <1>3. f < e => NumberIn(table, f) < NumberIn(table, e)
    BY NumbersGrow
  <1> QED
    BY <1>1, <1>2, <1>3

\* The least place by which n rows were counted is that of the n-th row.
LEMMA NumbersHaveNoGap ==
    ASSUME NEW table, table \subseteq Events, NEW n \in 1 .. Cardinality(table)
    PROVE  \E e \in table : NumberIn(table, e) = n
  <1>. DEFINE reached == { e \in 0 .. MaxEvents : NumberIn(table, e) >= n }
  <1>1. n \in Nat \ {0} /\ n <= Cardinality(table)
    BY TablesAreFinite
  <1>2. MaxEvents \in reached
    <2>1. { f \in table : f <= MaxEvents } = table
      BY EventsAreNumbers
    <2> QED
      BY <1>1, <2>1, Bounds DEF NumberIn
  <1>3. PICK e \in reached : \A f \in reached : e <= f
    <2>1. reached \subseteq Nat /\ reached # {}
      BY <1>2, Bounds
    <2>. HIDE DEF reached
    <2> QED
      BY <2>1, LeastNumber
  <1>4. e # 0
    <2>1. { f \in table : f <= 0 } = {}
      BY EventsAreNumbers
    <2> QED
      BY <1>1, <2>1, FS_EmptySet DEF NumberIn
  <1>5. ~(NumberIn(table, e - 1) >= n)
    <2>1. e - 1 \in 0 .. MaxEvents /\ ~(e <= e - 1)
      BY <1>3, <1>4, Bounds
    <2> QED
      BY <1>3, <2>1
  <1>6. { f \in table : f <= e } = { f \in table : f <= e - 1 } \cup { f \in {e} : f \in table }
    <2>1. e \in Int /\ \A f \in table : f \in Int
      BY <1>3, EventsAreNumbers, Bounds
    <2> QED
      BY <2>1
  <1>7. CASE e \notin table
    <2>1. { f \in table : f <= e } = { f \in table : f <= e - 1 }
      BY <1>6, <1>7
    <2> QED
      BY <1>3, <1>5, <2>1 DEF NumberIn
  <1>8. CASE e \in table
    <2>1. { f \in table : f <= e } = { f \in table : f <= e - 1 } \cup {e}
      BY <1>6, <1>8
    <2>2. IsFiniteSet({ f \in table : f <= e - 1 }) /\ e \notin { f \in table : f <= e - 1 }
      <3>1. { f \in table : f <= e - 1 } \subseteq Events
        OBVIOUS
      <3>2. ~(e <= e - 1)
        BY <1>3, Bounds
      <3> QED
        BY <3>1, <3>2, TablesAreFinite
    <2>3. NumberIn(table, e) = NumberIn(table, e - 1) + 1
      BY <2>1, <2>2, FS_AddElement DEF NumberIn
    <2>4. NumberIn(table, e) \in Int /\ NumberIn(table, e - 1) \in Int
      BY NumberType, TablesAreFinite
    <2> QED
      BY <1>1, <1>3, <1>5, <1>8, <2>3, <2>4
  <1> QED
    BY <1>7, <1>8

\* A row that comes after the others leaves their numbers as they are.
LEMMA NumbersStay ==
    ASSUME NEW table, NEW e, NEW f, ~(e <= f)
    PROVE  NumberIn(table \cup {e}, f) = NumberIn(table, f)
  <1>1. { g \in table \cup {e} : g <= f } = { g \in table : g <= f }
    OBVIOUS
  <1> QED
    BY <1>1 DEF NumberIn

-----------------------------------------------------------------------------
(* Types *)

LEMMA NewClientType == NewClient \in Client
  <1>1. <<>> \in Seq(Row)
    OBVIOUS
  <1> QED
    BY <1>1 DEF NewClient, Client

LEMMA EventAtNumber ==
    ASSUME committed \subseteq Events, NEW n \in 1 .. Cardinality(committed)
    PROVE  /\ EventAt(n) \in committed
           /\ RowNumber(EventAt(n)) = n
  <1>1. \E e \in committed : RowNumber(e) = n
    BY NumbersHaveNoGap DEF RowNumber, NumberIn
  <1> QED
    BY <1>1 DEF EventAt

\* A page is of rows of the table, and its cursors follow one another.
LEMMA PageRows ==
    ASSUME TypeOK, NEW cursor \in Events \cup {NoId}
    PROVE  LET rows == RowsAfter(cursor) IN
           /\ rows \in Seq(Row)
           /\ \A i \in 1 .. Len(rows) : /\ rows[i].cursor = RowsSent(cursor) + i
                                       /\ rows[i].event \in committed
                                       /\ RowNumber(rows[i].event) = rows[i].cursor
  <1>. DEFINE first == RowsSent(cursor)
              n == PageLength(cursor)
              rows == RowsAfter(cursor)
  <1>1. committed \subseteq Events /\ Cardinality(committed) \in 0 .. MaxEvents
    BY TablesAreFinite DEF TypeOK
  <1>2. first \in Nat
    BY EventsAreNumbers DEF RowsSent, NoId
  <1>3. n \in Int /\ n <= Cardinality(committed) - first
    BY <1>1, <1>2, Bounds DEF PageLength
  <1>4. rows = [i \in 1 .. n |-> [cursor |-> first + i, event |-> EventAt(first + i)]]
    BY DEF RowsAfter, Rows
  <1>. HIDE DEF first, n, rows
  <1>5. ASSUME NEW i \in 1 .. n
        PROVE  /\ rows[i] \in Row
               /\ rows[i].cursor = first + i
               /\ rows[i].event \in committed
               /\ RowNumber(rows[i].event) = rows[i].cursor
    <2>1. first + i \in 1 .. Cardinality(committed)
      BY <1>1, <1>2, <1>3
    <2>2. EventAt(first + i) \in committed /\ RowNumber(EventAt(first + i)) = first + i
      BY <1>1, <2>1, EventAtNumber
    <2>3. rows[i] = [cursor |-> first + i, event |-> EventAt(first + i)]
      BY <1>4
    <2>4. first + i \in Events /\ EventAt(first + i) \in Events
      <3>1. \A k \in 1 .. Cardinality(committed) : k \in Events
        BY <1>1, Bounds DEF Events
      <3> QED
        BY <1>1, <2>1, <2>2, <3>1
    <2> QED
      BY <2>2, <2>3, <2>4 DEF Row
  <1>6. CASE n >= 0
    <2>1. rows \in [1 .. n -> Row] /\ n \in Nat
      BY <1>3, <1>4, <1>5, <1>6
    <2>2. rows \in Seq(Row) /\ Len(rows) = n
      BY <2>1
    <2> QED
      BY <1>5, <2>2 DEF first, rows
  <1>7. CASE ~(n >= 0)
    <2>1. 1 .. n = {}
      BY <1>3, <1>7
    <2>2. rows = <<>>
      BY <1>4, <2>1
    <2> QED
      BY <2>2 DEF rows
  <1> QED
    BY <1>3, <1>6, <1>7

-----------------------------------------------------------------------------
(* The invariant.  What a client shows, what is on the wire and what is left  *)
(* of the page are parts of one sequence of cursors, and both cursors agree   *)
(* with it: a query counts from where the stream has got to, whatever table   *)
(* it reads.  For a client that has read of one table only, as long as        *)
(* nothing was committed late, they also are the rows of that table: a row    *)
(* keeps its number because nothing is committed before `readUpTo`.           *)

Continues(rows, n) == \A i \in 1 .. Len(rows) : rows[i].cursor = n + i

InOrder(x) ==
    /\ Continues(x.shown, 0)
    /\ Continues(x.wire, Len(x.shown))
    /\ Continues(x.page, Len(x.shown) + Len(x.wire))
    /\ RowsSent(x.lastId) = Len(x.shown)
    /\ x.open => RowsSent(x.lastSent) = Len(x.shown) + Len(x.wire)
    /\ ~x.open => x.wire = <<>> /\ x.page = <<>>

\* A row is numbered as it was when the query ran.
Exact(row) ==
    /\ row.event \in committed
    /\ row.event <= readUpTo
    /\ RowNumber(row.event) = row.cursor

AreExact(rows) == \A i \in 1 .. Len(rows) : Exact(rows[i])

Agrees(x) == AreExact(x.shown) /\ AreExact(x.wire) /\ AreExact(x.page)

IsCurrent(c) == late = {} /\ c \notin stale

StreamInv ==
    /\ TypeOK
    /\ writing \cap committed = {}
    /\ \A c \in Clients : InOrder(client[c]) /\ (IsCurrent(c) => Agrees(client[c]))

LEMMA StreamInit == Init => StreamInv
  <1>. SUFFICES ASSUME Init
                PROVE  StreamInv
    OBVIOUS
  <1>1. TypeOK
    BY NewClientType, Bounds DEF Init, TypeOK
  <1>2. InOrder(NewClient) /\ Agrees(NewClient)
    BY DEF InOrder, Continues, NewClient, RowsSent, Agrees, AreExact
  <1> QED
    BY <1>1, <1>2 DEF Init, StreamInv

\* A step after which the rows that a current client has read are numbered as
\* before, and that changes at most one client.
LEMMA OrderIsKept ==
    ASSUME StreamInv, TypeOK', writing' \cap committed' = {},
           NEW changed \in SUBSET Clients,
           \A c \in changed : InOrder(client'[c]) /\ (IsCurrent(c)' => Agrees(client[c])'),
           \A c \in Clients \ changed : client'[c] = client[c] /\ (IsCurrent(c)' => IsCurrent(c)),
           late' = {} => \A row \in Row : Exact(row) => Exact(row)'
    PROVE  StreamInv'
  <1>1. ASSUME NEW c \in Clients \ changed
        PROVE  InOrder(client'[c])
    BY <1>1 DEF StreamInv
  <1>2. ASSUME NEW c \in Clients \ changed, IsCurrent(c)'
        PROVE  Agrees(client[c])'
    <2>1. /\ client[c].shown \in Seq(Row) /\ client[c].wire \in Seq(Row)
          /\ client[c].page \in Seq(Row)
      BY DEF StreamInv, TypeOK, Client
    <2>2. \A row \in Row : Exact(row) => Exact(row)'
      BY <1>2 DEF IsCurrent
    <2>3. ASSUME NEW rows \in Seq(Row), AreExact(rows)
          PROVE  AreExact(rows)'
      BY <2>2, <2>3 DEF AreExact
    <2>4. Agrees(client[c]) /\ client'[c] = client[c]
      BY <1>2 DEF StreamInv
    <2> QED
      BY <2>1, <2>3, <2>4 DEF Agrees
  <1>3. \A c \in Clients : InOrder(client'[c]) /\ (IsCurrent(c)' => Agrees(client[c])')
    BY <1>1, <1>2
  <1> QED
    BY <1>3 DEF StreamInv, InOrder, Continues, RowsSent

-----------------------------------------------------------------------------
(* PostgresTraceStore.append *)

LEMMA AppendSteps ==
    ASSUME StreamInv, NEW e \in Events, Insert(e) \/ Commit(e) \/ Rollback(e)
    PROVE  StreamInv'
  <1>1. TypeOK'
    BY DEF StreamInv, TypeOK, Insert, Commit, Rollback
  <1>2. writing' \cap committed' = {}
    BY DEF StreamInv, Insert, Commit, Rollback
  <1>3. UNCHANGED <<client, stale>> /\ (late' = {} => late = {})
    BY DEF Insert, Commit, Rollback
  <1>4. ASSUME late' = {}, NEW row \in Row, Exact(row)
        PROVE  Exact(row)'
    <2>1. CASE UNCHANGED <<committed, readUpTo>>
      BY <1>4, <2>1 DEF Exact, RowNumber
    <2>2. CASE Commit(e)
      <3>1. committed' = committed \cup {e} /\ UNCHANGED readUpTo /\ ~(e < readUpTo) /\ e \notin committed
        BY <1>4, <2>2 DEF Commit, StreamInv
      <3>2. row.event \in Int /\ e \in Int /\ readUpTo \in Int
        BY EventsAreNumbers DEF Row, StreamInv, TypeOK
      <3>3. ~(e <= row.event)
        BY <1>4, <3>1, <3>2 DEF Exact
      <3>4. RowNumber(row.event)' = RowNumber(row.event)
        BY <3>1, <3>3, NumbersStay DEF RowNumber, NumberIn
      <3> QED
        BY <1>4, <3>1, <3>4 DEF Exact
    <2> QED
      BY <2>1, <2>2 DEF Insert, Commit, Rollback
  <1>5. \A c \in Clients : client'[c] = client[c] /\ (IsCurrent(c)' => IsCurrent(c))
    BY <1>3 DEF IsCurrent
  <1>6. {} \in SUBSET Clients
    OBVIOUS
  <1> QED
    BY <1>1, <1>2, <1>4, <1>5, <1>6, OrderIsKept

-----------------------------------------------------------------------------
(* reset_product_scenario *)

\* No cursor moves, and a client that the reset does not make stale has read
\* nothing.
LEMMA ResetSteps ==
    ASSUME StreamInv, Reset
    PROVE  StreamInv'
  <1>1. TypeOK'
    BY Bounds DEF StreamInv, TypeOK, Reset
  <1>2. writing' \cap committed' = {} /\ UNCHANGED client
    BY DEF Reset
  <1>3. \A c \in Clients : InOrder(client'[c])
    BY <1>2 DEF StreamInv
  <1>4. ASSUME NEW c \in Clients, IsCurrent(c)'
        PROVE  Agrees(client[c])'
    <2>1. IsFresh(client[c])
      BY <1>4 DEF IsCurrent, Reset
    <2>2. client[c].shown = <<>> /\ client[c].wire = <<>> /\ client[c].page = <<>>
      BY <2>1 DEF IsFresh, NewClient
    <2>3. AreExact(<<>>)'
      BY DEF AreExact
    <2> QED
      BY <1>2, <2>2, <2>3 DEF Agrees
  <1>. DEFINE changed == Clients
  <1>5. /\ changed \in SUBSET Clients
        /\ \A c \in changed : InOrder(client'[c]) /\ (IsCurrent(c)' => Agrees(client[c])')
    BY <1>3, <1>4
  <1> QED
    BY <1>1, <1>2, <1>5 DEF StreamInv, InOrder, Continues, RowsSent

-----------------------------------------------------------------------------
(* sse_stream and its client *)

LEMMA ClientStep ==
    ASSUME StreamInv, NEW c \in Clients, NEW x \in Client,
           client' = [client EXCEPT ![c] = x],
           UNCHANGED <<writing, committed, resets, late>>,
           breaks' \in 0 .. MaxBreaks, stale' \in SUBSET stale, stale \ stale' \subseteq {c},
           readUpTo' \in committed \cup {0}, readUpTo <= readUpTo',
           InOrder(x), IsCurrent(c)' => Agrees(x)'
    PROVE  StreamInv'
  <1>1. TypeOK'
    BY DEF StreamInv, TypeOK
  <1>2. client'[c] = x /\ \A d \in Clients \ {c} : client'[d] = client[d]
    BY DEF StreamInv, TypeOK
  <1>3. ASSUME NEW row \in Row, Exact(row)
        PROVE  Exact(row)'
    <2>1. row.event \in Int /\ readUpTo \in Int /\ readUpTo' \in Int
      BY EventsAreNumbers DEF Row, StreamInv, TypeOK
    <2> QED
      BY <1>3, <2>1 DEF Exact, RowNumber
  <1>4. writing' \cap committed' = {}
    BY DEF StreamInv
  <1>5. InOrder(client'[c]) /\ (IsCurrent(c)' => Agrees(client[c])')
    BY <1>2 DEF Agrees
  <1>6. \A d \in Clients \ {c} : IsCurrent(d)' => IsCurrent(d)
    BY DEF IsCurrent
  <1>. DEFINE changed == {c}
  <1>7. /\ changed \in SUBSET Clients
        /\ \A d \in changed : InOrder(client'[d]) /\ (IsCurrent(d)' => Agrees(client[d])')
        /\ \A d \in Clients \ changed : client'[d] = client[d] /\ (IsCurrent(d)' => IsCurrent(d))
    BY <1>2, <1>5, <1>6
  <1>. HIDE DEF changed
  <1> QED
    BY <1>1, <1>3, <1>4, <1>7, OrderIsKept

\* In particular one that reads nothing.
LEMMA QuietClientStep ==
    ASSUME StreamInv, NEW c \in Clients, NEW x \in Client,
           client' = [client EXCEPT ![c] = x],
           UNCHANGED <<writing, committed, resets, readUpTo, late, stale>>,
           breaks' \in 0 .. MaxBreaks,
           InOrder(x), IsCurrent(c) => Agrees(x)
    PROVE  StreamInv'
  <1>1. IsCurrent(c)' => Agrees(x)'
    BY DEF IsCurrent, Agrees, AreExact, Exact, RowNumber
  <1>2. readUpTo' \in committed \cup {0} /\ readUpTo <= readUpTo'
    BY EventsAreNumbers DEF StreamInv, TypeOK
  <1>3. stale' \in SUBSET stale /\ stale \ stale' \subseteq {c}
    OBVIOUS
  <1> QED
    BY <1>1, <1>2, <1>3, ClientStep

LEMMA ConnectionSteps ==
    ASSUME StreamInv, NEW c \in Clients, Open(c) \/ Break(c) \/ Reselect(c)
    PROVE  StreamInv'
  <1>0. /\ client \in [Clients -> Client] /\ client[c] \in Client /\ breaks \in 0 .. MaxBreaks
        /\ InOrder(client[c]) /\ (IsCurrent(c) => Agrees(client[c]))
    BY DEF StreamInv, TypeOK
  <1>1. <<>> \in Seq(Row) /\ NoId \in Events \cup {NoId} /\ Len(<<>>) = 0
    OBVIOUS
  <1>2. /\ UNCHANGED <<writing, committed, resets, readUpTo, late>>
        /\ breaks' \in 0 .. MaxBreaks
    BY <1>0, Bounds DEF Open, Break, Reselect, OnlyClients
  <1>a. AreExact(<<>>) /\ AreExact(<<>>)' /\ \A n : Continues(<<>>, n)
    BY <1>1 DEF AreExact, Continues
  <1>3. CASE Open(c)
    <2>1. PICK x : x = [client[c] EXCEPT !.open = TRUE, !.lastSent = client[c].lastId]
      OBVIOUS
    <2>2. client' = [client EXCEPT ![c] = x] /\ UNCHANGED stale
      BY <1>3, <2>1 DEF Open, OnlyClients
    <2>3. x \in Client
      BY <1>0, <2>1 DEF Client
    <2>4. InOrder(x)
      <3>1. client[c].wire = <<>> /\ client[c].page = <<>>
        BY <1>0, <1>3 DEF Open, InOrder
      <3>2. Len(client[c].shown) \in Nat
        BY <1>0 DEF Client
      <3> QED
        BY <1>0, <1>1, <2>1, <3>1, <3>2 DEF InOrder, Client
    <2>5. IsCurrent(c) => Agrees(x)
      BY <1>0, <2>1 DEF Agrees, Client
    <2> QED
      BY <1>2, <2>2, <2>3, <2>4, <2>5, QuietClientStep
  <1>4. CASE Break(c)
    <2>1. PICK x : x = [client[c] EXCEPT !.open = FALSE, !.page = <<>>, !.wire = <<>>,
                                         !.lastSent = NoId]
      OBVIOUS
    <2>2. client' = [client EXCEPT ![c] = x] /\ UNCHANGED stale
      BY <1>4, <2>1 DEF Break
    <2>3. x \in Client
      BY <1>0, <1>1, <2>1 DEF Client
    <2>4. InOrder(x)
      BY <1>0, <2>1, <1>a DEF InOrder, Client
    <2>5. IsCurrent(c) => Agrees(x)
      BY <1>0, <1>a, <2>1 DEF Agrees, Client
    <2> QED
      BY <1>2, <2>2, <2>3, <2>4, <2>5, QuietClientStep
  <1>5. CASE Reselect(c)
    <2>1. PICK x : x = NewClient
      OBVIOUS
    <2>2. client' = [client EXCEPT ![c] = x] /\ stale' = stale \ {c}
      BY <1>5, <2>1 DEF Reselect
    <2>3. x \in Client
      BY <2>1, NewClientType
    <2>4. InOrder(x)
      BY <1>1, <2>1 DEF InOrder, Continues, NewClient, RowsSent
    <2>5. Agrees(x)'
      BY <1>a, <2>1 DEF Agrees, NewClient
    <2>6. readUpTo' \in committed \cup {0} /\ readUpTo <= readUpTo'
      BY <1>2, EventsAreNumbers DEF StreamInv, TypeOK
    <2>7. stale' \in SUBSET stale /\ stale \ stale' \subseteq {c}
      BY <2>2
    <2> QED
      BY <1>2, <2>2, <2>3, <2>4, <2>5, <2>6, <2>7, ClientStep
  <1> QED
    BY <1>3, <1>4, <1>5

LEMMA Taken ==
    ASSUME NEW rows \in Seq(Row), rows # <<>>
    PROVE  /\ Head(rows) \in Row /\ Tail(rows) \in Seq(Row)
           /\ Len(rows) \in Nat \ {0} /\ Len(Tail(rows)) = Len(rows) - 1
           /\ \A n \in Nat : Continues(rows, n) => /\ Head(rows).cursor = n + 1
                                                  /\ Continues(Tail(rows), n + 1)
           /\ AreExact(rows) => Exact(Head(rows)) /\ AreExact(Tail(rows))
  <1>1. /\ Head(rows) \in Row /\ Tail(rows) \in Seq(Row) /\ Head(rows) = rows[1]
        /\ Len(rows) \in Nat \ {0} /\ Len(Tail(rows)) = Len(rows) - 1
        /\ \A i \in 1 .. Len(rows) - 1 : Tail(rows)[i] = rows[i + 1]
    OBVIOUS
  <1>2. ASSUME NEW n \in Nat, Continues(rows, n)
        PROVE  Head(rows).cursor = n + 1 /\ Continues(Tail(rows), n + 1)
    <2>1. \A i \in 1 .. Len(rows) : rows[i].cursor = n + i
      BY <1>2 DEF Continues
    <2>2. ASSUME NEW i \in 1 .. Len(Tail(rows))
          PROVE  Tail(rows)[i].cursor = n + 1 + i
      <3>1. i + 1 \in 1 .. Len(rows) /\ Tail(rows)[i] = rows[i + 1] /\ n + (i + 1) = n + 1 + i
        BY <1>1
      <3> QED
        BY <2>1, <3>1
    <2> QED
      BY <1>1, <2>1, <2>2 DEF Continues
  <1>3. ASSUME AreExact(rows)
        PROVE  Exact(Head(rows)) /\ AreExact(Tail(rows))
    <2>1. \A i \in 1 .. Len(rows) : Exact(rows[i])
      BY <1>3 DEF AreExact
    <2>2. ASSUME NEW i \in 1 .. Len(Tail(rows))
          PROVE  Exact(Tail(rows)[i])
      <3>1. i + 1 \in 1 .. Len(rows) /\ Tail(rows)[i] = rows[i + 1]
        BY <1>1
      <3> QED
        BY <2>1, <3>1
    <2> QED
      BY <1>1, <2>1, <2>2 DEF AreExact
  <1> QED
    BY <1>1, <1>2, <1>3

LEMMA Appended ==
    ASSUME NEW rows \in Seq(Row), NEW row \in Row
    PROVE  /\ Append(rows, row) \in Seq(Row)
           /\ Len(rows) \in Nat /\ Len(Append(rows, row)) = Len(rows) + 1
           /\ \A n \in Nat : Continues(rows, n) /\ row.cursor = n + Len(rows) + 1
                             => Continues(Append(rows, row), n)
           /\ AreExact(rows) /\ Exact(row) => AreExact(Append(rows, row))
  <1>1. /\ Append(rows, row) \in Seq(Row)
        /\ Len(rows) \in Nat /\ Len(Append(rows, row)) = Len(rows) + 1
        /\ \A i \in 1 .. Len(rows) : Append(rows, row)[i] = rows[i]
        /\ Append(rows, row)[Len(rows) + 1] = row
    OBVIOUS
  <1>2. \A i \in 1 .. Len(rows) + 1 : i \in 1 .. Len(rows) \/ i = Len(rows) + 1
    BY <1>1
  <1>3. ASSUME NEW n \in Nat, Continues(rows, n), row.cursor = n + Len(rows) + 1,
               NEW i \in 1 .. Len(rows) + 1
        PROVE  Append(rows, row)[i].cursor = n + i
    <2>1. CASE i \in 1 .. Len(rows)
      BY <1>1, <1>3, <2>1 DEF Continues
    <2>2. CASE i = Len(rows) + 1
      <3>1. n + i = n + Len(rows) + 1
        BY <1>1, <2>2
      <3> QED
        BY <1>1, <1>3, <2>2, <3>1
    <2> QED
      BY <1>2, <2>1, <2>2
  <1>4. ASSUME AreExact(rows), Exact(row), NEW i \in 1 .. Len(rows) + 1
        PROVE  Exact(Append(rows, row)[i])
    <2>1. CASE i \in 1 .. Len(rows)
      BY <1>1, <1>4, <2>1 DEF AreExact
    <2>2. CASE i = Len(rows) + 1
      BY <1>1, <1>4, <2>2
    <2> QED
      BY <1>2, <2>1, <2>2
  <1> QED
    BY <1>1, <1>3, <1>4 DEF Continues, AreExact

LEMMA CursorsAreRows == \A row \in Row : RowsSent(row.cursor) = row.cursor
  BY EventsAreNumbers DEF RowsSent, NoId, Row

LEMMA SendSteps ==
    ASSUME StreamInv, NEW c \in Clients, Send(c)
    PROVE  StreamInv'
  <1>0. /\ client \in [Clients -> Client] /\ client[c] \in Client /\ breaks \in 0 .. MaxBreaks
        /\ InOrder(client[c]) /\ (IsCurrent(c) => Agrees(client[c]))
    BY DEF StreamInv, TypeOK
  <1>1. PICK y : y = client[c]
    OBVIOUS
  <1>2. /\ y.shown \in Seq(Row) /\ y.wire \in Seq(Row) /\ y.page \in Seq(Row) /\ y.page # <<>> /\ y.open
        /\ Len(y.shown) \in Nat
    BY <1>0, <1>1 DEF Client, Send
  <1>3. PICK x : x = [y EXCEPT !.wire = Append(y.wire, Head(y.page)),
                               !.lastSent = Head(y.page).cursor,
                               !.page = Tail(y.page)]
    OBVIOUS
  <1>4. client' = [client EXCEPT ![c] = x]
    BY <1>0, <1>1, <1>3 DEF Send, Client
  <1>5. /\ Head(y.page) \in Row /\ Tail(y.page) \in Seq(Row)
        /\ Append(y.wire, Head(y.page)) \in Seq(Row)
        /\ Len(y.wire) \in Nat /\ Len(Append(y.wire, Head(y.page))) = Len(y.wire) + 1
    BY <1>2, Taken, Appended
  <1>6. x \in Client /\ x.open /\ x.shown = y.shown /\ x.lastId = y.lastId
        /\ x.wire = Append(y.wire, Head(y.page)) /\ x.lastSent = Head(y.page).cursor
        /\ x.page = Tail(y.page)
    BY <1>0, <1>1, <1>2, <1>3, <1>5 DEF Client, Row
  <1>7. InOrder(x)
    <2>1. InOrder(y)
      BY <1>0, <1>1
    <2>a. PICK a \in Nat, b \in Nat : a = Len(y.shown) /\ b = Len(y.wire)
      BY <1>2, <1>5
    <2>b. Continues(y.wire, a) /\ Continues(y.page, a + b)
      BY <2>1, <2>a DEF InOrder
    <2>2. Head(y.page).cursor = a + b + 1 /\ Continues(Tail(y.page), a + b + 1)
      <3>1. a + b \in Nat
        OBVIOUS
      <3> QED
        BY <1>2, <2>b, <3>1, Taken
    <2>3. Continues(Append(y.wire, Head(y.page)), a)
      BY <1>2, <1>5, <2>a, <2>b, <2>2, Appended
    <2>4. Len(x.shown) = a /\ Len(x.wire) = b + 1 /\ a + (b + 1) = a + b + 1
      <3>1. Len(x.shown) = a
        BY <1>6, <2>a
      <3>2. Len(x.wire) = b + 1
        BY <1>5, <1>6, <2>a
      <3>3. a + (b + 1) = a + b + 1
        OBVIOUS
      <3> QED
        BY <3>1, <3>2, <3>3
    <2>5. RowsSent(Head(y.page).cursor) = Head(y.page).cursor
      BY <1>5, CursorsAreRows
    <2>6. /\ Continues(x.page, Len(x.shown) + Len(x.wire))
          /\ RowsSent(x.lastSent) = Len(x.shown) + Len(x.wire)
      BY <1>6, <2>2, <2>4, <2>5
    <2> QED
      BY <1>6, <2>1, <2>3, <2>4, <2>6 DEF InOrder
  <1>8. IsCurrent(c) => Agrees(x)
    BY <1>0, <1>1, <1>2, <1>5, <1>6, Taken, Appended DEF Agrees
  <1>9. UNCHANGED <<writing, committed, resets, readUpTo, late, stale>> /\ breaks' \in 0 .. MaxBreaks
    BY <1>0 DEF Send, OnlyClients
  <1> QED
    BY <1>4, <1>6, <1>7, <1>8, <1>9, QuietClientStep

LEMMA ReceiveSteps ==
    ASSUME StreamInv, NEW c \in Clients, Receive(c)
    PROVE  StreamInv'
  <1>0. /\ client \in [Clients -> Client] /\ client[c] \in Client /\ breaks \in 0 .. MaxBreaks
        /\ InOrder(client[c]) /\ (IsCurrent(c) => Agrees(client[c]))
    BY DEF StreamInv, TypeOK
  <1>1. PICK y : y = client[c]
    OBVIOUS
  <1>2. /\ y.shown \in Seq(Row) /\ y.wire \in Seq(Row) /\ y.page \in Seq(Row) /\ y.wire # <<>> /\ y.open
        /\ Len(y.shown) \in Nat /\ Len(y.wire) \in Nat \ {0}
    BY <1>0, <1>1, Taken DEF Client, Receive
  <1>3. PICK x : x = [y EXCEPT !.wire = Tail(y.wire), !.lastId = Head(y.wire).cursor,
                               !.shown = Shown(y.shown, Head(y.wire))]
    OBVIOUS
  <1>4. client' = [client EXCEPT ![c] = x]
    BY <1>0, <1>1, <1>3 DEF Receive, Client
  <1>5. Head(y.wire) \in Row /\ Tail(y.wire) \in Seq(Row) /\ Len(Tail(y.wire)) = Len(y.wire) - 1
    BY <1>2, Taken
  <1>6. Shown(y.shown, Head(y.wire)) \in Seq(Row)
    BY <1>2, <1>5, Appended DEF Shown
  <1>7. x \in Client /\ x.open /\ x.page = y.page /\ x.lastSent = y.lastSent
        /\ x.wire = Tail(y.wire) /\ x.lastId = Head(y.wire).cursor
        /\ x.shown = Shown(y.shown, Head(y.wire))
    BY <1>0, <1>1, <1>2, <1>3, <1>5, <1>6 DEF Client, Row
  <1>8. InOrder(x)
    <2>1. InOrder(y)
      BY <1>0, <1>1
    <2>a. PICK a \in Nat, b \in Nat \ {0} : a = Len(y.shown) /\ b = Len(y.wire)
      BY <1>2
    <2>b. Continues(y.wire, a) /\ Continues(y.page, a + b)
      BY <2>1, <2>a DEF InOrder
    <2>2. Head(y.wire).cursor = a + 1 /\ Continues(Tail(y.wire), a + 1)
      BY <1>2, <2>b, Taken
    <2>3. \A i \in DOMAIN y.shown : y.shown[i].cursor # Head(y.wire).cursor
      <3>1. \A i \in 1 .. a : y.shown[i].cursor = 0 + i
        BY <2>1, <2>a DEF InOrder, Continues
      <3>2. DOMAIN y.shown = 1 .. a
        BY <1>2, <2>a
      <3> QED
        BY <2>2, <3>1, <3>2
    <2>4. Shown(y.shown, Head(y.wire)) = Append(y.shown, Head(y.wire))
      BY <2>3 DEF Shown
    <2>5. /\ Continues(Append(y.shown, Head(y.wire)), 0)
          /\ Len(Append(y.shown, Head(y.wire))) = a + 1
      <3>1. Head(y.wire).cursor = 0 + a + 1
        BY <2>2
      <3> QED
        BY <1>2, <1>5, <2>1, <2>2, <2>a, <3>1, Appended DEF InOrder
    <2>6. Len(x.shown) = a + 1 /\ Len(x.wire) = b - 1 /\ a + 1 + (b - 1) = a + b
      <3>1. Len(x.shown) = a + 1
        BY <1>7, <2>4, <2>5
      <3>2. Len(x.wire) = b - 1
        BY <1>5, <1>7, <2>a
      <3>3. a + 1 + (b - 1) = a + b
        OBVIOUS
      <3> QED
        BY <3>1, <3>2, <3>3
    <2>7. RowsSent(Head(y.wire).cursor) = Head(y.wire).cursor
      BY <1>5, CursorsAreRows
    <2>8. /\ Continues(x.shown, 0) /\ RowsSent(x.lastId) = Len(x.shown)
          /\ Continues(x.wire, Len(x.shown)) /\ Continues(x.page, Len(x.shown) + Len(x.wire))
      BY <1>7, <2>b, <2>2, <2>4, <2>5, <2>6, <2>7
    <2>9. RowsSent(x.lastSent) = Len(x.shown) + Len(x.wire)
      BY <1>2, <1>7, <2>1, <2>6, <2>a DEF InOrder
    <2> QED
      BY <1>7, <2>8, <2>9 DEF InOrder
  <1>9. IsCurrent(c) => Agrees(x)
    BY <1>0, <1>1, <1>2, <1>5, <1>7, Taken, Appended DEF Agrees, Shown
  <1>10. UNCHANGED <<writing, committed, resets, readUpTo, late, stale>> /\ breaks' \in 0 .. MaxBreaks
    BY <1>0 DEF Receive, OnlyClients
  <1> QED
    BY <1>4, <1>7, <1>8, <1>9, <1>10, QuietClientStep

\* A page begins where the stream has got to, and what is read is at most
\* `readUpTo`.
LEMMA PollSteps ==
    ASSUME StreamInv, NEW c \in Clients, Poll(c)
    PROVE  StreamInv'
  <1>0. /\ client \in [Clients -> Client] /\ client[c] \in Client /\ TypeOK
        /\ InOrder(client[c]) /\ (IsCurrent(c) => Agrees(client[c]))
    BY DEF StreamInv, TypeOK
  <1>1. PICK y : y = client[c]
    OBVIOUS
  <1>2. PICK rows : rows = RowsAfter(y.lastSent)
    OBVIOUS
  <1>3. y.lastSent \in Events \cup {NoId} /\ y.open /\ y.page = <<>> /\ rows # <<>>
    BY <1>0, <1>1, <1>2 DEF Poll, Client
  <1>4. /\ rows \in Seq(Row)
        /\ \A i \in 1 .. Len(rows) : /\ rows[i].cursor = RowsSent(y.lastSent) + i
                                    /\ rows[i].event \in committed
                                    /\ RowNumber(rows[i].event) = rows[i].cursor
    BY <1>0, <1>2, <1>3, PageRows
  <1>5. PICK x : x = [y EXCEPT !.page = rows]
    OBVIOUS
  <1>6. client' = [client EXCEPT ![c] = x]
    BY <1>1, <1>2, <1>5 DEF Poll
  <1>7. /\ x \in Client /\ x.open = y.open /\ x.page = rows /\ x.wire = y.wire /\ x.shown = y.shown
        /\ x.lastSent = y.lastSent /\ x.lastId = y.lastId
    BY <1>0, <1>1, <1>4, <1>5 DEF Client
  <1>8. PICK n \in Nat \ {0} : n = Len(rows)
    BY <1>3, <1>4, Taken
  <1>9. PICK last : last = rows[n].event
    OBVIOUS
  <1>10. /\ last \in committed /\ last \in Int /\ readUpTo \in Int /\ readUpTo \in committed \cup {0}
         /\ committed \subseteq Events
    BY <1>0, <1>4, <1>8, <1>9, EventsAreNumbers DEF TypeOK
  <1>11. readUpTo' = IF last > readUpTo THEN last ELSE readUpTo
    BY <1>1, <1>2, <1>8, <1>9 DEF Poll
  <1>12. readUpTo' \in committed \cup {0} /\ readUpTo' \in Int /\ readUpTo <= readUpTo' /\ last <= readUpTo'
    BY <1>10, <1>11
  <1>13. ASSUME NEW i \in 1 .. n
         PROVE  rows[i].event <= readUpTo'
    <2>1. rows[i].event \in committed /\ rows[n].event \in committed
      BY <1>4, <1>8
    <2>2. rows[i].event \in Int /\ last \in Int
      BY <1>10, <2>1, EventsAreNumbers
    <2>3. CASE last < rows[i].event
      <3>1. NumberIn(committed, last) < NumberIn(committed, rows[i].event)
        BY <1>9, <1>10, <2>1, <2>3, NumbersGrow
      <3>2. rows[n].cursor < rows[i].cursor
        BY <1>4, <1>8, <1>9, <3>1 DEF RowNumber, NumberIn
      <3>3. PICK first : first = RowsSent(y.lastSent)
        OBVIOUS
      <3>4. first \in Int
        BY <1>3, <3>3, EventsAreNumbers DEF RowsSent, NoId
      <3>5. first + n < first + i
        BY <1>4, <1>8, <3>2, <3>3
      <3> QED
        BY <3>4, <3>5
    <2> QED
      BY <1>12, <2>2, <2>3
  <1>14. UNCHANGED <<writing, committed, resets, late, stale>> /\ breaks' \in 0 .. MaxBreaks
    BY <1>0 DEF Poll, TypeOK
  <1>15. InOrder(x)
    <2>1. InOrder(y) /\ RowsSent(y.lastSent) = Len(y.shown) + Len(y.wire)
      BY <1>0, <1>1, <1>3 DEF InOrder
    <2>2. Continues(rows, RowsSent(y.lastSent))
      BY <1>4 DEF Continues
    <2> QED
      BY <1>3, <1>7, <2>1, <2>2 DEF InOrder
  <1>16. ASSUME IsCurrent(c)'
         PROVE  Agrees(x)'
    <2>1. Agrees(y)
      BY <1>0, <1>1, <1>14, <1>16 DEF IsCurrent
    <2>2. y.shown \in Seq(Row) /\ y.wire \in Seq(Row)
      BY <1>0, <1>1 DEF Client
    <2>3. ASSUME NEW row \in Row, Exact(row)
          PROVE  Exact(row)'
      <3>1. row.event \in Int
        BY EventsAreNumbers DEF Row
      <3> QED
        BY <1>10, <1>12, <1>14, <2>3, <3>1 DEF Exact, RowNumber
    <2>4. AreExact(y.shown)' /\ AreExact(y.wire)'
      BY <2>1, <2>2, <2>3 DEF Agrees, AreExact
    <2>5. AreExact(rows)'
      <3>1. \A i \in 1 .. n : Exact(rows[i])'
        BY <1>4, <1>8, <1>13, <1>14 DEF Exact, RowNumber
      <3> QED
        BY <1>8, <3>1 DEF AreExact
    <2> QED
      BY <1>7, <2>4, <2>5 DEF Agrees
  <1>17. stale' \in SUBSET stale /\ stale \ stale' \subseteq {c}
    BY <1>14
  <1> QED
    BY <1>6, <1>7, <1>12, <1>14, <1>15, <1>16, <1>17, ClientStep

LEMMA StreamNext == StreamInv /\ [Next]_vars => StreamInv'
  <1>. SUFFICES ASSUME StreamInv, [Next]_vars
                PROVE  StreamInv'
    OBVIOUS
  <1>1. CASE UNCHANGED vars
    <2>1. TypeOK' /\ writing' \cap committed' = {} /\ UNCHANGED <<client, late, stale>>
      BY <1>1 DEF vars, StreamInv, TypeOK
    <2>2. \A row \in Row : Exact(row) => Exact(row)'
      BY <1>1 DEF vars, Exact, RowNumber
    <2>3. \A c \in Clients : client'[c] = client[c] /\ (IsCurrent(c)' => IsCurrent(c))
      BY <2>1 DEF IsCurrent
    <2>4. {} \in SUBSET Clients
      OBVIOUS
    <2> QED
      BY <2>1, <2>2, <2>3, <2>4, OrderIsKept
  <1>2. ASSUME NEW c \in Clients,
               Open(c) \/ Poll(c) \/ Send(c) \/ Receive(c) \/ Break(c) \/ Reselect(c)
        PROVE  StreamInv'
    BY <1>2, ConnectionSteps, PollSteps, SendSteps, ReceiveSteps
  <1> QED
    BY <1>1, <1>2, AppendSteps, ResetSteps DEF Next

LEMMA StreamInvariance == Spec => []StreamInv
  BY StreamInit, StreamNext, PTL DEF Spec

-----------------------------------------------------------------------------
(* Theorems *)

\* The rows and cursors of the trace, of the stream and of the workbench are
\* of their types.  Between resets the last event that a query has returned and
\* the late ones are in the table; after a reset neither is kept.
THEOREM StreamTypes == Spec => []TypeOK
  BY StreamInvariance, PTL DEF StreamInv

\* The pages of events_after, the frames of sse_stream, reconnects with
\* Last-Event-ID and the list of the workbench show cursors without a gap,
\* whatever is committed or reset; and under them the beginning of the run in
\* order and each event once, as long as nothing is committed behind what was
\* read and the page has not followed the run over a reset: however many
\* clients there are, however often they reconnect and wherever a page ends.
THEOREM ShowsRunInOrderAlways == Spec => []ShowsRunInOrder
  <1>1. ASSUME StreamInv, NEW c \in Clients
        PROVE  \A i \in DOMAIN client[c].shown : client[c].shown[i].cursor = i
    <2>1. client[c].shown \in Seq(Row) /\ Continues(client[c].shown, 0)
      BY <1>1 DEF StreamInv, TypeOK, Client, InOrder
    <2> QED
      BY <2>1 DEF Continues
  <1>2. ASSUME StreamInv, NEW c \in Clients, IsCurrent(c), NEW shown, shown = client[c].shown
        PROVE  /\ { shown[i].event : i \in DOMAIN shown } =
                     { e \in committed : RowNumber(e) <= Len(shown) }
               /\ \A i, j \in DOMAIN shown : i < j => shown[i].event < shown[j].event
    <2>1. committed \subseteq Events /\ shown \in Seq(Row) /\ AreExact(shown)
      BY <1>2 DEF StreamInv, TypeOK, Client, Agrees
    <2>a. \A i \in DOMAIN shown : shown[i].cursor = i
      BY <1>1, <1>2
    <2>2. PICK n \in Nat : n = Len(shown) /\ DOMAIN shown = 1 .. n
      BY <2>1
    <2>3. \A i \in 1 .. n : /\ shown[i].cursor = i /\ shown[i].event \in committed
                            /\ RowNumber(shown[i].event) = i
      BY <2>1, <2>2, <2>a DEF AreExact, Exact
    <2>4. ASSUME NEW e \in committed, RowNumber(e) <= n
          PROVE  \E i \in 1 .. n : shown[i].event = e
      <3>1. RowNumber(e) \in 1 .. n
        <4>1. RowNumber(e) \in 1 .. Cardinality(committed)
          BY <2>1, NumbersStartAtOne DEF RowNumber, NumberIn
        <4>2. Cardinality(committed) \in Int
          BY <2>1, TablesAreFinite
        <4> QED
          BY <2>4, <4>1, <4>2
      <3>2. RowNumber(shown[RowNumber(e)].event) = RowNumber(e)
        BY <2>3, <3>1
      <3>3. shown[RowNumber(e)].event = e
        BY <2>1, <2>3, <3>1, <3>2, NumbersAreUnique, ZenonT(60) DEF RowNumber, NumberIn
      <3> QED
        BY <3>1, <3>3
    <2>5. ASSUME NEW i \in 1 .. n, NEW j \in 1 .. n, i < j
          PROVE  shown[i].event < shown[j].event
      <3>1. /\ shown[i].event \in committed /\ shown[j].event \in committed
            /\ NumberIn(committed, shown[i].event) = i /\ NumberIn(committed, shown[j].event) = j
        BY <2>3 DEF RowNumber, NumberIn
      <3>2. shown[i].event \in Int /\ shown[j].event \in Int
        BY <2>1, <3>1, EventsAreNumbers
      <3>3. ~(shown[j].event < shown[i].event)
        <4>1. shown[j].event < shown[i].event =>
                 NumberIn(committed, shown[j].event) < NumberIn(committed, shown[i].event)
          BY <2>1, <3>1, NumbersGrow
        <4> QED
          BY <2>5, <3>1, <4>1
      <3>4. shown[i].event # shown[j].event
        BY <2>5, <3>1
      <3> QED
        BY <3>2, <3>3, <3>4
    <2> QED
      BY <2>2, <2>3, <2>4, <2>5
  <1>3. StreamInv => ShowsRunInOrder
    BY <1>1, <1>2 DEF ShowsRunInOrder, IsCurrent
  <1> QED
    BY <1>3, StreamInvariance, PTL
=============================================================================
