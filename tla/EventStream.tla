------------------------------ MODULE EventStream ------------------------------
(* The trace of one run and the pages that follow it: PostgresTraceStore      *)
(* appends, sse_stream reads and sends, and the workbench shows what it has   *)
(* not shown before.                                                          *)
(*                                                                            *)
(* An event is the number of its place in the order of occurred_at, attempt   *)
(* and sequence.  Its cursor is a row number: the number of committed events  *)
(* up to it when the query ran.  The run of a scenario has one id for ever:   *)
(* a reset deletes its events and the next attempt at the scenario writes them *)
(* again, while the pages that follow the run keep their cursors.             *)
EXTENDS Integers, Sequences, FiniteSets

CONSTANTS
    MaxEvents,
    Clients,
    PageLimit,  \* rows of one query
    MaxBreaks,  \* bound on lost connections and reloads
    MaxResets   \* bound on resets of the scenario

ASSUME StreamAssumption ==
    /\ MaxEvents \in Nat \ {0} /\ PageLimit \in Nat \ {0}
    /\ MaxBreaks \in Nat /\ MaxResets \in Nat

VARIABLES
    writing,    \* events inserted by a transaction that is open
    committed,  \* app.product_trace_event
    client,     \* each client and the stream that serves it
    breaks,
    resets,
    readUpTo,   \* the last event in order that a query has returned
    late,       \* events that were committed behind it
    stale       \* clients that have followed the run since before a reset

vars == <<writing, committed, client, breaks, resets, readUpTo, late, stale>>

-----------------------------------------------------------------------------
Events == 1 .. MaxEvents
NoId == -1

Row == [cursor : Events, event : Events]

\* lastSent is of the stream, lastId is what the browser would reconnect with.
Client == [open : BOOLEAN, lastSent : Events \cup {NoId}, page : Seq(Row), wire : Seq(Row),
           lastId : Events \cup {NoId}, shown : Seq(Row)]

NewClient == [open |-> FALSE, lastSent |-> NoId, page |-> <<>>, wire |-> <<>>,
              lastId |-> NoId, shown |-> <<>>]

TypeOK ==
    /\ writing \subseteq Events
    /\ committed \subseteq Events
    /\ client \in [Clients -> Client]
    /\ breaks \in 0 .. MaxBreaks
    /\ resets \in 0 .. MaxResets
    /\ readUpTo \in committed \cup {0}
    /\ late \subseteq committed
    /\ stale \subseteq Clients

Init ==
    /\ writing = {}
    /\ committed = {}
    /\ client = [c \in Clients |-> NewClient]
    /\ breaks = 0
    /\ resets = 0
    /\ readUpTo = 0
    /\ late = {}
    /\ stale = {}

OnlyClients == UNCHANGED <<writing, committed, breaks, resets, readUpTo, late, stale>>

-----------------------------------------------------------------------------
(* PostgresTraceStore.append *)

\* The transaction inserts the event.  Its id follows from attempt and
\* sequence, so that an append that is repeated after its commit is refused.
Insert(e) ==
    /\ e \notin writing \cup committed
    /\ writing' = writing \cup {e}
    /\ UNCHANGED <<committed, client, breaks, resets, readUpTo, late, stale>>

\* The commit is done, whether the writer learns of it or not.
Commit(e) ==
    /\ e \in writing
    /\ writing' = writing \ {e}
    /\ committed' = committed \cup {e}
    /\ late' = IF e < readUpTo THEN late \cup {e} ELSE late
    /\ UNCHANGED <<client, breaks, resets, readUpTo, stale>>

Rollback(e) ==
    /\ e \in writing
    /\ writing' = writing \ {e}
    /\ UNCHANGED <<committed, client, breaks, resets, readUpTo, late, stale>>

-----------------------------------------------------------------------------
(* reset_product_scenario *)

\* The page has nothing of the run, whether its stream is open or not.
IsFresh(x) == x = [NewClient EXCEPT !.open = x.open]

\* The committed events of the run are deleted; an open transaction keeps its
\* own, and no stream or page is told.
Reset ==
    /\ resets < MaxResets
    /\ resets' = resets + 1
    /\ committed' = {}
    /\ readUpTo' = 0
    /\ late' = {}
    /\ stale' = stale \cup { c \in Clients : ~IsFresh(client[c]) }
    /\ UNCHANGED <<writing, client, breaks>>

-----------------------------------------------------------------------------
(* sse_stream and its client *)

RowNumber(e) == Cardinality({ f \in committed : f <= e })

EventAt(n) == CHOOSE e \in committed : RowNumber(e) = n

Rows(first, n) == [i \in 1 .. n |-> [cursor |-> first + i, event |-> EventAt(first + i)]]

\* A stream that has sent nothing reads from the first row.
RowsSent(cursor) == IF cursor = NoId THEN 0 ELSE cursor

PageLength(cursor) ==
    LET behind == Cardinality(committed) - RowsSent(cursor) IN
    IF behind < PageLimit THEN behind ELSE PageLimit

\* Mutant: ORDER BY event_cursor DESC LIMIT.
LatestRowsAfter(cursor) ==
    Rows(Cardinality(committed) - PageLength(cursor), PageLength(cursor))

\* events_after: at most a page of the rows behind a cursor, in order.
RowsAfter(cursor) == Rows(RowsSent(cursor), PageLength(cursor))

Open(c) ==
    /\ ~client[c].open
    /\ client' = [client EXCEPT ![c].open = TRUE, ![c].lastSent = client[c].lastId]
    /\ OnlyClients

Poll(c) ==
    LET rows == RowsAfter(client[c].lastSent) IN
    /\ client[c].open
    /\ client[c].page = <<>>
    /\ rows # <<>>
    /\ client' = [client EXCEPT ![c].page = rows]
    /\ readUpTo' = IF rows[Len(rows)].event > readUpTo THEN rows[Len(rows)].event ELSE readUpTo
    /\ UNCHANGED <<writing, committed, breaks, resets, late, stale>>

Send(c) ==
    /\ client[c].open
    /\ client[c].page # <<>>
    /\ client' = [client EXCEPT ![c].wire = Append(@, Head(client[c].page)),
                                ![c].lastSent = Head(client[c].page).cursor,
                                ![c].page = Tail(@)]
    /\ OnlyClients

\* The workbench drops an event whose cursor it has shown.
Shown(rows, row) ==
    IF \E i \in DOMAIN rows : rows[i].cursor = row.cursor THEN rows ELSE Append(rows, row)

Receive(c) ==
    LET row == Head(client[c].wire) IN
    /\ client[c].open
    /\ client[c].wire # <<>>
    /\ client' = [client EXCEPT ![c].wire = Tail(@), ![c].lastId = row.cursor,
                                ![c].shown = Shown(@, row)]
    /\ OnlyClients

\* What was under way is lost; the browser connects again with the id of the
\* last event it received.
Break(c) ==
    /\ client[c].open
    /\ breaks < MaxBreaks
    /\ breaks' = breaks + 1
    /\ client' = [client EXCEPT ![c].open = FALSE, ![c].page = <<>>, ![c].wire = <<>>,
                                ![c].lastSent = NoId]
    /\ UNCHANGED <<writing, committed, resets, readUpTo, late, stale>>

\* The run is selected again: a new EventSource and nothing shown.
Reselect(c) ==
    /\ breaks < MaxBreaks
    /\ breaks' = breaks + 1
    /\ client' = [client EXCEPT ![c] = NewClient]
    /\ stale' = stale \ {c}
    /\ UNCHANGED <<writing, committed, resets, readUpTo, late>>

Next ==
    \/ \E e \in Events : Insert(e) \/ Commit(e) \/ Rollback(e)
    \/ Reset
    \/ \E c \in Clients : Open(c) \/ Poll(c) \/ Send(c) \/ Receive(c) \/ Break(c) \/ Reselect(c)

Spec == Init /\ [][Next]_vars

-----------------------------------------------------------------------------
(* Properties *)

\* The cursors a page shows are 1, 2, 3 and so on, always.  What it shows under
\* them is the beginning of the run, in order, without a gap and each event
\* once, if no event was committed behind one that a query has returned and the
\* page has not followed the run over a reset: over pages, other clients, lost
\* connections and frames, and events of several attempts.  A late event moves
\* the cursors behind it.  After a reset they start again, so that a page which
\* has shown n events misses the first n of the rerun and keeps the old ones.
ShowsRunInOrder ==
    \A c \in Clients :
        LET shown == client[c].shown IN
        /\ \A i \in DOMAIN shown : shown[i].cursor = i
        /\ late = {} /\ c \notin stale =>
              /\ { shown[i].event : i \in DOMAIN shown } =
                    { e \in committed : RowNumber(e) <= Len(shown) }
              /\ \A i, j \in DOMAIN shown : i < j => shown[i].event < shown[j].event
=============================================================================
