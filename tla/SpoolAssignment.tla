--------------------------- MODULE SpoolAssignment ---------------------------
(* scan_spool_dir and assign_attempts of the spool importer: which attempt   *)
(* of an experiment pays for the usage of which agent session.  A session is *)
(* one spool file; the files come in the order of their names, are aggregated *)
(* or skipped as a whole, and are bound one by one.  The code scans them all  *)
(* first and then goes group by group; a scan depends on its file only and   *)
(* groups have no attempt in common, so file order does as well.             *)
EXTENDS Naturals, FiniteSets, FiniteSetsExt, SequencesExt

CONSTANTS
    Keys,         \* (experiment_id, task_id, mode)
    Files,        \* the spool files that may lie in the directory: sequences of Event
    MaxSessions,  \* bound on the spool files
    MaxAttempts,  \* bound on the rows of eval.task_attempt
    MaxTime,      \* bound on timestamps
    ClockGrace    \* clock_grace

Sessions == 1 .. MaxSessions
Attempts == 1 .. MaxAttempts

ASSUME BoundsAssumption ==
    MaxSessions \in Nat /\ MaxAttempts \in Nat /\ MaxTime \in Nat /\ ClockGrace \in Nat

VARIABLES
    files,       \* session -> the file it is read from
    attempts,    \* the attempt rows; finished = NotFinished is a NULL finished_at
    next,        \* the session to bind next
    assigned,    \* attempt -> session, 0 for none
    unassigned,
    ambiguous,
    skipped      \* files_skipped

vars == <<files, attempts, next, assigned, unassigned, ambiguous, skipped>>

NotFinished == MaxTime + 1

\* A line of a spool file.  usable: _usable_turn, and for a model turn that its
\* counts, amount and timestamp can be read; turn: event_type is model_turn;
\* attempt, price: the identity and the price snapshot and band it carries.
Event == [sequence : Nat, attempt : Nat, key : Keys, price : Nat, at : 0 .. MaxTime,
          usable : BOOLEAN, turn : BOOLEAN]

ASSUME FilesAssumption == \A f \in Files : \A i \in DOMAIN f : f[i] \in Event

Attempt == { a \in [key : Keys, started : 0 .. MaxTime, finished : 0 .. NotFinished] :
               a.started <= a.finished }

TypeOK ==
    /\ files \in [Sessions -> Files]
    /\ attempts \in [Attempts -> Attempt]
    /\ next \in 1 .. MaxSessions + 1
    /\ assigned \in [Attempts -> 0 .. MaxSessions]
    /\ unassigned \subseteq Sessions
    /\ ambiguous \subseteq Sessions
    /\ skipped \subseteq Sessions

Init ==
    /\ files \in [Sessions -> Files]
    /\ attempts \in [Attempts -> Attempt]
    /\ next = 1
    /\ assigned = [a \in Attempts |-> 0]
    /\ unassigned = {}
    /\ ambiguous = {}
    /\ skipped = {}

Turns(file) == { i \in DOMAIN file : file[i].turn }

\* _scan_file's test: one line that cannot be used, a sequence that does not
\* grow (whatever phase the lines belong to), or turns that disagree on
\* attempt, task or price poison the whole file.
IsOneSession(file) ==
    /\ \A i \in DOMAIN file : file[i].usable
    /\ \A i, j \in DOMAIN file : i < j => file[i].sequence < file[j].sequence
    /\ \A i, j \in Turns(file) : /\ file[i].attempt = file[j].attempt
                                 /\ file[i].key = file[j].key
                                 /\ file[i].price = file[j].price
    /\ Turns(file) # {}

\* The SpoolUsageRecord of a session: whose it is, and last_recorded_at.
Scan(file) ==
    [key |-> file[CHOOSE i \in Turns(file) : TRUE].key,
     observed |-> Max({ file[i].at : i \in Turns(file) })]

\* _in_window; the lower bound started_at - grace is written without
\* subtraction.
InWindow(s, a) ==
    LET started == attempts[a].started
        observed == Scan(files[s]).observed
        ended == IF attempts[a].finished = NotFinished THEN started ELSE attempts[a].finished
    IN  started <= observed + ClockGrace /\ observed <= ended + ClockGrace

IsCandidate(s, a) ==
    /\ IsOneSession(files[s])
    /\ attempts[a].key = Scan(files[s]).key
    /\ InWindow(s, a)

\* Mutant: only the time window decides.
HitsOfAnyTask(s) ==
    { a \in Attempts : IsOneSession(files[s]) /\ InWindow(s, a) /\ assigned[a] = 0 }

\* Mutant: an attempt that has a session may get another.
HitsAgain(s) == { a \in Attempts : IsCandidate(s, a) }

\* The attempts that no earlier session has been bound to.
Hits(s) == { a \in Attempts : IsCandidate(s, a) /\ assigned[a] = 0 }

\* A poisoned file takes no part in the assignment.
Skip(s) ==
    /\ ~ IsOneSession(files[s])
    /\ skipped' = skipped \cup {s}
    /\ UNCHANGED <<assigned, unassigned, ambiguous>>

Bind(s) ==
    /\ \E a \in Hits(s) : Hits(s) = {a} /\ assigned' = [assigned EXCEPT ![a] = s]
    /\ UNCHANGED <<unassigned, ambiguous, skipped>>

LeaveUnassigned(s) ==
    /\ IsOneSession(files[s])
    /\ Hits(s) = {}
    /\ unassigned' = unassigned \cup {s}
    /\ UNCHANGED <<assigned, ambiguous, skipped>>

ReportAmbiguous(s) ==
    /\ Cardinality(Hits(s)) > 1
    /\ ambiguous' = ambiguous \cup {s}
    /\ UNCHANGED <<assigned, unassigned, skipped>>

Next ==
    /\ next \in Sessions
    /\ Skip(next) \/ Bind(next) \/ LeaveUnassigned(next) \/ ReportAmbiguous(next)
    /\ next' = next + 1
    /\ UNCHANGED <<files, attempts>>

Spec == Init /\ [][Next]_vars

-----------------------------------------------------------------------------
(* Properties *)

Done == next > MaxSessions

\* Where the evidence is conclusive it is used, in any file order: a session
\* and an attempt that are each other's only candidate are bound.
MutualMatchesAreBound ==
    Done => \A s \in Sessions, a \in Attempts :
        (/\ IsCandidate(s, a)
         /\ \A b \in Attempts : IsCandidate(s, b) => b = a
         /\ \A t \in Sessions : IsCandidate(t, a) => t = s) => assigned[a] = s

\* No usage is charged twice and none is lost: every file ends in exactly
\* one of skipped, assigned, unassigned and ambiguous, and an assigned one is a
\* single session of the attempt's task and time.
EverySessionAccountedOnce ==
    \A s \in Sessions :
        LET owners == { a \in Attempts : assigned[a] = s } IN
        /\ s < next => Cardinality(owners) + Cardinality({ i \in 1 .. 3 : s \in <<unassigned, ambiguous, skipped>>[i] }) = 1
        /\ \A a \in owners : IsCandidate(s, a)

\* "anything ambiguous stays unassigned and is reported, never guessed": an
\* attempt that two sessions could belong to is given to neither.
NeverGuessed ==
    \A a \in Attempts : \A s, t \in Sessions :
        assigned[a] = s /\ s # 0 /\ IsCandidate(s, a) /\ IsCandidate(t, a) => s = t
=============================================================================
