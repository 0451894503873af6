------------------------- MODULE SpoolAssignmentProofs -------------------------
(* Theorems about SpoolAssignment, for any number of files and attempts, any  *)
(* contents and any clock.                                                    *)
EXTENDS SpoolAssignment, FiniteSetTheorems, TLAPS

-----------------------------------------------------------------------------
(* Type correctness *)

\* What is bound is a session.
THEOREM SpoolTypes == Spec => []TypeOK
  <1>1. Init => TypeOK
    BY BoundsAssumption DEF Init, TypeOK
  <1>2. TypeOK /\ [Next]_vars => TypeOK'
    <2>. SUFFICES ASSUME TypeOK, [Next]_vars
                  PROVE  TypeOK'
      OBVIOUS
    <2>1. CASE UNCHANGED vars
      BY <2>1 DEF vars, TypeOK
    <2>2. CASE Next
      <3>1. /\ next \in Sessions /\ next' \in 1 .. MaxSessions + 1 /\ next \in 0 .. MaxSessions
            /\ UNCHANGED <<files, attempts>>
        BY <2>2, BoundsAssumption DEF Next, Sessions
      <3>2. CASE Skip(next) \/ LeaveUnassigned(next) \/ ReportAmbiguous(next)
        BY <3>1, <3>2 DEF TypeOK, Skip, LeaveUnassigned, ReportAmbiguous
      <3>3. CASE Bind(next)
        BY <3>1, <3>3 DEF TypeOK, Bind, Hits
      <3> QED
        BY <2>2, <3>2, <3>3 DEF Next
    <2> QED
      BY <2>1, <2>2
  <1> QED
    BY <1>1, <1>2, PTL DEF Spec

-----------------------------------------------------------------------------
(* Accounting *)

Owners(s) == { a \in Attempts : assigned[a] = s }

Reports(s) == { i \in 1 .. 3 : s \in <<unassigned, ambiguous, skipped>>[i] }

\* What holds between two sessions: the ones behind are accounted for once,
\* the ones ahead are not touched, and what is bound is a candidate.
Accounted ==
    /\ \A s \in Sessions : s < next =>
          \/ (\E a \in Attempts : Owners(s) = {a}) /\ Reports(s) = {}
          \/ Owners(s) = {} /\ \E i \in 1 .. 3 : Reports(s) = {i}
    /\ \A s \in Sessions : s >= next => Owners(s) = {} /\ Reports(s) = {}
    /\ \A s \in Sessions : \A a \in Owners(s) : IsCandidate(s, a)

LEMMA ReportsOf ==
    ASSUME NEW s
    PROVE  /\ 1 \in Reports(s) <=> s \in unassigned
           /\ 2 \in Reports(s) <=> s \in ambiguous
           /\ 3 \in Reports(s) <=> s \in skipped
           /\ Reports(s) \subseteq {1, 2, 3}
  BY DEF Reports

\* Binding looks at nothing that changes but what is bound.
LEMMA CandidatesStay ==
    ASSUME UNCHANGED <<files, attempts>>, NEW s, NEW a
    PROVE  IsCandidate(s, a)' <=> IsCandidate(s, a)
  BY DEF IsCandidate, InWindow, IsOneSession, Scan, Turns

\* One session is dealt with in one of four ways.
LEMMA AccountedStep ==
    ASSUME TypeOK, Accounted, Next
    PROVE  Accounted'
  <1>1. PICK now \in Sessions : now = next
    BY DEF Next
  <1>2. /\ next' = now + 1 /\ UNCHANGED <<files, attempts>> /\ now \in Nat \ {0}
        /\ Owners(now) = {} /\ Reports(now) = {}
        /\ assigned \in [Attempts -> 0 .. MaxSessions]
    BY <1>1 DEF Next, Accounted, Sessions, TypeOK
  <1>3. \A s \in Sessions : /\ s < next' <=> s < next \/ s = now
                            /\ s >= next' => s >= next /\ s # now
    BY <1>1, <1>2 DEF Sessions
  <1>4. ASSUME NEW a \in Attempts, Hits(now) = {a}, assigned' = [assigned EXCEPT ![a] = now],
               UNCHANGED <<unassigned, ambiguous, skipped>>
        PROVE  Accounted'
    <2>1. assigned[a] = 0 /\ IsCandidate(now, a)
      BY <1>4 DEF Hits
    <2>2. \A b \in Attempts : assigned'[b] = IF b = a THEN now ELSE assigned[b]
      BY <1>2, <1>4
    <2>3. \A s \in Sessions : /\ Reports(s)' = Reports(s)
                              /\ s # now => Owners(s)' = Owners(s)
      BY <1>4, <2>1, <2>2 DEF Owners, Reports, Sessions
    <2>4. Owners(now)' = {a}
      BY <1>2, <2>2 DEF Owners
    <2>5. \A s \in Sessions : \A b \in Owners(s)' : IsCandidate(s, b)'
      BY <1>2, <2>1, <2>3, <2>4, CandidatesStay DEF Accounted
    <2> QED
      BY <1>2, <1>3, <2>3, <2>4, <2>5 DEF Accounted
  <1>5. ASSUME NEW k \in 1 .. 3, UNCHANGED assigned,
               \A s \in Sessions : s # now => Reports(s)' = Reports(s),
               Reports(now)' = Reports(now) \cup {k}
        PROVE  Accounted'
    <2>1. \A s \in Sessions : Owners(s)' = Owners(s)
      BY <1>5 DEF Owners
    <2>2. \A s \in Sessions : \A b \in Owners(s)' : IsCandidate(s, b)'
      BY <1>2, <2>1, CandidatesStay DEF Accounted
    <2> QED
      BY <1>2, <1>3, <1>5, <2>1, <2>2 DEF Accounted
  <1>6. CASE Bind(now)
    BY <1>4, <1>6 DEF Bind, Hits
  <1>7. CASE LeaveUnassigned(now)
    <2>1. /\ UNCHANGED assigned /\ Reports(now)' = Reports(now) \cup {1}
          /\ \A s \in Sessions : s # now => Reports(s)' = Reports(s)
      BY <1>7 DEF LeaveUnassigned, Reports
    <2> QED
      BY <1>5, <2>1
  <1>8. CASE ReportAmbiguous(now)
    <2>1. /\ UNCHANGED assigned /\ Reports(now)' = Reports(now) \cup {2}
          /\ \A s \in Sessions : s # now => Reports(s)' = Reports(s)
      BY <1>8 DEF ReportAmbiguous, Reports
    <2> QED
      BY <1>5, <2>1
  <1>9. CASE Skip(now)
    <2>1. /\ UNCHANGED assigned /\ Reports(now)' = Reports(now) \cup {3}
          /\ \A s \in Sessions : s # now => Reports(s)' = Reports(s)
      BY <1>9 DEF Skip, Reports
    <2> QED
      BY <1>5, <2>1
  <1> QED
    BY <1>1, <1>6, <1>7, <1>8, <1>9 DEF Next

LEMMA Accounting == Spec => []Accounted
  <1>1. Init => Accounted
    BY BoundsAssumption DEF Init, Accounted, Owners, Reports, Sessions
  <1>2. TypeOK /\ Accounted /\ [Next]_vars => Accounted'
    <2>. SUFFICES ASSUME TypeOK, Accounted, UNCHANGED vars
                  PROVE  Accounted'
      BY AccountedStep
    <2>1. \A s \in Sessions : Owners(s)' = Owners(s) /\ Reports(s)' = Reports(s)
      BY DEF vars, Owners, Reports
    <2>2. \A s \in Sessions : \A a \in Owners(s)' : IsCandidate(s, a)'
      BY <2>1, CandidatesStay DEF vars, Accounted
    <2> QED
      BY <2>1, <2>2 DEF vars, Accounted
  <1> QED
    BY <1>1, <1>2, SpoolTypes, PTL DEF Spec

\* No usage is charged twice or lost, however many files there are.
THEOREM AccountedOnceAlways == Spec => []EverySessionAccountedOnce
  <1>1. TypeOK /\ Accounted => EverySessionAccountedOnce
    <2>. SUFFICES ASSUME TypeOK, Accounted, NEW s \in Sessions
                  PROVE  /\ s < next => Cardinality(Owners(s)) + Cardinality(Reports(s)) = 1
                         /\ \A a \in Owners(s) : IsCandidate(s, a)
      BY DEF EverySessionAccountedOnce, Owners, Reports
    <2>1. \A x : Cardinality({x}) = 1
      BY FS_Singleton
    <2>2. Cardinality({}) = 0
      BY FS_EmptySet
    <2>3. s < next => Cardinality(Owners(s)) + Cardinality(Reports(s)) = 1
      <3>1. ASSUME s < next
            PROVE  \/ Cardinality(Owners(s)) = 1 /\ Cardinality(Reports(s)) = 0
                   \/ Cardinality(Owners(s)) = 0 /\ Cardinality(Reports(s)) = 1
        BY <2>1, <2>2, <3>1, Zenon DEF Accounted
      <3> QED
        BY <3>1
    <2>4. \A a \in Owners(s) : IsCandidate(s, a)
      BY DEF Accounted, Owners, Sessions
    <2> QED
      BY <2>3, <2>4
  <1> QED
    BY <1>1, SpoolTypes, Accounting, PTL

-----------------------------------------------------------------------------
(* Conclusive evidence *)

IsMutual(s, a) ==
    /\ IsCandidate(s, a)
    /\ \A b \in Attempts : IsCandidate(s, b) => b = a
    /\ \A t \in Sessions : IsCandidate(t, a) => t = s

\* The sessions behind have got the attempt that is theirs alone.
MutualSettled ==
    \A s \in Sessions, a \in Attempts : s < next /\ IsMutual(s, a) => assigned[a] = s

\* Whatever was bound before, the only candidate of a session is still free
\* when the session's turn comes.
THEOREM MutualMatchesAreBoundAlways == Spec => []MutualMatchesAreBound
  <1>1. Init => MutualSettled
    BY DEF Init, MutualSettled, Sessions
  <1>2. TypeOK /\ Accounted /\ MutualSettled /\ [Next]_vars => MutualSettled'
    <2>. SUFFICES ASSUME TypeOK, Accounted, MutualSettled, [Next]_vars,
                         NEW s \in Sessions, NEW a \in Attempts, s < next', IsMutual(s, a)'
                  PROVE  assigned'[a] = s
      BY DEF MutualSettled
    <2>1. IsMutual(s, a)
      <3>1. UNCHANGED <<files, attempts>>
        BY DEF Next, vars
      <3> QED
        BY <3>1, CandidatesStay DEF IsMutual
    <2>2. assigned \in [Attempts -> 0 .. MaxSessions]
      BY DEF TypeOK
    <2>3. CASE s < next
      <3>1. assigned[a] = s /\ s # 0
        BY <2>1, <2>3 DEF MutualSettled, Sessions
      <3>2. CASE UNCHANGED assigned
        BY <3>1, <3>2
      <3>3. ASSUME NEW now, Bind(now)
            PROVE  assigned'[a] = s
        BY <2>2, <3>1, <3>3 DEF Bind, Hits
      <3> QED
        BY <3>2, <3>3 DEF Next, Skip, LeaveUnassigned, ReportAmbiguous, vars
    <2>4. CASE ~(s < next)
      <3>1. s = next /\ Next /\ s # 0
        BY <2>4 DEF Next, vars, Sessions, TypeOK
      <3>2. assigned[a] = 0
        <4>1. assigned[a] # 0 => IsCandidate(assigned[a], a) /\ assigned[a] \in Sessions
          BY <2>2, BoundsAssumption DEF Accounted, Owners, Sessions
        <4>2. assigned[a] # s
          BY <3>1 DEF Accounted, Owners, Sessions
        <4> QED
          BY <2>1, <4>1, <4>2 DEF IsMutual
      <3>3. Hits(s) = {a}
        BY <2>1, <3>2 DEF IsMutual, Hits
      <3>4. IsOneSession(files[s])
        BY <2>1 DEF IsMutual, IsCandidate
      <3>5. Cardinality(Hits(s)) = 1
        BY <3>3, FS_Singleton
      <3>6. Bind(s)
        BY <3>1, <3>3, <3>4, <3>5 DEF Next, Skip, LeaveUnassigned, ReportAmbiguous
      <3> QED
        BY <2>2, <3>3, <3>6 DEF Bind
    <2> QED
      BY <2>3, <2>4
  <1>3. TypeOK /\ MutualSettled => MutualMatchesAreBound
    BY BoundsAssumption
       DEF TypeOK, MutualSettled, MutualMatchesAreBound, IsMutual, Done, Sessions
  <1> QED
    BY <1>1, <1>2, <1>3, SpoolTypes, Accounting, PTL DEF Spec
=============================================================================
