------------------------- MODULE EvaluationRunnerProofs -------------------------
(* Theorems about EvaluationRunner, for any task lists, any number of runs   *)
(* that follow or overlap each other, and any concurrency.                   *)
EXTENDS EvaluationRunner, FiniteSetTheorems, WellFoundedInduction, TLAPS

-----------------------------------------------------------------------------
(* Shape: what the steps need to know of the two tables of records.  The     *)
(* numbers that Schedule computes are left open.                             *)

IsRun(run) ==
    /\ DOMAIN run = {"phase", "stop", "error", "list", "concurrency", "completed",
                     "episodes", "seq", "outcome", "left"}
    /\ run.episodes \in [Entries -> EpisodeState]
    /\ run.phase \in Phases
    /\ run.error \in Errors

IsRow(row) == DOMAIN row = {"key", "seq", "status"}

Shape ==
    /\ DOMAIN runs = RunIds
    /\ \A r \in RunIds : IsRun(runs[r])
    /\ DOMAIN rows = Attempts
    /\ \A a \in Attempts : IsRow(rows[a])

Starting == {"new", "started", "read"}

\* What is kept for one entry of one run: a result with the status succeeded,
\* a row from the moment its episode registers it, and a subprocess only while
\* the episode executes or is being cancelled, or once its runner crashed.
Local(r, e) ==
    /\ <<r, e>> \in results <=> rows[<<r, e>>].status = "succeeded"
    /\ runs[r].phase \in Starting \/ runs[r].episodes[e] = "waiting" => rows[<<r, e>>] = NoRow
    /\ <<r, e>> \in processes =>
         /\ runs[r].phase \notin Starting \cup {"over", "failed"}
         /\ runs[r].phase = "crashed" \/ runs[r].episodes[e] \in {"executing", "cancelled"}

RunnerInv ==
    /\ Shape
    /\ processes \subseteq Attempts
    /\ \A r \in RunIds, e \in Entries : Local(r, e)

\* What a step of one run does to it, field by field.
Becomes(r, phase, stop, episodes) ==
    /\ DOMAIN runs' = RunIds
    /\ \A q \in RunIds \ {r} : runs'[q] = runs[q]
    /\ IsRun(runs'[r])
    /\ runs'[r].phase = phase
    /\ runs'[r].stop = stop
    /\ runs'[r].episodes = episodes

\* A step of one run leaves what the others keep alone.
LEMMA StepOfRun ==
    ASSUME RunnerInv, NEW r \in RunIds,
           NEW phase, NEW stop, NEW episodes, Becomes(r, phase, stop, episodes),
           DOMAIN rows' = Attempts,
           processes' \subseteq Attempts,
           \A q \in RunIds \ {r}, e \in Entries :
              /\ rows'[<<q, e>>] = rows[<<q, e>>]
              /\ <<q, e>> \in results' <=> <<q, e>> \in results
              /\ <<q, e>> \in processes' => <<q, e>> \in processes,
           \A e \in Entries : IsRow(rows'[<<r, e>>]) /\ Local(r, e)'
    PROVE  RunnerInv'
  <1>1. Shape'
    <2>1. \A q \in RunIds : IsRun(runs'[q])
      BY DEF RunnerInv, Shape, Becomes
    <2>2. \A a \in Attempts : IsRow(rows'[a])
      BY DEF RunnerInv, Shape, Attempts
    <2> QED
      BY <2>1, <2>2 DEF Shape, Becomes
  <1>2. ASSUME NEW q \in RunIds \ {r}, NEW e \in Entries
        PROVE  Local(q, e)'
    BY DEF RunnerInv, Becomes, Local
  <1> QED
    BY <1>1, <1>2 DEF RunnerInv

\* In particular a step that changes nothing else.
LEMMA QuietStepOfRun ==
    ASSUME RunnerInv, NEW r \in RunIds,
           NEW phase, NEW stop, NEW episodes, Becomes(r, phase, stop, episodes),
           UNCHANGED <<rows, results, processes>>,
           \A e \in Entries :
              /\ phase \in Starting \/ episodes[e] = "waiting" =>
                   runs[r].phase \in Starting \/ runs[r].episodes[e] = "waiting"
              /\ <<r, e>> \in processes =>
                   /\ phase \notin Starting \cup {"over", "failed"}
                   /\ phase = "crashed" \/ episodes[e] \in {"executing", "cancelled"}
    PROVE  RunnerInv'
  <1>1. \A e \in Entries : Local(r, e)'
    BY DEF RunnerInv, Becomes, Local
  <1>2. \A e \in Entries : IsRow(rows'[<<r, e>>])
    BY DEF RunnerInv, Shape, Attempts
  <1>3. DOMAIN rows' = Attempts /\ processes' \subseteq Attempts
    BY DEF RunnerInv, Shape
  <1> QED
    BY <1>1, <1>2, <1>3, StepOfRun

\* A run that has not started, and a process that is gone.
LEMMA EmptyRuns ==
    /\ IsRun(NoRun)
    /\ NoRun.phase = "new" /\ NoRun.stop = FALSE /\ NoRun.error = "none"
    /\ NoRun.episodes = [e \in Entries |-> "none"]
    /\ IsRow(NoRow) /\ NoRow.status = "absent"
  <1>1. NoRun.phase = "new" /\ NoRun.stop = FALSE /\ NoRun.error = "none"
    BY DEF NoRun
  <1>2. NoRun.episodes = [e \in Entries |-> "none"]
    BY DEF NoRun
  <1>3. DOMAIN NoRun = {"phase", "stop", "error", "list", "concurrency", "completed",
                        "episodes", "seq", "outcome", "left"}
    BY DEF NoRun
  <1>4. IsRow(NoRow) /\ NoRow.status = "absent"
    BY DEF NoRow, IsRow
  <1> QED
    BY <1>1, <1>2, <1>3, <1>4 DEF IsRun, Phases, EpisodeState, Errors

LEMMA RunnerInit == Init => RunnerInv
  BY EmptyRuns DEF Init, RunnerInv, Shape, Local, Attempts

\* A run that is over keeps its phase and its error.
LEMMA ExitedRun ==
    ASSUME RunnerInv, NEW r \in RunIds, NEW phase \in Over, NEW error \in Errors,
           runs' = [runs EXCEPT ![r] = Exited(phase, error)]
    PROVE  Becomes(r, phase, FALSE, [e \in Entries |-> "none"])
  <1>0. /\ IsRun(Exited(phase, error))
        /\ Exited(phase, error).phase = phase /\ Exited(phase, error).stop = FALSE
        /\ Exited(phase, error).episodes = [e \in Entries |-> "none"]
    BY EmptyRuns DEF Exited, IsRun, Phases
  <1>1. PICK exited : exited = Exited(phase, error)
    OBVIOUS
  <1>2. DOMAIN runs = RunIds /\ runs' = [runs EXCEPT ![r] = exited]
    BY <1>1 DEF RunnerInv, Shape
  <1> QED
    BY <1>0, <1>1, <1>2 DEF Becomes

-----------------------------------------------------------------------------
(* Starting *)

LEMMA StartingSteps ==
    ASSUME RunnerInv, NEW r \in RunIds,
           \/ \E c \in Configs : Start(r, c)
           \/ ReadCompleted(r) \/ Schedule(r) \/ StartFails(r)
    PROVE  RunnerInv'
  <1>0. DOMAIN runs = RunIds /\ IsRun(runs[r])
    BY DEF RunnerInv, Shape
  <1>1. ASSUME runs[r].phase \in Starting
        PROVE  \A e \in Entries : <<r, e>> \notin processes
    BY <1>1 DEF RunnerInv, Local
  <1>2. ASSUME NEW c \in Configs, Start(r, c)
        PROVE  RunnerInv'
    <2>1. PICK phase \in {"started", "failed"} :
             Becomes(r, phase, FALSE, [e \in Entries |-> "none"])
      <3>1. CASE experiment' = c.hash
        <4>1. runs' = [runs EXCEPT ![r] = [NoRun EXCEPT !.phase = "started", !.list = c.list,
                                                        !.concurrency = c.concurrency]]
          BY <1>2, <3>1 DEF Start
        <4> QED
          BY <1>0, <4>1, EmptyRuns DEF IsRun, Becomes, Phases
      <3>2. CASE experiment' # c.hash
        <4>1. runs' = [runs EXCEPT ![r] = Exited("failed", "none")]
          BY <1>2, <3>2 DEF Start
        <4> QED
          BY <4>1, ExitedRun DEF Over, Errors
      <3> QED
        BY <3>1, <3>2
    <2>2. runs[r].phase \in Starting /\ UNCHANGED <<rows, results, processes>>
      BY <1>2 DEF Start, Starting
    <2> QED
      BY <1>1, <2>1, <2>2, QuietStepOfRun
  <1>3. CASE ReadCompleted(r)
    <2>1. Becomes(r, "read", runs[r].stop, runs[r].episodes)
      BY <1>0, <1>3 DEF ReadCompleted, IsRun, Becomes, Phases
    <2>2. runs[r].phase \in Starting /\ UNCHANGED <<rows, results, processes>>
      BY <1>3 DEF ReadCompleted, Starting
    <2> QED
      BY <1>1, <2>1, <2>2, QuietStepOfRun
  <1>4. CASE Schedule(r)
    <2>1. PICK episodes : Becomes(r, "running", runs[r].stop, episodes)
      BY <1>0, <1>4 DEF Schedule, IsRun, Becomes, Phases, EpisodeState
    <2>2. runs[r].phase \in Starting /\ UNCHANGED <<rows, results, processes>>
      BY <1>4 DEF Schedule, Starting
    <2> QED
      BY <1>1, <2>1, <2>2, QuietStepOfRun
  <1>5. CASE StartFails(r)
    <2>1. Becomes(r, "failed", FALSE, [e \in Entries |-> "none"])
      BY <1>5, ExitedRun DEF StartFails, Over, Errors
    <2>2. runs[r].phase \in Starting /\ UNCHANGED <<rows, results, processes>>
      BY <1>5 DEF StartFails, Starting
    <2> QED
      BY <1>1, <2>1, <2>2, QuietStepOfRun
  <1> QED
    BY <1>2, <1>3, <1>4, <1>5

-----------------------------------------------------------------------------
(* Episodes *)

\* The steps of an episode that write nothing.
LEMMA QuietEpisodeSteps ==
    ASSUME RunnerInv, NEW r \in RunIds, NEW e \in Entries,
           StayUnattempted(r, e) \/ StoreFails(r, e) \/ AbandonFails(r, e)
    PROVE  RunnerInv'
  <1>0. DOMAIN runs = RunIds /\ IsRun(runs[r]) /\ \A f \in Entries : Local(r, f)
    BY DEF RunnerInv, Shape
  <1>1. UNCHANGED <<rows, results, processes>>
    BY DEF StayUnattempted, StoreFails, AbandonFails
  <1>2. CASE StayUnattempted(r, e) \/ StoreFails(r, e)
    <2>1. Becomes(r, runs[r].phase, runs[r].stop, [runs[r].episodes EXCEPT ![e] = "done"])
      BY <1>0, <1>2 DEF StayUnattempted, StoreFails, IsRun, Becomes, EpisodeState, Errors
    <2>2. <<r, e>> \notin processes
      <3>1. runs[r].episodes[e] \in {"waiting", "registered", "returned"} /\ runs[r].phase # "crashed"
        BY <1>2 DEF StayUnattempted, StoreFails, HasPermit, LoopIdle, Alive, Over
      <3> QED
        BY <1>0, <3>1 DEF Local
    <2> QED
      BY <1>0, <1>1, <2>1, <2>2, QuietStepOfRun DEF IsRun, Local
  <1>3. CASE AbandonFails(r, e)
    <2>. DEFINE episodes == [f \in Entries |->
                               IF runs[r].episodes[f] = "waiting" THEN "done"
                               ELSE IF f \in Unfinished(r) THEN "cancelled"
                                    ELSE runs[r].episodes[f]]
    <2>1. Becomes(r, "closing", runs[r].stop, episodes)
      BY <1>0, <1>3 DEF AbandonFails, IsRun, Becomes, Phases, EpisodeState, Errors
    <2>2. \A f \in Entries : /\ episodes[f] # "waiting"
                             /\ runs[r].episodes[f] \in {"executing", "cancelled"}
                                  => episodes[f] = "cancelled"
      BY DEF Unfinished
    <2>3. runs[r].phase = "abandoning"
      BY <1>3 DEF AbandonFails
    <2>. HIDE DEF episodes
    <2> QED
      BY <1>0, <1>1, <2>1, <2>2, <2>3, QuietStepOfRun DEF Local, Starting
  <1> QED
    BY <1>2, <1>3

\* The steps that write the row of an episode, its result, or its process.
LEMMA WritingEpisodeSteps ==
    ASSUME RunnerInv, NEW r \in RunIds, NEW e \in Entries,
           \/ RegisterAttempt(r, e) \/ MarkRunning(r, e)
           \/ \E status \in EpisodeStatus : EpisodeReturns(r, e, status)
           \/ FinishAttempt(r, e) \/ Abandon(r, e) \/ KillCancelled(r, e)
           \/ CancellationLost(r, e)
    PROVE  RunnerInv'
  <1>0. /\ DOMAIN runs = RunIds /\ IsRun(runs[r]) /\ \A f \in Entries : Local(r, f)
        /\ DOMAIN rows = Attempts /\ \A a \in Attempts : IsRow(rows[a])
        /\ processes \subseteq Attempts /\ <<r, e>> \in Attempts
    BY DEF RunnerInv, Shape, Attempts
  <1>1. ASSUME NEW episode \in EpisodeState \ {"none", "waiting"},
               Becomes(r, runs[r].phase, runs[r].stop, [runs[r].episodes EXCEPT ![e] = episode]),
               runs[r].phase \notin Starting \cup Over,
               \/ UNCHANGED rows
               \/ \E row : IsRow(row) /\ rows' = [rows EXCEPT ![<<r, e>>] = row],
               \A a \in Attempts \ {<<r, e>>} : /\ a \in results' <=> a \in results
                                                /\ a \in processes' => a \in processes,
               <<r, e>> \in results' <=> rows'[<<r, e>>].status = "succeeded",
               processes' \subseteq Attempts,
               <<r, e>> \in processes' => episode \in {"executing", "cancelled"}
        PROVE  RunnerInv'
    <2>1. /\ DOMAIN rows' = Attempts /\ IsRow(rows'[<<r, e>>])
          /\ \A a \in Attempts \ {<<r, e>>} : rows'[a] = rows[a]
      BY <1>0, <1>1
    <2>2. \A q \in RunIds \ {r}, f \in Entries : <<q, f>> \in Attempts \ {<<r, e>>}
      BY DEF Attempts
    <2>3. ASSUME NEW f \in Entries
          PROVE  IsRow(rows'[<<r, f>>]) /\ Local(r, f)'
      <3>1. CASE f = e
        BY <1>0, <1>1, <2>1, <3>1 DEF Local, Becomes, IsRun, Starting, Over
      <3>2. CASE f # e
        <4>1. <<r, f>> \in Attempts \ {<<r, e>>}
          BY <3>2 DEF Attempts
        <4>2. runs'[r].episodes[f] = runs[r].episodes[f] /\ runs'[r].phase = runs[r].phase
          BY <1>0, <1>1, <3>2 DEF Becomes, IsRun
        <4> QED
          BY <1>0, <1>1, <2>1, <4>1, <4>2 DEF Local
      <3> QED
        BY <3>1, <3>2
    <2> QED
      BY <1>1, <2>1, <2>2, <2>3, StepOfRun
  <1>2. CASE RegisterAttempt(r, e)
    <2>1. /\ runs[r].phase \notin Starting \cup Over /\ runs[r].episodes[e] = "waiting"
          /\ rows[<<r, e>>] = NoRow /\ UNCHANGED <<results, processes>>
          /\ <<r, e>> \notin processes
      BY <1>0, <1>2 DEF RegisterAttempt, HasPermit, LoopIdle, Local, Starting, Over
    <2>2. Becomes(r, runs[r].phase, runs[r].stop, [runs[r].episodes EXCEPT ![e] = "registered"])
      BY <1>0, <1>2 DEF RegisterAttempt, IsRun, Becomes, EpisodeState
    <2>3. \E row : IsRow(row) /\ row.status = "pending" /\ rows' = [rows EXCEPT ![<<r, e>>] = row]
      BY <1>2 DEF RegisterAttempt, IsRow
    <2>4. rows'[<<r, e>>].status = "pending" /\ <<r, e>> \notin results
      BY <1>0, <2>1, <2>3, EmptyRuns DEF Local
    <2> QED
      BY <1>0, <1>1, <2>1, <2>2, <2>3, <2>4 DEF EpisodeState
  <1>3. CASE MarkRunning(r, e)
    <2>1. /\ runs[r].phase \notin Starting \cup Over /\ runs[r].episodes[e] = "registered"
          /\ rows[<<r, e>>].status = "pending"
          /\ processes' = processes \cup {<<r, e>>} /\ UNCHANGED results
      <3>1. rows[<<r, e>>] # NoRow
        BY <1>3, EmptyRuns DEF MarkRunning
      <3> QED
        BY <1>0, <1>3, <3>1 DEF MarkRunning, Local, Alive, Starting
    <2>2. Becomes(r, runs[r].phase, runs[r].stop, [runs[r].episodes EXCEPT ![e] = "executing"])
      BY <1>0, <1>3 DEF MarkRunning, IsRun, Becomes, EpisodeState
    <2>3. PICK row : /\ IsRow(row) /\ row.status = "running"
                     /\ rows' = [rows EXCEPT ![<<r, e>>] = row]
      BY <1>0, <1>3 DEF MarkRunning, IsRow
    <2>4. rows'[<<r, e>>].status = "running" /\ <<r, e>> \notin results
      BY <1>0, <2>1, <2>3 DEF Local
    <2> QED
      BY <1>0, <1>1, <2>1, <2>2, <2>3, <2>4 DEF EpisodeState
  <1>4. ASSUME NEW status \in EpisodeStatus, EpisodeReturns(r, e, status)
        PROVE  RunnerInv'
    <2>1. /\ <<r, e>> \in processes /\ processes' = processes \ {<<r, e>>}
          /\ UNCHANGED <<rows, results>> /\ runs[r].phase \notin Starting \cup Over
          /\ runs[r].episodes[e] \in {"executing", "cancelled"}
      BY <1>0, <1>4 DEF EpisodeReturns, Local, Alive, Over
    <2>2. PICK episode \in {"returned", "cancelled"} :
             Becomes(r, runs[r].phase, runs[r].stop, [runs[r].episodes EXCEPT ![e] = episode])
      BY <1>0, <1>4 DEF EpisodeReturns, IsRun, Becomes, EpisodeState
    <2> QED
      BY <1>0, <1>1, <2>1, <2>2 DEF EpisodeState, Local
  <1>5. ASSUME NEW status, FinishRow(<<r, e>>, status)
        PROVE  /\ \E row : IsRow(row) /\ rows' = [rows EXCEPT ![<<r, e>>] = row]
               /\ \A a \in Attempts \ {<<r, e>>} : a \in results' <=> a \in results
               /\ <<r, e>> \in results' <=> rows'[<<r, e>>].status = "succeeded"
    <2>1. <<r, e>> \notin results
      BY <1>0, <1>5 DEF FinishRow, Local
    <2>2. PICK row : /\ IsRow(row) /\ row.status = status
                     /\ rows' = [rows EXCEPT ![<<r, e>>] = row]
      BY <1>0, <1>5 DEF FinishRow, IsRow
    <2> QED
      BY <1>0, <1>5, <2>1, <2>2 DEF FinishRow
  <1>6. CASE FinishAttempt(r, e)
    <2>1. /\ runs[r].episodes[e] = "returned" /\ UNCHANGED processes
          /\ runs[r].phase \notin Starting \cup Over /\ <<r, e>> \notin processes
      BY <1>0, <1>6 DEF FinishAttempt, LoopIdle, Local, Starting, Over
    <2>2. Becomes(r, runs[r].phase, runs[r].stop, [runs[r].episodes EXCEPT ![e] = "done"])
      BY <1>0, <1>6 DEF FinishAttempt, IsRun, Becomes, EpisodeState, Errors
    <2> QED
      BY <1>0, <1>1, <1>6, <2>1, <2>2, <1>5 DEF FinishAttempt, EpisodeState
  <1>7. CASE Abandon(r, e)
    <2>1. /\ UNCHANGED <<results, processes>> /\ runs[r].phase \notin Starting \cup Over
      BY <1>7 DEF Abandon, Starting, Over
    <2>2. PICK episode \in {"done", "cancelled"} :
             /\ Becomes(r, runs[r].phase, runs[r].stop, [runs[r].episodes EXCEPT ![e] = episode])
             /\ episode = "done" => runs[r].episodes[e] = "waiting"
      BY <1>0, <1>7 DEF Abandon, IsRun, Becomes, EpisodeState
    <2>3. CASE rows[<<r, e>>].status = "running"
      <3>1. PICK row : /\ IsRow(row) /\ row.status = "interrupted"
                       /\ rows' = [rows EXCEPT ![<<r, e>>] = row]
        BY <1>0, <1>7, <2>3 DEF Abandon, IsRow
      <3>2. rows'[<<r, e>>].status = "interrupted" /\ <<r, e>> \notin results
        BY <1>0, <2>3, <3>1 DEF Local
      <3>3. <<r, e>> \in processes => episode = "cancelled"
        BY <1>0, <2>1, <2>2 DEF Local, Over
      <3> QED
        BY <1>0, <1>1, <2>1, <2>2, <3>1, <3>2, <3>3 DEF EpisodeState
    <2>4. CASE rows[<<r, e>>].status # "running"
      <3>1. UNCHANGED rows
        BY <1>7, <2>4 DEF Abandon
      <3>2. <<r, e>> \in processes => episode = "cancelled"
        BY <1>0, <2>1, <2>2 DEF Local, Over
      <3>3. <<r, e>> \in results <=> rows[<<r, e>>].status = "succeeded"
        BY <1>0 DEF Local
      <3> QED
        BY <1>0, <1>1, <2>1, <2>2, <3>1, <3>2, <3>3 DEF EpisodeState
    <2> QED
      BY <2>3, <2>4
  <1>8. CASE KillCancelled(r, e)
    <2>1. /\ UNCHANGED <<rows, results>> /\ runs[r].phase \notin Starting \cup Over
          /\ processes' = processes \ {<<r, e>>}
      BY <1>8 DEF KillCancelled, LoopIdle, Starting, Over
    <2>2. Becomes(r, runs[r].phase, runs[r].stop, [runs[r].episodes EXCEPT ![e] = "done"])
      BY <1>0, <1>8 DEF KillCancelled, IsRun, Becomes, EpisodeState
    <2>3. <<r, e>> \in results <=> rows[<<r, e>>].status = "succeeded"
      BY <1>0 DEF Local
    <2> QED
      BY <1>0, <1>1, <2>1, <2>2, <2>3 DEF EpisodeState
  <1>9. CASE CancellationLost(r, e)
    <2>1. /\ UNCHANGED processes /\ runs[r].phase \notin Starting \cup Over
          /\ <<r, e>> \notin processes
      BY <1>9 DEF CancellationLost, LoopIdle, Starting, Over
    <2>2. Becomes(r, runs[r].phase, runs[r].stop, [runs[r].episodes EXCEPT ![e] = "done"])
      BY <1>0, <1>9 DEF CancellationLost, IsRun, Becomes, EpisodeState, Errors
    <2>3. CASE UNCHANGED <<rows, results>>
      <3>1. <<r, e>> \in results <=> rows[<<r, e>>].status = "succeeded"
        BY <1>0 DEF Local
      <3> QED
        BY <1>0, <1>1, <2>1, <2>2, <2>3, <3>1 DEF EpisodeState
    <2>4. ASSUME NEW status, FinishRow(<<r, e>>, status)
          PROVE  RunnerInv'
      BY <1>0, <1>1, <1>5, <2>1, <2>2, <2>4 DEF EpisodeState
    <2> QED
      BY <1>9, <2>3, <2>4 DEF CancellationLost
  <1> QED
    BY <1>2, <1>3, <1>4, <1>6, <1>7, <1>8, <1>9

-----------------------------------------------------------------------------
(* The run as a whole *)

LEMMA RunSteps ==
    ASSUME RunnerInv, NEW r \in RunIds,
           Stop(r) \/ BeginGrace(r) \/ EndGrace(r) \/ BeginClosing(r) \/ End(r) \/ Crash(r)
    PROVE  RunnerInv'
  <1>0. DOMAIN runs = RunIds /\ IsRun(runs[r]) /\ \A f \in Entries : Local(r, f)
    BY DEF RunnerInv, Shape
  <1>1. UNCHANGED <<rows, results, processes>>
    BY DEF Stop, BeginGrace, EndGrace, BeginClosing, End, Crash
  <1>2. CASE Stop(r)
    <2>1. Becomes(r, runs[r].phase, TRUE, runs[r].episodes)
      BY <1>0, <1>2 DEF Stop, IsRun, Becomes
    <2> QED
      BY <1>0, <1>1, <2>1, QuietStepOfRun DEF Local
  <1>3. CASE BeginGrace(r) \/ EndGrace(r) \/ BeginClosing(r)
    <2>1. PICK phase \in {"grace", "abandoning", "closing"} :
             Becomes(r, phase, runs[r].stop, runs[r].episodes)
      BY <1>0, <1>3 DEF BeginGrace, EndGrace, BeginClosing, IsRun, Becomes, Phases
    <2>2. runs[r].phase \in {"running", "grace", "abandoning"}
      BY <1>3 DEF BeginGrace, EndGrace, BeginClosing
    <2> QED
      BY <1>0, <1>1, <2>1, <2>2, QuietStepOfRun DEF Local, Starting
  <1>4. CASE End(r)
    <2>1. PICK phase \in {"over", "failed"}, none \in [Entries -> {"none"}] :
             Becomes(r, phase, FALSE, none)
      BY <1>0, <1>4, ExitedRun DEF End, IsRun, Over
    <2>2. \A e \in Entries : <<r, e>> \notin processes
      BY <1>0, <1>4 DEF End, Unfinished, Local
    <2> QED
      BY <1>0, <1>1, <2>1, <2>2, QuietStepOfRun DEF Starting
  <1>5. CASE Crash(r)
    <2>1. PICK none \in [Entries -> {"none"}] : Becomes(r, "crashed", FALSE, none)
      BY <1>5, ExitedRun DEF Crash, Over, Errors
    <2> QED
      BY <1>0, <1>1, <2>1, QuietStepOfRun DEF Starting
  <1> QED
    BY <1>2, <1>3, <1>4, <1>5

LEMMA OrphanSteps ==
    ASSUME RunnerInv, NEW a \in Attempts, OrphanEnds(a)
    PROVE  RunnerInv'
  <1>1. UNCHANGED <<rows, results, runs>> /\ processes' = processes \ {a}
    BY DEF OrphanEnds
  <1> QED
    BY <1>1 DEF RunnerInv, Shape, Local

LEMMA RunnerNext == RunnerInv /\ [Next]_vars => RunnerInv'
  <1>. SUFFICES ASSUME RunnerInv, [Next]_vars
                PROVE  RunnerInv'
    OBVIOUS
  <1>1. CASE UNCHANGED vars
    BY <1>1 DEF vars, RunnerInv, Shape, Local
  <1>2. ASSUME NEW r \in RunIds, Advance(r)
        PROVE  RunnerInv'
    BY <1>2, StartingSteps, QuietEpisodeSteps, WritingEpisodeSteps, RunSteps
       DEF Advance, EpisodeStep
  <1>3. ASSUME NEW r \in RunIds, Disturb(r)
        PROVE  RunnerInv'
    BY <1>3, StartingSteps, QuietEpisodeSteps, RunSteps DEF Disturb
  <1>4. ASSUME NEW r \in RunIds, NEW c \in Configs, Start(r, c)
        PROVE  RunnerInv'
    BY <1>4, StartingSteps
  <1> QED
    BY <1>1, <1>2, <1>3, <1>4, OrphanSteps DEF Next

LEMMA RunnerInvariance == Spec => []RunnerInv
  BY RunnerInit, RunnerNext, PTL DEF Spec

-----------------------------------------------------------------------------
(* What a run knows of its episodes *)

\* An episode with a permit.
HasOne(episode) == episode \in {"registered", "executing", "returned", "cancelled"}

\* What episode and row of one entry say of each other while the run is alive.
EntryOK(r, e) ==
    LET run == runs[r]
        row == rows[<<r, e>>]
        episode == runs[r].episodes[e]
    IN
    /\ episode = "waiting" => e \in DOMAIN run.list /\ run.seq[e] # 0
    /\ row # NoRow => e \in DOMAIN run.list /\ row.key = run.list[e]
    /\ <<r, e>> \in processes => row # NoRow
    /\ episode = "returned" => run.outcome[e] \in EpisodeStatus
    /\ episode \in {"executing", "cancelled"} =>
         <<r, e>> \in processes \/ run.outcome[e] \in EpisodeStatus
    /\ run.phase = "abandoning" =>
         /\ episode # "registered"
         /\ e \in run.left => episode \notin {"none", "done"}
    /\ run.error = "none" =>
         /\ row.status = "pending" => episode = "registered"
         /\ row.status = "running" => episode \in {"executing", "returned"}
    /\ run.phase \notin Starting /\ run.error = "none" /\ ~run.stop /\ e \in DOMAIN run.list =>
         /\ episode = "none" => run.list[e] \in run.completed
         /\ episode \notin {"none", "waiting"} => row # NoRow

RunOK(r) ==
    /\ \E c \in Configs : /\ IsSameTaskSerial(c)
                          /\ runs[r].list = c.list /\ runs[r].concurrency = c.concurrency
    /\ runs[r].phase \in {"grace", "abandoning"} => runs[r].stop
    /\ runs[r].concurrency = 1 =>
         \A e, f \in Entries : HasOne(runs[r].episodes[e]) /\ HasOne(runs[r].episodes[f]) => e = f
    /\ \A e \in Entries : EntryOK(r, e)

EpisodeInv == TypeOK /\ \A r \in RunIds : Alive(r) => RunOK(r)

\* A step of one run.
LEMMA StepKeepsOthers ==
    ASSUME EpisodeInv, NEW r \in RunIds,
           runs' \in [RunIds -> Run],
           \A q \in RunIds \ {r} : runs'[q] = runs[q],
           experiment' \in Hashes \cup {NoHash},
           rows' \in [Attempts -> Row \cup {NoRow}],
           results' \subseteq Attempts, processes' \subseteq Attempts,
           \A q \in RunIds \ {r}, f \in Entries :
              /\ rows'[<<q, f>>] = rows[<<q, f>>]
              /\ <<q, f>> \in processes' <=> <<q, f>> \in processes,
           Alive(r)' => RunOK(r)'
    PROVE  EpisodeInv'
  <1>1. TypeOK'
    BY DEF TypeOK
  <1>2. ASSUME NEW q \in RunIds \ {r}, Alive(q)'
        PROVE  RunOK(q)'
    <2>1. Alive(q) /\ runs'[q] = runs[q]
      BY <1>2 DEF Alive
    <2>2. \A f \in Entries : EntryOK(q, f) => EntryOK(q, f)'
      BY <2>1 DEF EntryOK
    <2> QED
      BY <2>1, <2>2 DEF EpisodeInv, RunOK
  <1> QED
    BY <1>1, <1>2 DEF EpisodeInv

\* What a step of one episode does to the fields of its run.
Edits(run, r, e, episode, outcome, error) ==
    /\ run.phase = runs[r].phase
    /\ run.stop = runs[r].stop
    /\ run.list = runs[r].list
    /\ run.concurrency = runs[r].concurrency
    /\ run.completed = runs[r].completed
    /\ run.left \subseteq runs[r].left
    /\ run.error = error
    /\ error = "none" => runs[r].error = "none"
    /\ run.episodes = [runs[r].episodes EXCEPT ![e] = episode]
    /\ run.outcome = [runs[r].outcome EXCEPT ![e] = outcome]
    /\ \A f \in Entries \ {e} : run.seq[f] = runs[r].seq[f]

EpisodeBecomes(r, e, episode, outcome, error) ==
    /\ runs' \in [RunIds -> Run]
    /\ \A q \in RunIds \ {r} : runs'[q] = runs[q]
    /\ Edits(runs'[r], r, e, episode, outcome, error)

LEMMA EpisodeStepKeeps ==
    ASSUME EpisodeInv, NEW r \in RunIds, NEW e \in Entries, Alive(r),
           NEW episode, NEW outcome, NEW error, EpisodeBecomes(r, e, episode, outcome, error),
           UNCHANGED experiment,
           rows' \in [Attempts -> Row \cup {NoRow}],
           results' \subseteq Attempts, processes' \subseteq Attempts,
           \A a \in Attempts \ {<<r, e>>} :
              /\ rows'[a] = rows[a]
              /\ a \in processes' <=> a \in processes,
           HasOne(episode) => \/ HasOne(runs[r].episodes[e])
                              \/ Cardinality(Holding(r)) < runs[r].concurrency,
           EntryOK(r, e)'
    PROVE  EpisodeInv'
  <1>0. runs[r] \in Run /\ RunOK(r)
    BY DEF EpisodeInv, TypeOK
  <1>1. runs[r].episodes \in [Entries -> EpisodeState] /\ runs[r].outcome \in [Entries -> EpisodeStatus \cup {"none"}]
    BY <1>0 DEF Run
  <1>2. ASSUME NEW f \in Entries \ {e}
        PROVE  EntryOK(r, f)'
    <2>1. /\ runs'[r].episodes[f] = runs[r].episodes[f]
          /\ runs'[r].outcome[f] = runs[r].outcome[f]
          /\ runs'[r].seq[f] = runs[r].seq[f]
      BY <1>1 DEF EpisodeBecomes, Edits
    <2>2. /\ <<r, f>> \in Attempts \ {<<r, e>>}
          /\ EntryOK(r, f)
      BY <1>0 DEF Attempts, RunOK
    <2>3. /\ rows'[<<r, f>>] = rows[<<r, f>>]
          /\ <<r, f>> \in processes' <=> <<r, f>> \in processes
      BY <2>2
    <2> QED
      BY <2>1, <2>2, <2>3 DEF EpisodeBecomes, Edits, EntryOK
  <1>3. ASSUME runs'[r].concurrency = 1, NEW f \in Entries, NEW g \in Entries,
               HasOne(runs'[r].episodes[f]), HasOne(runs'[r].episodes[g])
        PROVE  f = g
    <2>1. \A h \in Entries : runs'[r].episodes[h] = IF h = e THEN episode ELSE runs[r].episodes[h]
      BY <1>1 DEF EpisodeBecomes, Edits
    <2>2. CASE Cardinality(Holding(r)) < runs[r].concurrency
      <3>1. \A h \in Entries : ~HasOne(runs[r].episodes[h])
        <4>1. IsFiniteSet(Entries) /\ Holding(r) \subseteq Entries
          BY FS_Interval, BoundsAssumption DEF Entries, Holding
        <4>2. IsFiniteSet(Holding(r))
          BY <4>1, FS_Subset
        <4>3. Cardinality(Holding(r)) = 0
          BY <1>3, <2>2, <4>2, FS_CardinalityType DEF EpisodeBecomes, Edits
        <4>4. Holding(r) = {}
          BY <4>2, <4>3, FS_EmptySet
        <4> QED
          BY <4>4 DEF Holding, HasOne
      <3> QED
        BY <1>3, <2>1, <3>1
    <2>3. CASE HasOne(episode) => HasOne(runs[r].episodes[e])
      <3>1. HasOne(runs[r].episodes[f]) /\ HasOne(runs[r].episodes[g]) /\ runs[r].concurrency = 1
        BY <1>3, <2>1, <2>3 DEF EpisodeBecomes, Edits
      <3> QED
        BY <1>0, <3>1 DEF RunOK
    <2> QED
      BY <2>2, <2>3
  <1>4. RunOK(r)'
    <2>1. \E c \in Configs : /\ IsSameTaskSerial(c)
                             /\ runs'[r].list = c.list /\ runs'[r].concurrency = c.concurrency
      BY <1>0 DEF RunOK, EpisodeBecomes, Edits
    <2>2. runs'[r].phase \in {"grace", "abandoning"} => runs'[r].stop
      BY <1>0 DEF RunOK, EpisodeBecomes, Edits
    <2>3. \A f \in Entries : EntryOK(r, f)'
      BY <1>2
    <2> QED
      BY <1>3, <2>1, <2>2, <2>3 DEF RunOK
  <1>5. \A q \in RunIds \ {r}, f \in Entries : <<q, f>> \in Attempts \ {<<r, e>>}
    BY DEF Attempts
  <1>6. experiment' \in Hashes \cup {NoHash}
    BY DEF EpisodeInv, TypeOK
  <1> QED
    BY <1>4, <1>5, <1>6, StepKeepsOthers DEF EpisodeBecomes, Edits

\* The same for the entry of that episode.
LEMMA EntryFields ==
    ASSUME EpisodeInv, NEW r \in RunIds, NEW e \in Entries,
           NEW episode, NEW outcome, NEW error, EpisodeBecomes(r, e, episode, outcome, error)
    PROVE  /\ runs'[r].phase = runs[r].phase /\ runs'[r].stop = runs[r].stop
           /\ runs'[r].list = runs[r].list /\ runs'[r].completed = runs[r].completed
           /\ e \in runs'[r].left => e \in runs[r].left
           /\ runs'[r].error = error /\ (error = "none" => runs[r].error = "none")
           /\ runs'[r].episodes[e] = episode /\ runs'[r].outcome[e] = outcome
  <1>1. runs[r] \in Run
    BY DEF EpisodeInv, TypeOK
  <1>2. e \in DOMAIN runs[r].episodes /\ e \in DOMAIN runs[r].outcome
    BY <1>1 DEF Run
  <1> QED
    BY <1>2 DEF EpisodeBecomes, Edits

LEMMA EditedRun ==
    ASSUME EpisodeInv, NEW r \in RunIds, NEW e \in Entries, NEW run \in Run,
           runs' = [runs EXCEPT ![r] = run],
           NEW episode, NEW outcome, NEW error, Edits(run, r, e, episode, outcome, error)
    PROVE  EpisodeBecomes(r, e, episode, outcome, error)
  <1>1. runs \in [RunIds -> Run]
    BY DEF EpisodeInv, TypeOK
  <1>2. /\ runs' \in [RunIds -> Run] /\ runs'[r] = run
        /\ \A q \in RunIds \ {r} : runs'[q] = runs[q]
    BY <1>1
  <1> QED
    BY <1>2 DEF EpisodeBecomes, Edits

LEMMA StatusesOfEpisodes ==
    /\ EpisodeStatus \subseteq AttemptStatus
    /\ \A status \in EpisodeStatus : status \notin {"pending", "running", "none"}
    /\ NoRow.status = "absent" /\ NoRow.key = <<>>
    /\ \A row \in Row : row # NoRow /\ row.key \in Keys /\ row.seq \in Nat \ {0}
  <1>1. NoRow.status = "absent" /\ NoRow.key = <<>>
    BY DEF NoRow
  <1>2. "absent" \notin AttemptStatus
    BY DEF AttemptStatus, EpisodeStatus
  <1>3. \A row \in Row : row # NoRow /\ row.key \in Keys /\ row.seq \in Nat \ {0}
    BY <1>1, <1>2 DEF Row
  <1> QED
    BY <1>1, <1>3 DEF EpisodeStatus, AttemptStatus

\* finish_attempt makes an attempt terminal that was running.
LEMMA FinishedRow ==
    ASSUME EpisodeInv, NEW a \in Attempts, NEW status \in EpisodeStatus, FinishRow(a, status)
    PROVE  /\ rows' \in [Attempts -> Row \cup {NoRow}]
           /\ \A b \in Attempts \ {a} : rows'[b] = rows[b]
           /\ rows'[a] \in Row /\ rows[a] \in Row
           /\ rows'[a].key = rows[a].key /\ rows'[a].seq = rows[a].seq
           /\ rows'[a].status = status
           /\ results' \subseteq Attempts
  <1>1. rows \in [Attempts -> Row \cup {NoRow}] /\ results \subseteq Attempts
    BY DEF EpisodeInv, TypeOK
  <1>2. rows[a] \in Row
    BY <1>1, StatusesOfEpisodes DEF FinishRow
  <1>3. PICK row : row = [rows[a] EXCEPT !.status = status]
    OBVIOUS
  <1>4. /\ row \in Row /\ row.status = status
        /\ row.key = rows[a].key /\ row.seq = rows[a].seq
    BY <1>2, <1>3, StatusesOfEpisodes DEF Row
  <1>5. rows' = [rows EXCEPT ![a] = row]
    BY <1>3 DEF FinishRow
  <1>6. results' \subseteq Attempts
    BY <1>1 DEF FinishRow
  <1> QED
    BY <1>1, <1>2, <1>4, <1>5, <1>6

LEMMA EpisodeStepsKeep ==
    ASSUME EpisodeInv, NEW r \in RunIds, NEW e \in Entries,
           EpisodeStep(r, e) \/ StoreFails(r, e)
    PROVE  EpisodeInv'
  <1>0. /\ runs \in [RunIds -> Run] /\ rows \in [Attempts -> Row \cup {NoRow}]
        /\ results \subseteq Attempts /\ processes \subseteq Attempts
        /\ <<r, e>> \in Attempts
    BY DEF EpisodeInv, TypeOK, Attempts
  <1>a. Alive(r)
    BY DEF EpisodeStep, StayUnattempted, RegisterAttempt, MarkRunning, EpisodeReturns,
           FinishAttempt, Abandon, KillCancelled, CancellationLost, StoreFails, HasPermit,
           LoopIdle, Alive, Over
  <1>b. RunOK(r) /\ EntryOK(r, e)
    BY <1>a DEF EpisodeInv, RunOK
  <1>c. /\ runs[r].episodes \in [Entries -> EpisodeState]
        /\ runs[r].outcome \in [Entries -> EpisodeStatus \cup {"none"}]
        /\ runs[r].seq \in [Entries -> Nat]
        /\ DOMAIN runs[r].list \subseteq Entries
        /\ \A f \in DOMAIN runs[r].list : runs[r].list[f] \in Keys
        /\ runs[r].error \in Errors /\ runs[r].left \subseteq Entries
    <2>1. runs[r] \in Run
      BY <1>0
    <2>2. PICK n \in 0 .. MaxTasks : runs[r].list \in [1 .. n -> Keys]
      BY <2>1 DEF Run
    <2>3. 1 .. n \subseteq 1 .. MaxTasks
      BY BoundsAssumption
    <2> QED
      BY <2>1, <2>2, <2>3 DEF Run, Entries
  <1>d. runs[r] \in Run
    BY <1>0
  <1>1. CASE StayUnattempted(r, e)
    <2>1. EpisodeBecomes(r, e, "done", runs[r].outcome[e], runs[r].error)
      <3>1. PICK run : run = [runs[r] EXCEPT !.episodes[e] = "done"]
        OBVIOUS
      <3>2. runs' = [runs EXCEPT ![r] = run]
        BY <1>0, <1>1, <3>1 DEF StayUnattempted
      <3>3. run \in Run
        BY <1>c, <1>d, <3>1 DEF Run, EpisodeState
      <3>4. Edits(run, r, e, "done", runs[r].outcome[e], runs[r].error)
        BY <1>c, <1>d, <3>1 DEF Edits, Run
      <3> QED
        BY <3>2, <3>3, <3>4, EditedRun
    <2>2. EntryOK(r, e)'
      BY <1>b, <1>c, <1>1, <2>1, EntryFields DEF StayUnattempted, HasPermit, LoopIdle, EntryOK
    <2> QED
      BY <1>0, <1>a, <1>1, <2>1, <2>2, EpisodeStepKeeps DEF StayUnattempted, HasOne
  <1>2. CASE RegisterAttempt(r, e)
    <2>0. /\ runs[r].episodes[e] = "waiting" /\ ~runs[r].stop
          /\ runs[r].phase \in {"running", "grace", "closing"}
          /\ Cardinality(Holding(r)) < runs[r].concurrency
          /\ UNCHANGED <<experiment, results, processes>>
      BY <1>2 DEF RegisterAttempt, HasPermit, LoopIdle
    <2>1. EpisodeBecomes(r, e, "registered", runs[r].outcome[e], runs[r].error)
      <3>1. PICK run : run = [runs[r] EXCEPT !.episodes[e] = "registered", !.seq[e] = 0]
        OBVIOUS
      <3>2. runs' = [runs EXCEPT ![r] = run]
        BY <1>0, <1>2, <3>1 DEF RegisterAttempt
      <3>3. run \in Run
        BY <1>d, <3>1 DEF Run, EpisodeState
      <3>4. Edits(run, r, e, "registered", runs[r].outcome[e], runs[r].error)
        BY <1>c, <1>d, <3>1 DEF Edits, Run
      <3> QED
        BY <3>2, <3>3, <3>4, EditedRun
    <2>2. PICK row : row = [key |-> runs[r].list[e], seq |-> runs[r].seq[e], status |-> "pending"]
      OBVIOUS
    <2>3. e \in DOMAIN runs[r].list /\ runs[r].list[e] \in Keys /\ runs[r].seq[e] \in Nat \ {0}
      BY <1>b, <1>c, <2>0 DEF EntryOK
    <2>4. row \in Row /\ row.key = runs[r].list[e] /\ row.status = "pending"
      BY <2>2, <2>3 DEF Row, AttemptStatus
    <2>5. rows' = [rows EXCEPT ![<<r, e>>] = row]
      BY <1>2, <2>2 DEF RegisterAttempt
    <2>6. /\ rows' \in [Attempts -> Row \cup {NoRow}] /\ rows'[<<r, e>>] = row
          /\ \A a \in Attempts \ {<<r, e>>} : rows'[a] = rows[a]
      BY <1>0, <2>4, <2>5
    <2>7. EntryOK(r, e)'
      BY <1>b, <1>c, <2>0, <2>1, <2>3, <2>4, <2>6, EntryFields, StatusesOfEpisodes DEF EntryOK
    <2> QED
      BY <1>0, <1>a, <2>0, <2>1, <2>6, <2>7, EpisodeStepKeeps
  <1>3. CASE MarkRunning(r, e)
    <2>0. /\ runs[r].episodes[e] = "registered" /\ rows[<<r, e>>].status = "pending"
          /\ processes' = processes \cup {<<r, e>>}
          /\ UNCHANGED <<experiment, results>>
      BY <1>3 DEF MarkRunning
    <2>1. EpisodeBecomes(r, e, "executing", runs[r].outcome[e], runs[r].error)
      <3>1. PICK run : run = [runs[r] EXCEPT !.episodes[e] = "executing"]
        OBVIOUS
      <3>2. runs' = [runs EXCEPT ![r] = run]
        BY <1>0, <1>3, <3>1 DEF MarkRunning
      <3>3. run \in Run
        BY <1>c, <1>d, <3>1 DEF Run, EpisodeState
      <3>4. Edits(run, r, e, "executing", runs[r].outcome[e], runs[r].error)
        BY <1>c, <1>d, <3>1 DEF Edits, Run
      <3> QED
        BY <3>2, <3>3, <3>4, EditedRun
    <2>2. PICK row : row = [rows[<<r, e>>] EXCEPT !.status = "running"]
      OBVIOUS
    <2>3. rows[<<r, e>>] \in Row
      BY <1>0, <2>0, StatusesOfEpisodes
    <2>4. row \in Row /\ row.key = rows[<<r, e>>].key /\ row.status = "running"
      BY <2>2, <2>3 DEF Row, AttemptStatus
    <2>5. rows' = [rows EXCEPT ![<<r, e>>] = row]
      BY <1>3, <2>2 DEF MarkRunning
    <2>6. /\ rows' \in [Attempts -> Row \cup {NoRow}] /\ rows'[<<r, e>>] = row
          /\ \A a \in Attempts \ {<<r, e>>} : rows'[a] = rows[a]
      BY <1>0, <2>4, <2>5
    <2>7. row # NoRow /\ rows[<<r, e>>] # NoRow
      BY <2>3, <2>4, StatusesOfEpisodes
    <2>8. EntryOK(r, e)'
      BY <1>b, <1>c, <2>0, <2>1, <2>4, <2>6, <2>7, EntryFields DEF EntryOK
    <2>9. HasOne(runs[r].episodes[e])
      BY <2>0 DEF HasOne
    <2> QED
      BY <1>0, <1>a, <2>0, <2>1, <2>6, <2>8, <2>9, EpisodeStepKeeps
  <1>4. ASSUME NEW status \in EpisodeStatus, EpisodeReturns(r, e, status)
        PROVE  EpisodeInv'
    <2>0. /\ <<r, e>> \in processes /\ processes' = processes \ {<<r, e>>}
          /\ runs[r].episodes[e] \in {"executing", "cancelled"}
          /\ UNCHANGED <<experiment, rows, results>>
      BY <1>4 DEF EpisodeReturns
    <2>1. PICK episode : episode = IF runs[r].episodes[e] = "executing" THEN "returned"
                                   ELSE runs[r].episodes[e]
      OBVIOUS
    <2>2. EpisodeBecomes(r, e, episode, status, runs[r].error)
      <3>1. PICK run : run = [runs[r] EXCEPT !.outcome[e] = status, !.episodes[e] = episode]
        OBVIOUS
      <3>2. runs' = [runs EXCEPT ![r] = run]
        BY <1>0, <1>4, <3>1, <2>0, <2>1 DEF EpisodeReturns
      <3>3. run \in Run
        BY <1>c, <1>d, <3>1, <2>0, <2>1 DEF Run, EpisodeState
      <3>4. Edits(run, r, e, episode, status, runs[r].error)
        BY <1>c, <1>d, <3>1 DEF Edits, Run
      <3> QED
        BY <3>2, <3>3, <3>4, EditedRun
    <2>4. EntryOK(r, e)'
      BY <1>b, <1>c, <1>4, <2>0, <2>1, <2>2, EntryFields DEF EntryOK
    <2>5. HasOne(runs[r].episodes[e])
      BY <2>0 DEF HasOne
    <2> QED
      BY <1>0, <1>a, <2>0, <2>2, <2>4, <2>5, EpisodeStepKeeps
  <1>5. CASE FinishAttempt(r, e)
    <2>0. /\ runs[r].episodes[e] = "returned" /\ UNCHANGED <<experiment, processes>>
          /\ FinishRow(<<r, e>>, runs[r].outcome[e]) /\ runs[r].phase # "abandoning"
      BY <1>5 DEF FinishAttempt, LoopIdle
    <2>1. PICK error \in {runs[r].error, "store"} : EpisodeBecomes(r, e, "done", "none", error)
      <3>0. PICK error \in {runs[r].error, "store"} :
               runs' = [runs EXCEPT ![r].episodes[e] = "done", ![r].outcome[e] = "none",
                                    ![r].error = error]
        BY <1>5 DEF FinishAttempt
      <3>1. PICK run : run = [runs[r] EXCEPT !.episodes[e] = "done", !.outcome[e] = "none", !.error = error]
        OBVIOUS
      <3>2. runs' = [runs EXCEPT ![r] = run]
        BY <1>0, <3>0, <3>1
      <3>3. run \in Run
        BY <1>c, <1>d, <3>1 DEF Run, EpisodeState, Errors
      <3>4. Edits(run, r, e, "done", "none", error)
        BY <1>c, <1>d, <3>0, <3>1 DEF Edits, Run
      <3> QED
        BY <3>2, <3>3, <3>4, EditedRun
    <2>2. runs[r].outcome[e] \in EpisodeStatus
      BY <1>b, <2>0 DEF EntryOK
    <2>3. /\ rows' \in [Attempts -> Row \cup {NoRow}] /\ results' \subseteq Attempts
          /\ \A a \in Attempts \ {<<r, e>>} : rows'[a] = rows[a]
          /\ rows'[<<r, e>>] \in Row /\ rows[<<r, e>>] \in Row
          /\ rows'[<<r, e>>].key = rows[<<r, e>>].key
          /\ rows'[<<r, e>>].status \in EpisodeStatus
      BY <1>0, <2>0, <2>2, FinishedRow
    <2>4. /\ rows'[<<r, e>>] # NoRow /\ rows[<<r, e>>] # NoRow
          /\ rows'[<<r, e>>].status \notin {"pending", "running"}
      BY <2>3, StatusesOfEpisodes
    <2>5. EntryOK(r, e)'
      BY <1>b, <1>c, <2>0, <2>1, <2>3, <2>4, EntryFields DEF EntryOK
    <2> QED
      BY <1>0, <1>a, <2>0, <2>1, <2>3, <2>5, EpisodeStepKeeps DEF HasOne
  <1>6. CASE Abandon(r, e)
    <2>0. /\ runs[r].phase = "abandoning" /\ e \in runs[r].left
          /\ UNCHANGED <<experiment, results, processes>>
      BY <1>6 DEF Abandon
    <2>1. PICK episode : episode = IF runs[r].episodes[e] = "waiting" THEN "done" ELSE "cancelled"
      OBVIOUS
    <2>2. /\ EpisodeBecomes(r, e, episode, runs[r].outcome[e], runs[r].error)
          /\ runs'[r].left = runs[r].left \ {e}
      <3>1. PICK run : run = [runs[r] EXCEPT !.left = @ \ {e}, !.episodes[e] = episode]
        OBVIOUS
      <3>2. runs' = [runs EXCEPT ![r] = run]
        BY <1>0, <1>6, <3>1, <2>1 DEF Abandon
      <3>3. run \in Run
        BY <1>c, <1>d, <3>1, <2>1 DEF Run, EpisodeState
      <3>4. Edits(run, r, e, episode, runs[r].outcome[e], runs[r].error)
        BY <1>c, <1>d, <3>1 DEF Edits, Run
      <3>5. runs'[r].left = runs[r].left \ {e}
        BY <1>0, <1>d, <3>1, <3>2 DEF Run
      <3> QED
        BY <3>2, <3>3, <3>4, <3>5, EditedRun
    <2>3. /\ rows' \in [Attempts -> Row \cup {NoRow}]
          /\ \A a \in Attempts \ {<<r, e>>} : rows'[a] = rows[a]
          /\ rows'[<<r, e>>] = NoRow <=> rows[<<r, e>>] = NoRow
          /\ rows'[<<r, e>>].key = rows[<<r, e>>].key
          /\ rows'[<<r, e>>].status # "running"
          /\ rows'[<<r, e>>].status = "pending" => rows[<<r, e>>].status = "pending"
      <3>1. CASE rows[<<r, e>>].status = "running"
        <4>1. PICK row : row = [rows[<<r, e>>] EXCEPT !.status = "interrupted"]
          OBVIOUS
        <4>2. rows[<<r, e>>] \in Row
          BY <1>0, <3>1, StatusesOfEpisodes
        <4>3. row \in Row /\ row.key = rows[<<r, e>>].key /\ row.status = "interrupted"
          BY <4>1, <4>2 DEF Row, AttemptStatus
        <4>4. rows' = [rows EXCEPT ![<<r, e>>] = row]
          BY <1>6, <3>1, <4>1 DEF Abandon
        <4> QED
          BY <1>0, <4>2, <4>3, <4>4, StatusesOfEpisodes
      <3>2. CASE rows[<<r, e>>].status # "running"
        <4>1. rows' = rows
          BY <1>6, <3>2 DEF Abandon
        <4> QED
          BY <1>0, <3>2, <4>1
      <3> QED
        BY <3>1, <3>2
    <2>4. runs[r].episodes[e] \in {"waiting", "executing", "returned", "cancelled"}
      BY <1>b, <1>c, <2>0 DEF EntryOK, EpisodeState
    <2>5. runs[r].stop
      BY <1>b, <2>0 DEF RunOK
    <2>6. HasOne(episode) => HasOne(runs[r].episodes[e])
      BY <2>1, <2>4 DEF HasOne
    <2>8. EntryOK(r, e)'
      BY <1>b, <2>0, <2>1, <2>2, <2>3, <2>4, <2>5, EntryFields DEF EntryOK
    <2> QED
      BY <1>0, <1>a, <2>0, <2>2, <2>3, <2>6, <2>8, EpisodeStepKeeps
  <1>7. CASE KillCancelled(r, e)
    <2>0. /\ runs[r].episodes[e] = "cancelled" /\ processes' = processes \ {<<r, e>>}
          /\ UNCHANGED <<experiment, rows, results>>
      BY <1>7 DEF KillCancelled
    <2>1. EpisodeBecomes(r, e, "done", runs[r].outcome[e], runs[r].error)
      <3>1. PICK run : run = [runs[r] EXCEPT !.episodes[e] = "done"]
        OBVIOUS
      <3>2. runs' = [runs EXCEPT ![r] = run]
        BY <1>0, <1>7, <3>1 DEF KillCancelled
      <3>3. run \in Run
        BY <1>c, <1>d, <3>1 DEF Run, EpisodeState
      <3>4. Edits(run, r, e, "done", runs[r].outcome[e], runs[r].error)
        BY <1>c, <1>d, <3>1 DEF Edits, Run
      <3> QED
        BY <3>2, <3>3, <3>4, EditedRun
    <2>2. runs[r].phase # "abandoning"
      BY <1>7 DEF KillCancelled, LoopIdle
    <2>3. EntryOK(r, e)'
      BY <1>b, <1>c, <2>0, <2>1, <2>2, EntryFields DEF EntryOK
    <2> QED
      BY <1>0, <1>a, <2>0, <2>1, <2>3, EpisodeStepKeeps DEF HasOne
  <1>8. CASE CancellationLost(r, e)
    <2>0. /\ runs[r].episodes[e] = "cancelled" /\ <<r, e>> \notin processes
          /\ UNCHANGED <<experiment, processes>> /\ runs[r].phase # "abandoning"
      BY <1>8 DEF CancellationLost, LoopIdle
    <2>1. PICK error \in Errors : EpisodeBecomes(r, e, "done", runs[r].outcome[e], error)
      <3>0. PICK error \in Errors :
               /\ runs' = [runs EXCEPT ![r].episodes[e] = "done", ![r].error = error]
               /\ error = "none" => runs[r].error = "none"
        <4>1. CASE runs' = [runs EXCEPT ![r].episodes[e] = "done"]
          <5>1. runs' = [runs EXCEPT ![r].episodes[e] = "done", ![r].error = runs[r].error]
            BY <1>0, <1>d, <4>1 DEF Run
          <5> QED
            BY <1>c, <5>1
        <4>2. CASE runs' = [runs EXCEPT ![r].episodes[e] = "done",
                                        ![r].error = IF @ = "none" THEN "conflict" ELSE @]
          BY <1>0, <1>c, <1>d, <4>2 DEF Errors
        <4> QED
          BY <1>8, <4>1, <4>2 DEF CancellationLost
      <3>1. PICK run : run = [runs[r] EXCEPT !.episodes[e] = "done", !.error = error]
        OBVIOUS
      <3>2. runs' = [runs EXCEPT ![r] = run]
        BY <1>0, <3>0, <3>1
      <3>3. run \in Run
        BY <1>c, <1>d, <3>1 DEF Run, EpisodeState, Errors
      <3>4. Edits(run, r, e, "done", runs[r].outcome[e], error)
        BY <1>c, <1>d, <3>0, <3>1 DEF Edits, Run
      <3> QED
        BY <3>2, <3>3, <3>4, EditedRun
    <2>2. \/ \E status \in EpisodeStatus : FinishRow(<<r, e>>, status)
          \/ rows[<<r, e>>].status # "running" /\ UNCHANGED <<rows, results>>
      <3>1. runs[r].outcome[e] \in EpisodeStatus /\ "infrastructure_error" \in EpisodeStatus
        BY <1>b, <2>0 DEF EntryOK, EpisodeStatus
      <3> QED
        BY <1>8, <3>1 DEF CancellationLost
    <2>3. /\ rows' \in [Attempts -> Row \cup {NoRow}] /\ results' \subseteq Attempts
          /\ \A a \in Attempts \ {<<r, e>>} : rows'[a] = rows[a]
          /\ rows'[<<r, e>>] = NoRow <=> rows[<<r, e>>] = NoRow
          /\ rows'[<<r, e>>].key = rows[<<r, e>>].key
          /\ rows'[<<r, e>>].status # "running"
          /\ rows'[<<r, e>>].status = "pending" => rows[<<r, e>>].status = "pending"
      BY <1>0, <2>2, FinishedRow, StatusesOfEpisodes
    <2>4. EntryOK(r, e)'
      BY <1>b, <1>c, <2>0, <2>1, <2>3, EntryFields DEF EntryOK
    <2> QED
      BY <1>0, <1>a, <2>0, <2>1, <2>3, <2>4, EpisodeStepKeeps DEF HasOne
  <1>9. CASE StoreFails(r, e)
    <2>0. /\ UNCHANGED <<experiment, rows, results, processes>>
          /\ runs[r].episodes[e] \in {"waiting", "registered", "returned"}
          /\ runs[r].phase = "abandoning" => runs[r].episodes[e] = "registered"
      BY <1>9 DEF StoreFails, HasPermit, LoopIdle
    <2>1. EpisodeBecomes(r, e, "done", runs[r].outcome[e], "store")
      <3>1. PICK run : run = [runs[r] EXCEPT !.episodes[e] = "done", !.error = "store"]
        OBVIOUS
      <3>2. runs' = [runs EXCEPT ![r] = run]
        BY <1>0, <1>9, <3>1 DEF StoreFails
      <3>3. run \in Run
        BY <1>c, <1>d, <3>1 DEF Run, EpisodeState, Errors
      <3>4. Edits(run, r, e, "done", runs[r].outcome[e], "store")
        BY <1>c, <1>d, <3>1 DEF Edits, Run
      <3> QED
        BY <3>2, <3>3, <3>4, EditedRun
    <2>2. EntryOK(r, e)'
      BY <1>b, <1>c, <2>0, <2>1, EntryFields DEF EntryOK
    <2> QED
      BY <1>0, <1>a, <2>0, <2>1, <2>2, EpisodeStepKeeps DEF HasOne
  <1> QED
    BY <1>1, <1>2, <1>3, <1>4, <1>5, <1>6, <1>7, <1>8, <1>9 DEF EpisodeStep

-----------------------------------------------------------------------------
(* The numbers of attempts *)

LEMMA LeastNumber ==
    ASSUME NEW T, T \subseteq Nat, T # {}
    PROVE  \E x \in T : \A y \in T : x <= y
  <1>. DEFINE Less == OpToRel(<, Nat)
  <1>1. IsWellFoundedOn(Less, Nat)
    BY NatLessThanWellFounded
  <1>. HIDE DEF Less
  <1>2. PICK x \in T : \A y \in T : ~(<<y, x>> \in Less)
    BY <1>1, WFMin
  <1>3. \A y \in T : ~(y < x)
    BY <1>2 DEF Less, OpToRel
  <1> QED
    BY <1>3

\* Finitely many numbers have a bound.
LEMMA ListsAreBounded ==
    ASSUME NEW n \in Nat, NEW f \in [1 .. n -> Nat]
    PROVE  \E m \in Nat : \A i \in 1 .. n : f[i] <= m
  <1>. DEFINE Bounded(k) == \E m \in Nat : \A i \in 1 .. k : f[i] <= m
              Unbounded == { k \in 0 .. n : ~Bounded(k) }
  <1>0. \A k : k \in Unbounded <=> k \in 0 .. n /\ ~Bounded(k)
    OBVIOUS
  <1>. HIDE DEF Unbounded
  <1>1. ASSUME Unbounded # {}
        PROVE  FALSE
    <2>1. Unbounded \subseteq Nat
      <3>. HIDE DEF Bounded
      <3> QED
        BY <1>0
    <2>2. PICK k \in Unbounded : \A j \in Unbounded : k <= j
      BY <1>1, <2>1, LeastNumber
    <2>3. Bounded(0)
      <3>1. \A i \in 1 .. 0 : f[i] <= 0
        OBVIOUS
      <3> QED
        BY <3>1
    <2>4. k \in 0 .. n /\ ~Bounded(k)
      BY <1>0, <2>2
    <2>5. k \in 1 .. n
      <3>. HIDE DEF Bounded
      <3> QED
        BY <2>3, <2>4
    <2>6. Bounded(k - 1)
      <3>. HIDE DEF Bounded
      <3>1. k - 1 \in 0 .. n /\ ~(k <= k - 1)
        BY <2>5
      <3>2. k - 1 \notin Unbounded
        BY <2>2, <3>1
      <3> QED
        BY <1>0, <3>1, <3>2
    <2>7. PICK m \in Nat : \A i \in 1 .. k - 1 : f[i] <= m
      BY <2>6
    <2>8. PICK b \in Nat : m <= b /\ f[k] <= b
      <3>1. f[k] \in Nat
        BY <2>5
      <3> QED
        BY <3>1
    <2>9. \A i \in 1 .. k : i \in 1 .. k - 1 \/ i = k
      BY <2>5
    <2>10. \A i \in 1 .. k : f[i] \in Nat
      BY <2>5
    <2>11. \A i \in 1 .. k : f[i] <= b
      BY <2>7, <2>8, <2>9, <2>10
    <2> QED
      BY <2>4, <2>11
  <1>2. Bounded(n)
    <2>1. n \in 0 .. n /\ n \notin Unbounded
      BY <1>1
    <2>. HIDE DEF Bounded
    <2> QED
      BY <1>0, <2>1
  <1> QED
    BY <1>2

LEMMA NumbersAreBounded ==
    ASSUME NEW number \in [Attempts -> Nat]
    PROVE  \E m \in Nat : \A a \in Attempts : number[a] <= m
  <1>1. IsFiniteSet(Attempts)
    <2>1. IsFiniteSet(RunIds) /\ IsFiniteSet(Entries)
      BY FS_Interval, BoundsAssumption DEF RunIds, Entries
    <2> QED
      BY <2>1, FS_Product DEF Attempts
  <1>2. PICK n \in Nat : ExistsSurjection(1 .. n, Attempts)
    BY <1>1, FS_NatSurjection
  <1>3. PICK at \in [1 .. n -> Attempts] : \A a \in Attempts : \E i \in 1 .. n : at[i] = a
    BY <1>2 DEF ExistsSurjection, Surjection
  <1>4. PICK f \in [1 .. n -> Nat] : \A i \in 1 .. n : f[i] = number[at[i]]
    <2>1. [i \in 1 .. n |-> number[at[i]]] \in [1 .. n -> Nat]
      OBVIOUS
    <2> QED
      BY <2>1
  <1>5. PICK m \in Nat : \A i \in 1 .. n : f[i] <= m
    BY ListsAreBounded
  <1>6. ASSUME NEW a \in Attempts PROVE number[a] <= m
    <2>1. PICK i \in 1 .. n : at[i] = a
      BY <1>3
    <2> QED
      BY <1>4, <1>5, <2>1
  <1> QED
    BY <1>5, <1>6

\* The number a task without a terminal attempt gets next.
LEMMA NumbersFollow ==
    ASSUME rows \in [Attempts -> Row \cup {NoRow}], NEW key, key \notin CompletedTasks
    PROVE  \E n \in Nat :
             /\ NextSequence(key) = n + 1
             /\ \A a \in Attempts : rows[a].key = key => rows[a].seq <= n
             /\ n # 0 => \E a \in Attempts : rows[a].key = key /\ rows[a].seq = n
  <1>. DEFINE S == {0} \cup { rows[a].seq : a \in { b \in Attempts : rows[b].key = key } }
  <1>1. \A a \in Attempts : rows[a].seq \in Nat
    BY DEF Row, NoRow
  <1>2. PICK number \in [Attempts -> Nat] : \A a \in Attempts : number[a] = rows[a].seq
    <2>1. [a \in Attempts |-> rows[a].seq] \in [Attempts -> Nat]
      BY <1>1
    <2> QED
      BY <2>1
  <1>3. PICK m \in Nat : \A a \in Attempts : rows[a].seq <= m
    BY <1>2, NumbersAreBounded
  <1>. DEFINE Bounds == { b \in Nat : \A s \in S : s <= b }
  <1>4. PICK n \in Bounds : \A b \in Bounds : n <= b
    <2>1. m \in Bounds
      BY <1>3
    <2> QED
      BY <2>1, LeastNumber
  <1>5. n \in S
    <2>. SUFFICES ASSUME n \notin S
                  PROVE  FALSE
      OBVIOUS
    <2>1. n \in Nat /\ n # 0 /\ \A s \in S : s \in Nat /\ s <= n /\ s # n
      BY <1>1, <1>4
    <2>2. n - 1 \in Bounds
      BY <2>1
    <2> QED
      BY <1>4, <2>1, <2>2
  <1>6. Max(S) = n
    <2>1. n \in S /\ \A s \in S : n >= s
      BY <1>4, <1>5
    <2>2. \A x \in S : (\A s \in S : x >= s) => x = n
      BY <1>1, <2>1
    <2>. HIDE DEF S
    <2> QED
      BY <2>1, <2>2 DEF Max
  <1>7. NextSequence(key) = n + 1
    BY <1>6 DEF NextSequence
  <1>8. \A a \in Attempts : rows[a].key = key => rows[a].seq <= n
    BY <1>4
  <1>9. n # 0 => \E a \in Attempts : rows[a].key = key /\ rows[a].seq = n
    BY <1>5
  <1> QED
    BY <1>4, <1>7, <1>8, <1>9

-----------------------------------------------------------------------------
(* The run and its episodes *)

LEMMA RunsWithoutEpisodes ==
    /\ NoRun \in Run
    /\ \A phase \in Over, error \in Errors : Exited(phase, error) \in Run
  <1>1. <<>> \in [1 .. 0 -> Keys] /\ 0 \in 0 .. MaxTasks
    BY BoundsAssumption
  <1>2. NoRun \in Run
    BY <1>1 DEF NoRun, Run, Phases, Errors, EpisodeState
  <1>3. ASSUME NEW phase \in Over, NEW error \in Errors
        PROVE  Exited(phase, error) \in Run
    <2>1. phase \in Phases
      BY DEF Phases
    <2> QED
      BY <1>2, <2>1 DEF Exited, Run
  <1> QED
    BY <1>2, <1>3

\* A step of one run that touches no table.
LEMMA QuietRunKeeps ==
    ASSUME EpisodeInv, NEW r \in RunIds, NEW run \in Run, runs' = [runs EXCEPT ![r] = run],
           experiment' \in Hashes \cup {NoHash}, UNCHANGED <<rows, results, processes>>,
           run.phase \notin Over \cup {"new"} => RunOK(r)'
    PROVE  EpisodeInv'
  <1>1. /\ runs \in [RunIds -> Run] /\ rows \in [Attempts -> Row \cup {NoRow}]
        /\ results \subseteq Attempts /\ processes \subseteq Attempts
    BY DEF EpisodeInv, TypeOK
  <1>2. /\ runs' \in [RunIds -> Run] /\ runs'[r] = run
        /\ \A q \in RunIds \ {r} : runs'[q] = runs[q]
    BY <1>1
  <1>3. Alive(r)' => RunOK(r)'
    BY <1>2 DEF Alive
  <1> QED
    BY <1>1, <1>2, <1>3, StepKeepsOthers

LEMMA StartKeeps ==
    ASSUME RunnerInv, EpisodeInv, NEW r \in RunIds, NEW c \in Configs, Start(r, c)
    PROVE  EpisodeInv'
  <1>1. /\ experiment' \in Hashes \cup {NoHash}
        /\ c \in Config
    <2>1. c \in Config
      BY ConfigsAssumption
    <2> QED
      BY <2>1 DEF Start, Config, EpisodeInv, TypeOK
  <1>2. UNCHANGED <<rows, results, processes>> /\ runs[r].phase = "new" /\ IsSameTaskSerial(c)
    BY DEF Start
  <1>3. CASE experiment' = c.hash
    <2>1. PICK run : run = [NoRun EXCEPT !.phase = "started", !.list = c.list,
                                         !.concurrency = c.concurrency]
      OBVIOUS
    <2>2. runs' = [runs EXCEPT ![r] = run]
      BY <1>3, <2>1 DEF Start
    <2>3. /\ c.list \in UNION { [1 .. n -> Keys] : n \in 0 .. MaxTasks }
          /\ c.concurrency \in 1 .. 4
      BY <1>1, BoundsAssumption DEF Config, Entries
    <2>4. /\ run \in Run /\ run.phase = "started" /\ run.list = c.list
          /\ run.concurrency = c.concurrency /\ run.error = "none"
          /\ run.episodes = [e \in Entries |-> "none"]
      <3>1. NoRun \in Run /\ NoRun.error = "none" /\ NoRun.episodes = [e \in Entries |-> "none"]
        BY RunsWithoutEpisodes, EmptyRuns
      <3> QED
        BY <2>1, <2>3, <3>1 DEF Run, Phases
    <2>5. runs'[r] = run
      BY <2>2 DEF EpisodeInv, TypeOK
    <2>6. RunOK(r)'
      <3>1. ASSUME NEW e \in Entries
            PROVE  EntryOK(r, e)'
        <4>1. rows[<<r, e>>] = NoRow /\ <<r, e>> \notin processes
          BY <1>2 DEF RunnerInv, Local, Starting
        <4>2. runs'[r].episodes[e] = "none" /\ runs'[r].phase = "started"
          BY <2>4, <2>5
        <4> QED
          BY <1>2, <4>1, <4>2, StatusesOfEpisodes DEF EntryOK, Starting
      <3>2. \A e \in Entries : ~HasOne(runs'[r].episodes[e])
        BY <2>4, <2>5 DEF HasOne
      <3> QED
        BY <1>2, <2>4, <2>5, <3>1, <3>2 DEF RunOK
    <2> QED
      BY <1>1, <1>2, <2>2, <2>4, <2>6, QuietRunKeeps
  <1>4. CASE experiment' # c.hash
    <2>1. PICK run : run = Exited("failed", "none")
      OBVIOUS
    <2>2. runs' = [runs EXCEPT ![r] = run]
      BY <1>4, <2>1 DEF Start
    <2>3. run \in Run /\ run.phase = "failed"
      BY <2>1, RunsWithoutEpisodes, EmptyRuns DEF Exited, Over, Errors, Run
    <2> QED
      BY <1>1, <1>2, <2>2, <2>3, QuietRunKeeps DEF Over
  <1> QED
    BY <1>3, <1>4

LEMMA ReadKeeps ==
    ASSUME RunnerInv, EpisodeInv, NEW r \in RunIds, ReadCompleted(r)
    PROVE  EpisodeInv'
  <1>1. /\ runs \in [RunIds -> Run] /\ rows \in [Attempts -> Row \cup {NoRow}]
        /\ experiment' \in Hashes \cup {NoHash}
    BY DEF EpisodeInv, TypeOK, ReadCompleted
  <1>2. CompletedTasks \subseteq Keys
    <2>1. \A a \in Attempts : rows[a].status \in Terminal => rows[a] \in Row
      BY <1>1, StatusesOfEpisodes DEF Terminal
    <2> QED
      BY <2>1, StatusesOfEpisodes DEF CompletedTasks
  <1>3. PICK run : run = [runs[r] EXCEPT !.phase = "read", !.completed = CompletedTasks]
    OBVIOUS
  <1>4. runs' = [runs EXCEPT ![r] = run]
    BY <1>1, <1>3 DEF ReadCompleted
  <1>5. /\ run \in Run /\ run.phase = "read" /\ run.list = runs[r].list
        /\ run.concurrency = runs[r].concurrency /\ run.episodes = runs[r].episodes
        /\ run.seq = runs[r].seq /\ run.outcome = runs[r].outcome /\ run.error = runs[r].error
        /\ run.completed = CompletedTasks
    BY <1>1, <1>2, <1>3 DEF Run, Phases
  <1>6. UNCHANGED <<rows, results, processes>> /\ runs[r].phase = "started" /\ runs'[r] = run
    BY <1>1, <1>4 DEF ReadCompleted
  <1>7. RunOK(r)'
    <2>1. RunOK(r)
      BY <1>6 DEF EpisodeInv, Alive, Over
    <2>2. ASSUME NEW e \in Entries
          PROVE  EntryOK(r, e)'
      <3>1. EntryOK(r, e)
        BY <2>1 DEF RunOK
      <3> QED
        BY <1>5, <1>6, <3>1 DEF EntryOK, Starting
    <2> QED
      BY <1>5, <1>6, <2>1, <2>2 DEF RunOK
  <1> QED
    BY <1>1, <1>4, <1>5, <1>6, <1>7, QuietRunKeeps

\* The next number of a task is a number, whatever the task.
LEMMA NumbersArePositive ==
    ASSUME rows \in [Attempts -> Row \cup {NoRow}], NEW key
    PROVE  NextSequence(key) \in Nat \ {0}
  <1>1. CASE key \in CompletedTasks
    BY <1>1 DEF NextSequence
  <1>2. CASE key \notin CompletedTasks
    <2>1. PICK n \in Nat : NextSequence(key) = n + 1
      BY <1>2, NumbersFollow
    <2> QED
      BY <2>1
  <1> QED
    BY <1>1, <1>2

LEMMA ScheduleKeeps ==
    ASSUME RunnerInv, EpisodeInv, NEW r \in RunIds, Schedule(r)
    PROVE  EpisodeInv'
  <1>. DEFINE list == runs[r].list
              queued == { e \in DOMAIN list : list[e] \notin runs[r].completed /\ ~runs[r].stop }
              repeats(e) == Cardinality({ f \in queued : f < e /\ list[f] = list[e] })
              episodes == [e \in Entries |-> IF e \in queued THEN "waiting" ELSE "none"]
              seq == [e \in Entries |->
                        IF e \in queued THEN NextSequence(list[e]) + repeats(e) ELSE 0]
  <1>1. /\ runs \in [RunIds -> Run] /\ rows \in [Attempts -> Row \cup {NoRow}]
        /\ experiment' \in Hashes \cup {NoHash}
    BY DEF EpisodeInv, TypeOK, Schedule
  <1>2. DOMAIN list \subseteq Entries
    <2>0. runs[r] \in Run
      BY <1>1
    <2>1. PICK n \in 0 .. MaxTasks : list \in [1 .. n -> Keys]
      BY <2>0 DEF Run
    <2> QED
      BY <2>1, BoundsAssumption DEF Entries
  <1>3. ASSUME NEW e \in Entries, e \in queued
        PROVE  seq[e] \in Nat \ {0}
    <2>1. repeats(e) \in Nat
      <3>1. { f \in queued : f < e /\ list[f] = list[e] } \subseteq Entries
        BY <1>2
      <3>2. IsFiniteSet(Entries)
        BY FS_Interval, BoundsAssumption DEF Entries
      <3> QED
        BY <3>1, <3>2, FS_Subset, FS_CardinalityType
    <2>2. NextSequence(list[e]) \in Nat \ {0}
      BY <1>1, NumbersArePositive
    <2>. HIDE DEF repeats, list, queued
    <2>3. seq[e] = NextSequence(list[e]) + repeats(e)
      BY <1>3
    <2>. HIDE DEF seq
    <2> QED
      BY <2>1, <2>2, <2>3
  <1>4. PICK run : run = [runs[r] EXCEPT !.phase = "running", !.episodes = episodes, !.seq = seq]
    OBVIOUS
  <1>5. runs' = [runs EXCEPT ![r] = run]
    <2>1. runs' = [runs EXCEPT ![r].phase = "running", ![r].episodes = episodes, ![r].seq = seq]
      BY DEF Schedule
    <2>. HIDE DEF episodes, seq
    <2> QED
      BY <1>1, <1>4, <2>1
  <1>6. \A e \in Entries : /\ e \in queued => episodes[e] = "waiting"
                           /\ e \notin queued => episodes[e] = "none" /\ seq[e] = 0
    OBVIOUS
  <1>7. episodes \in [Entries -> {"none", "waiting"}] /\ seq \in [Entries -> Nat]
    BY <1>3
  <1>8. \A e \in Entries : ~runs[r].stop /\ e \in DOMAIN list /\ e \notin queued =>
                              list[e] \in runs[r].completed
    OBVIOUS
  <1>9. queued \subseteq DOMAIN list
    OBVIOUS
  <1>. HIDE DEF episodes, seq, queued, repeats
  <1>10. /\ run \in Run /\ run.phase = "running" /\ run.list = list
         /\ run.concurrency = runs[r].concurrency /\ run.completed = runs[r].completed
         /\ run.episodes = episodes /\ run.seq = seq /\ run.stop = runs[r].stop
    <2>1. runs[r] \in Run
      BY <1>1
    <2>2. episodes \in [Entries -> EpisodeState] /\ "running" \in Phases
      BY <1>7 DEF EpisodeState, Phases
    <2> QED
      BY <1>4, <1>7, <2>1, <2>2 DEF Run
  <1>11. UNCHANGED <<rows, results, processes>> /\ runs[r].phase = "read" /\ runs'[r] = run
    BY <1>1, <1>5 DEF Schedule
  <1>12. RunOK(r)'
    <2>1. RunOK(r)
      BY <1>11 DEF EpisodeInv, Alive, Over
    <2>2. ASSUME NEW e \in Entries
          PROVE  EntryOK(r, e)'
      <3>1. rows[<<r, e>>] = NoRow /\ <<r, e>> \notin processes
        BY <1>11 DEF RunnerInv, Local, Starting
      <3>2. /\ runs'[r].episodes[e] = "waiting" => e \in DOMAIN runs'[r].list /\ runs'[r].seq[e] # 0
            /\ runs'[r].episodes[e] \in {"none", "waiting"}
        BY <1>3, <1>6, <1>7, <1>9, <1>10, <1>11
      <3>3. runs'[r].episodes[e] = "none" /\ ~runs'[r].stop /\ e \in DOMAIN runs'[r].list =>
               runs'[r].list[e] \in runs'[r].completed
        BY <1>6, <1>8, <1>10, <1>11
      <3>4. runs'[r].phase = "running"
        BY <1>10, <1>11
      <3> QED
        BY <1>11, <3>1, <3>2, <3>3, <3>4, StatusesOfEpisodes DEF EntryOK
    <2>3. \A e \in Entries : ~HasOne(runs'[r].episodes[e])
      BY <1>7, <1>10, <1>11 DEF HasOne
    <2> QED
      BY <1>10, <1>11, <2>1, <2>2, <2>3 DEF RunOK
  <1> QED
    BY <1>1, <1>5, <1>10, <1>11, <1>12, QuietRunKeeps

LEMMA ExitKeeps ==
    ASSUME EpisodeInv, NEW r \in RunIds, StartFails(r) \/ End(r) \/ Crash(r)
    PROVE  EpisodeInv'
  <1>1. runs[r] \in Run /\ experiment' \in Hashes \cup {NoHash}
    BY DEF EpisodeInv, TypeOK, StartFails, End, Crash
  <1>2. PICK phase \in Over, error \in Errors : runs' = [runs EXCEPT ![r] = Exited(phase, error)]
    <2>1. CASE StartFails(r)
      BY <2>1 DEF StartFails, Over, Errors
    <2>2. CASE End(r)
      <3>1. runs' = [runs EXCEPT ![r] = Exited(IF runs[r].error = "none" THEN "over" ELSE "failed",
                                               runs[r].error)]
        BY <2>2 DEF End
      <3>2. runs[r].error \in Errors
        BY <1>1 DEF Run
      <3> QED
        BY <3>1, <3>2 DEF Over
    <2>3. CASE Crash(r)
      BY <2>3 DEF Crash, Over, Errors
    <2> QED
      BY <2>1, <2>2, <2>3
  <1>3. PICK run : run = Exited(phase, error)
    OBVIOUS
  <1>4. run \in Run /\ run.phase = phase
    <2>1. NoRun \in Run
      BY RunsWithoutEpisodes
    <2> QED
      BY <1>2, <1>3, <2>1, RunsWithoutEpisodes DEF Exited, Run
  <1>5. UNCHANGED <<rows, results, processes>>
    BY DEF StartFails, End, Crash
  <1> QED
    BY <1>1, <1>2, <1>3, <1>4, <1>5, QuietRunKeeps

\* The steps of the run that leave its episodes as they are.
LEMMA PhasesKeep ==
    ASSUME EpisodeInv, NEW r \in RunIds,
           Stop(r) \/ BeginGrace(r) \/ EndGrace(r) \/ BeginClosing(r)
    PROVE  EpisodeInv'
  <1>1. /\ runs \in [RunIds -> Run] /\ runs[r] \in Run /\ experiment' \in Hashes \cup {NoHash}
        /\ UNCHANGED <<rows, results, processes>>
    BY DEF EpisodeInv, TypeOK, Stop, BeginGrace, EndGrace, BeginClosing
  <1>. DEFINE Changes(phase, stop, left) ==
                runs' = [runs EXCEPT ![r].phase = phase, ![r].stop = stop, ![r].left = left]
  <1>2. PICK phase \in Phases, stop \in BOOLEAN, left \in SUBSET Entries :
           /\ Changes(phase, stop, left)
           /\ runs[r].stop => stop
           /\ phase \in {"grace", "abandoning"} => runs[r].phase = phase \/ runs[r].stop
           /\ phase \notin Starting \/ phase = runs[r].phase
           /\ runs[r].phase \notin Starting \/ phase = runs[r].phase
           /\ phase = "abandoning" =>
                \/ runs[r].phase = "abandoning" /\ left = runs[r].left
                \/ \A e \in Entries : /\ runs[r].episodes[e] # "registered"
                                      /\ e \in left => runs[r].episodes[e] \notin {"none", "done"}
    <2>0. runs[r].phase \in Phases /\ runs[r].stop \in BOOLEAN /\ runs[r].left \in SUBSET Entries
      BY <1>1 DEF Run
    <2>r. RunOK(r)
      BY DEF EpisodeInv, Stop, BeginGrace, EndGrace, BeginClosing, LoopIdle, Alive, Over
    <2>1. CASE Stop(r)
      <3>1. Changes(runs[r].phase, TRUE, runs[r].left)
        BY <1>1, <2>1 DEF Stop, Run
      <3>. HIDE DEF Changes
      <3> QED
        BY <2>0, <3>1
    <2>2. CASE BeginGrace(r)
      <3>1. Changes("grace", runs[r].stop, runs[r].left)
        BY <1>1, <2>2 DEF BeginGrace, Run
      <3>2. runs[r].phase = "running" /\ runs[r].stop
        BY <2>2 DEF BeginGrace
      <3>3. /\ "grace" \in Phases /\ "grace" \notin Starting /\ "running" \notin Starting
            /\ "grace" # "abandoning"
        BY DEF Phases, Starting
      <3>. HIDE DEF Changes
      <3> QED
        BY <2>0, <3>1, <3>2, <3>3
    <2>3. CASE EndGrace(r)
      <3>1. Changes("abandoning", runs[r].stop, Unfinished(r))
        BY <1>1, <2>3 DEF EndGrace, Run
      <3>2. runs[r].stop /\ Unfinished(r) \in SUBSET Entries
        BY <2>3, <2>r DEF EndGrace, RunOK, Unfinished
      <3>3. \A e \in Entries : /\ runs[r].episodes[e] # "registered"
                               /\ e \in Unfinished(r) => runs[r].episodes[e] \notin {"none", "done"}
        BY <2>3 DEF EndGrace, LoopIdle, Unfinished
      <3>4. runs[r].phase = "grace" /\ "abandoning" \in Phases
        BY <2>3 DEF EndGrace, Phases
      <3>. HIDE DEF Changes
      <3> QED
        BY <2>0, <3>1, <3>2, <3>3, <3>4 DEF Starting
    <2>4. CASE BeginClosing(r)
      <3>1. Changes("closing", runs[r].stop, runs[r].left)
        BY <1>1, <2>4 DEF BeginClosing, Run
      <3>2. runs[r].phase = "abandoning"
        BY <2>4 DEF BeginClosing
      <3>. HIDE DEF Changes
      <3> QED
        BY <2>0, <2>4, <3>1, <3>2 DEF Phases, Starting
    <2> QED
      BY <2>1, <2>2, <2>3, <2>4
  <1>3. PICK run : run = [runs[r] EXCEPT !.phase = phase, !.stop = stop, !.left = left]
    OBVIOUS
  <1>4. runs' = [runs EXCEPT ![r] = run]
    BY <1>1, <1>2, <1>3
  <1>5. /\ run \in Run /\ run.phase = phase /\ run.stop = stop /\ run.left = left
        /\ run.list = runs[r].list /\ run.concurrency = runs[r].concurrency
        /\ run.completed = runs[r].completed /\ run.episodes = runs[r].episodes
        /\ run.seq = runs[r].seq /\ run.outcome = runs[r].outcome /\ run.error = runs[r].error
    BY <1>1, <1>3 DEF Run
  <1>6. runs'[r] = run
    BY <1>1, <1>4
  <1>7. RunOK(r)'
    <2>1. RunOK(r)
      BY DEF EpisodeInv, Stop, BeginGrace, EndGrace, BeginClosing, LoopIdle, Alive, Over
    <2>2. ASSUME NEW e \in Entries
          PROVE  EntryOK(r, e)'
      <3>1. EntryOK(r, e)
        BY <2>1 DEF RunOK
      <3> QED
        BY <1>1, <1>2, <1>5, <1>6, <3>1 DEF EntryOK
    <2> QED
      BY <1>2, <1>5, <1>6, <2>1, <2>2 DEF RunOK
  <1> QED
    BY <1>1, <1>4, <1>5, <1>7, QuietRunKeeps

LEMMA AbandonFailsKeeps ==
    ASSUME EpisodeInv, NEW r \in RunIds, NEW e \in Entries, AbandonFails(r, e)
    PROVE  EpisodeInv'
  <1>. DEFINE episodes == [f \in Entries |->
                             IF runs[r].episodes[f] = "waiting" THEN "done"
                             ELSE IF f \in Unfinished(r) THEN "cancelled"
                                  ELSE runs[r].episodes[f]]
  <1>1. /\ runs \in [RunIds -> Run] /\ runs[r] \in Run /\ experiment' \in Hashes \cup {NoHash}
        /\ UNCHANGED <<rows, results, processes>> /\ runs[r].phase = "abandoning"
        /\ runs[r].episodes \in [Entries -> EpisodeState]
    BY DEF EpisodeInv, TypeOK, AbandonFails, Run
  <1>2. RunOK(r)
    BY <1>1 DEF EpisodeInv, Alive, Over
  <1>3. \A f \in Entries :
           /\ episodes[f] \in EpisodeState \ {"waiting", "registered", "executing", "returned"}
           /\ episodes[f] = "cancelled" =>
                runs[r].episodes[f] \in {"executing", "returned", "cancelled"}
    <2>. SUFFICES ASSUME NEW f \in Entries
                  PROVE  /\ episodes[f] \in EpisodeState \ {"waiting", "registered", "executing", "returned"}
                         /\ episodes[f] = "cancelled" =>
                              runs[r].episodes[f] \in {"executing", "returned", "cancelled"}
      OBVIOUS
    <2>1. runs[r].episodes[f] \in EpisodeState \ {"registered"}
      BY <1>1, <1>2 DEF RunOK, EntryOK
    <2>2. f \in Unfinished(r) <=> runs[r].episodes[f] \notin {"none", "done"}
      BY DEF Unfinished
    <2>3. episodes[f] = IF runs[r].episodes[f] = "waiting" THEN "done"
                        ELSE IF f \in Unfinished(r) THEN "cancelled" ELSE runs[r].episodes[f]
      OBVIOUS
    <2>. HIDE DEF episodes
    <2> QED
      BY <2>1, <2>2, <2>3 DEF EpisodeState
  <1>4. PICK run : run = [runs[r] EXCEPT !.phase = "closing", !.left = {}, !.error = "store",
                                         !.episodes = episodes]
    OBVIOUS
  <1>5. runs' = [runs EXCEPT ![r] = run]
    <2>1. runs' = [runs EXCEPT ![r].phase = "closing", ![r].left = {}, ![r].error = "store",
                               ![r].episodes = episodes]
      BY DEF AbandonFails
    <2>. HIDE DEF episodes
    <2> QED
      BY <1>1, <1>4, <2>1
  <1>6. episodes \in [Entries -> EpisodeState]
    BY <1>3
  <1>. HIDE DEF episodes
  <1>7. /\ run \in Run /\ run.phase = "closing" /\ run.stop = runs[r].stop
        /\ run.list = runs[r].list /\ run.concurrency = runs[r].concurrency
        /\ run.episodes = episodes /\ run.outcome = runs[r].outcome /\ run.error = "store"
    BY <1>1, <1>4, <1>6 DEF Run, Phases, Errors
  <1>8. runs'[r] = run
    BY <1>1, <1>5
  <1>9. RunOK(r)'
    <2>1. ASSUME NEW f \in Entries
          PROVE  EntryOK(r, f)'
      <3>1. EntryOK(r, f)
        BY <1>2 DEF RunOK
      <3> QED
        BY <1>1, <1>3, <1>7, <1>8, <3>1 DEF EntryOK
    <2>2. \A f \in Entries : HasOne(runs'[r].episodes[f]) => HasOne(runs[r].episodes[f])
      BY <1>3, <1>7, <1>8 DEF HasOne
    <2> QED
      BY <1>2, <1>7, <1>8, <2>1, <2>2 DEF RunOK
  <1> QED
    BY <1>1, <1>5, <1>7, <1>9, QuietRunKeeps

LEMMA OrphanKeeps ==
    ASSUME EpisodeInv, NEW a \in Attempts, OrphanEnds(a)
    PROVE  EpisodeInv'
  <1>1. /\ UNCHANGED <<experiment, rows, results, runs>> /\ processes' = processes \ {a}
        /\ runs[a[1]].phase = "crashed"
    BY DEF OrphanEnds
  <1>2. TypeOK'
    BY <1>1 DEF EpisodeInv, TypeOK
  <1>3. ASSUME NEW r \in RunIds, Alive(r)'
        PROVE  RunOK(r)'
    <2>1. Alive(r) /\ RunOK(r) /\ \A e \in Entries : <<r, e>> # a
      BY <1>1, <1>3 DEF Alive, EpisodeInv, Over
    <2>2. ASSUME NEW e \in Entries
          PROVE  EntryOK(r, e)'
      <3>1. EntryOK(r, e) /\ (<<r, e>> \in processes' <=> <<r, e>> \in processes)
        BY <1>1, <2>1 DEF RunOK
      <3> QED
        BY <1>1, <3>1 DEF EntryOK
    <2> QED
      BY <1>1, <2>1, <2>2 DEF RunOK
  <1> QED
    BY <1>2, <1>3 DEF EpisodeInv

LEMMA EpisodeInit == Init => EpisodeInv
  <1>. SUFFICES ASSUME Init
                PROVE  EpisodeInv
    OBVIOUS
  <1>1. TypeOK
    BY RunsWithoutEpisodes DEF Init, TypeOK
  <1>2. \A r \in RunIds : ~Alive(r)
    BY EmptyRuns DEF Init, Alive
  <1> QED
    BY <1>1, <1>2 DEF EpisodeInv

LEMMA EpisodeNext == RunnerInv /\ EpisodeInv /\ [Next]_vars => EpisodeInv'
  <1>. SUFFICES ASSUME RunnerInv, EpisodeInv, [Next]_vars
                PROVE  EpisodeInv'
    OBVIOUS
  <1>1. CASE UNCHANGED vars
    <2>1. \A r \in RunIds, e \in Entries : EntryOK(r, e) => EntryOK(r, e)'
      BY <1>1 DEF vars, EntryOK
    <2>2. \A r \in RunIds : RunOK(r) => RunOK(r)'
      BY <1>1, <2>1 DEF vars, RunOK
    <2> QED
      BY <1>1, <2>2 DEF vars, EpisodeInv, TypeOK, Alive
  <1>2. ASSUME NEW r \in RunIds, Advance(r)
        PROVE  EpisodeInv'
    BY <1>2, ReadKeeps, ScheduleKeeps, EpisodeStepsKeep, PhasesKeep, ExitKeeps DEF Advance
  <1>3. ASSUME NEW r \in RunIds, Disturb(r)
        PROVE  EpisodeInv'
    BY <1>3, EpisodeStepsKeep, PhasesKeep, ExitKeeps, AbandonFailsKeeps DEF Disturb
  <1> QED
    BY <1>1, <1>2, <1>3, StartKeeps, OrphanKeeps DEF Next

LEMMA EpisodeInvariance == Spec => []EpisodeInv
  BY EpisodeInit, EpisodeNext, RunnerInvariance, PTL DEF Spec

-----------------------------------------------------------------------------
(* The numbers of the attempts of a task, when runs follow each other and no *)
(* line of a task list is repeated.                                          *)

\* A task list names each task and mode once.  evaluation_repeated shows what
\* a repeated line does.
NoRepeats == \A c \in Configs : \A e, f \in DOMAIN c.list : c.list[e] = c.list[f] => e = f

\* Runs are alive one after the other.
InTurn == \A q, r \in RunIds : q < r /\ runs[q].phase \notin Over => runs[r].phase = "new"

\* An attempt of a run that is alive is the last of its task so far; an entry
\* that waits has the next number of a task that is not complete.
NumberedEntry(r, e) ==
    /\ rows[<<r, e>>] # NoRow =>
         \A a \in Attempts \ {<<r, e>>} :
            Same(a, <<r, e>>) => rows[a].seq < rows[<<r, e>>].seq
    /\ runs[r].episodes[e] = "waiting" =>
         /\ \A a \in Attempts : rows[a].key = runs[r].list[e] =>
               rows[a].seq < runs[r].seq[e] /\ rows[a].status \notin Terminal
         /\ \A n \in 1 .. runs[r].seq[e] - 1 :
               \E b \in Attempts : rows[b].key = runs[r].list[e] /\ rows[b].seq = n

NumberInv ==
    /\ InTurn
    /\ AttemptsAreNumbered
    /\ CompletedNeverReruns
    /\ \A r \in RunIds : runs[r].phase = "read" => CompletedTasks \subseteq runs[r].completed
    /\ \A r \in RunIds : Alive(r) => \A e \in Entries : NumberedEntry(r, e)

LEMMA OneIsAlive ==
    ASSUME NumberInv, NEW q \in RunIds, NEW r \in RunIds, Alive(q), Alive(r)
    PROVE  q = r
  <1>1. q \in Nat /\ r \in Nat
    BY DEF RunIds
  <1>2. ~(q < r) /\ ~(r < q)
    BY DEF NumberInv, InTurn, Alive
  <1> QED
    BY <1>1, <1>2

\* Different entries of a run are different tasks.
LEMMA EntriesDiffer ==
    ASSUME NoRepeats, EpisodeInv, NEW r \in RunIds, Alive(r),
           NEW e \in DOMAIN runs[r].list, NEW f \in DOMAIN runs[r].list,
           runs[r].list[e] = runs[r].list[f]
    PROVE  e = f
  BY DEF NoRepeats, EpisodeInv, RunOK

\* A step of a run that is alive which registers no attempt and schedules
\* nothing.
MovesOn(r) ==
    /\ Alive(r)
    /\ \A q \in RunIds \ {r} : runs'[q] = runs[q]
    /\ runs'[r].phase # "new"
    /\ runs'[r].phase = "read" => CompletedTasks' \subseteq runs'[r].completed
    /\ Alive(r)' =>
         /\ runs'[r].list = runs[r].list
         /\ \A e \in Entries : runs'[r].episodes[e] = "waiting" =>
               runs[r].episodes[e] = "waiting" /\ runs'[r].seq[e] = runs[r].seq[e]

\* It may change the status of an attempt of its own.
KeepsNumbers(r) ==
    \A a \in Attempts :
        /\ rows'[a].key = rows[a].key /\ rows'[a].seq = rows[a].seq
        /\ rows'[a] = NoRow <=> rows[a] = NoRow
        /\ a[1] # r => rows'[a] = rows[a]

LEMMA RunsStayInTurn ==
    ASSUME InTurn, NEW r \in RunIds, Alive(r),
           \A q \in RunIds \ {r} : runs'[q] = runs[q], runs'[r].phase # "new"
    PROVE  InTurn'
  <1>. SUFFICES ASSUME NEW p \in RunIds, NEW q \in RunIds, p < q, runs'[p].phase \notin Over
                PROVE  runs'[q].phase = "new"
    BY DEF InTurn
  <1>1. runs[p].phase \notin Over
    BY DEF Alive
  <1>2. runs[q].phase = "new"
    BY <1>1 DEF InTurn
  <1>3. q # r
    BY <1>2 DEF Alive
  <1> QED
    BY <1>2, <1>3

LEMMA NumbersStand ==
    ASSUME NoRepeats, RunnerInv, EpisodeInv, NumberInv, NEW r \in RunIds, MovesOn(r), KeepsNumbers(r)
    PROVE  NumberInv'
  <1>1. InTurn'
    BY RunsStayInTurn DEF NumberInv, MovesOn
  <1>2. \A a, b \in Attempts : Same(a, b)' <=> Same(a, b)
    BY DEF Same, KeepsNumbers
  <1>3. AttemptsAreNumbered'
    <2>1. ASSUME NEW a \in Attempts, NEW b \in Attempts, Same(a, b)', a[1] < b[1]
          PROVE  rows'[a].seq < rows'[b].seq
      BY <1>2, <2>1 DEF NumberInv, AttemptsAreNumbered, KeepsNumbers
    <2>2. ASSUME NEW a \in Attempts, NEW n \in 1 .. rows'[a].seq
          PROVE  \E b \in Attempts : Same(a, b)' /\ rows'[b].seq = n
      <3>1. n \in 1 .. rows[a].seq
        BY DEF KeepsNumbers
      <3>2. PICK b \in Attempts : Same(a, b) /\ rows[b].seq = n
        BY <3>1 DEF NumberInv, AttemptsAreNumbered
      <3> QED
        BY <1>2, <3>2 DEF KeepsNumbers
    <2> QED
      BY <2>1, <2>2 DEF AttemptsAreNumbered
  <1>4. CompletedNeverReruns'
    <2>. SUFFICES ASSUME NEW a \in Attempts, NEW b \in Attempts, a # b, Same(a, b)',
                         rows'[a].status \in Terminal
                  PROVE  rows'[b].seq < rows'[a].seq
      BY DEF CompletedNeverReruns
    <2>0. Same(a, b) /\ Same(b, a)
      BY <1>2 DEF Same
    <2>1. CASE a[1] = r
      <3>1. PICK e \in Entries : a = <<r, e>>
        BY <2>1 DEF Attempts
      <3>2. NumberedEntry(r, e) /\ rows[a] # NoRow
        BY <2>0, <3>1 DEF NumberInv, MovesOn, Same
      <3>3. rows[b].seq < rows[a].seq
        BY <2>0, <3>1, <3>2 DEF NumberedEntry
      <3> QED
        BY <3>3 DEF KeepsNumbers
    <2>2. CASE a[1] # r
      <3>1. rows[a].status \in Terminal
        BY <2>2 DEF KeepsNumbers
      <3>2. rows[b].seq < rows[a].seq
        BY <2>0, <3>1 DEF NumberInv, CompletedNeverReruns
      <3> QED
        BY <3>2 DEF KeepsNumbers
    <2> QED
      BY <2>1, <2>2
  <1>5. ASSUME NEW q \in RunIds, runs'[q].phase = "read"
        PROVE  CompletedTasks' \subseteq runs'[q].completed
    <2>1. q = r
      BY <1>5, OneIsAlive DEF MovesOn, Alive, Over
    <2> QED
      BY <1>5, <2>1 DEF MovesOn
  <1>6. ASSUME NEW q \in RunIds, Alive(q)', NEW e \in Entries
        PROVE  NumberedEntry(q, e)'
    <2>1. q = r
      BY <1>6, OneIsAlive DEF MovesOn, Alive
    <2>2. NumberedEntry(r, e) /\ EntryOK(r, e) /\ Local(r, e) /\ <<r, e>> \in Attempts
      BY DEF NumberInv, MovesOn, EpisodeInv, RunOK, RunnerInv, Attempts
    <2>3. rows'[<<r, e>>] # NoRow =>
            \A a \in Attempts \ {<<r, e>>} :
               Same(a, <<r, e>>)' => rows'[a].seq < rows'[<<r, e>>].seq
      BY <1>2, <2>2 DEF NumberedEntry, KeepsNumbers
    <2>4. ASSUME runs'[r].episodes[e] = "waiting"
          PROVE  /\ \A a \in Attempts : rows'[a].key = runs'[r].list[e] =>
                       rows'[a].seq < runs'[r].seq[e] /\ rows'[a].status \notin Terminal
                 /\ \A n \in 1 .. runs'[r].seq[e] - 1 :
                       \E b \in Attempts : rows'[b].key = runs'[r].list[e] /\ rows'[b].seq = n
      <3>1. /\ runs[r].episodes[e] = "waiting" /\ runs'[r].seq[e] = runs[r].seq[e]
            /\ runs'[r].list = runs[r].list
        BY <1>6, <2>1, <2>4 DEF MovesOn
      <3>2. rows[<<r, e>>] = NoRow /\ e \in DOMAIN runs[r].list
        BY <2>2, <3>1 DEF Local, EntryOK
      <3>3. ASSUME NEW a \in Attempts, rows'[a].key = runs'[r].list[e]
            PROVE  rows'[a].seq < runs'[r].seq[e] /\ rows'[a].status \notin Terminal
        <4>1. rows[a].key = runs[r].list[e]
          BY <3>1, <3>3 DEF KeepsNumbers
        <4>2. rows[a].seq < runs[r].seq[e] /\ rows[a].status \notin Terminal
          BY <2>2, <3>1, <4>1 DEF NumberedEntry
        <4>3. a[1] # r
          <5>1. ASSUME NEW f \in Entries, a = <<r, f>>
                PROVE  FALSE
            <6>1. rows[a] # NoRow
              <7>1. runs[r].list[e] \in Keys
                <8>1. runs[r] \in Run
                  BY DEF EpisodeInv, TypeOK
                <8>2. PICK m \in 0 .. MaxTasks : runs[r].list \in [1 .. m -> Keys]
                  BY <8>1 DEF Run
                <8> QED
                  BY <3>2, <8>2
              <7> QED
                BY <4>1, <7>1, StatusesOfEpisodes DEF Keys
            <6>2. f \in DOMAIN runs[r].list /\ rows[a].key = runs[r].list[f]
              BY <5>1, <6>1 DEF EpisodeInv, RunOK, MovesOn, EntryOK
            <6>3. f = e
              BY <3>2, <4>1, <6>2, EntriesDiffer DEF MovesOn
            <6> QED
              BY <3>2, <5>1, <6>1, <6>3
          <5> QED
            BY <5>1 DEF Attempts
        <4> QED
          BY <3>1, <4>2, <4>3 DEF KeepsNumbers
      <3>4. ASSUME NEW n \in 1 .. runs'[r].seq[e] - 1
            PROVE  \E b \in Attempts : rows'[b].key = runs'[r].list[e] /\ rows'[b].seq = n
        BY <2>2, <3>1 DEF NumberedEntry, KeepsNumbers
      <3> QED
        BY <3>3, <3>4
    <2> QED
      BY <2>1, <2>3, <2>4 DEF NumberedEntry
  <1> QED
    BY <1>1, <1>3, <1>4, <1>5, <1>6 DEF NumberInv

\* A key of a task list belongs to no row that was not written.
LEMMA KeysOfLists ==
    ASSUME EpisodeInv, NEW r \in RunIds
    PROVE  /\ DOMAIN runs[r].list \subseteq Entries
           /\ \A e \in DOMAIN runs[r].list :
                 runs[r].list[e] \in Keys /\ runs[r].list[e] # NoRow.key
  <1>1. runs[r] \in Run
    BY DEF EpisodeInv, TypeOK
  <1>2. PICK m \in 0 .. MaxTasks : runs[r].list \in [1 .. m -> Keys]
    BY <1>1 DEF Run
  <1>3. DOMAIN runs[r].list = 1 .. m /\ 1 .. m \subseteq Entries
    BY <1>2, BoundsAssumption DEF Entries
  <1>4. \A key \in Keys : key # NoRow.key
    BY StatusesOfEpisodes DEF Keys
  <1> QED
    BY <1>2, <1>3, <1>4

\* register_attempt uses the number that Schedule computed: no other attempt
\* of the task came in between.
LEMMA RegisterNumbers ==
    ASSUME NoRepeats, RunnerInv, EpisodeInv, NumberInv, NEW r \in RunIds, NEW e \in Entries,
           RegisterAttempt(r, e)
    PROVE  NumberInv'
  <1>0. /\ runs \in [RunIds -> Run] /\ runs[r] \in Run
        /\ rows \in [Attempts -> Row \cup {NoRow}]
        /\ <<r, e>> \in Attempts
    BY DEF EpisodeInv, TypeOK, Attempts
  <1>1. /\ Alive(r) /\ runs[r].phase # "read" /\ runs[r].episodes[e] = "waiting"
    BY DEF RegisterAttempt, HasPermit, LoopIdle, Alive, Over
  <1>2. NumberedEntry(r, e) /\ EntryOK(r, e) /\ Local(r, e)
    BY <1>1 DEF NumberInv, EpisodeInv, RunOK, RunnerInv
  <1>3. PICK key : key = runs[r].list[e]
    OBVIOUS
  <1>4. PICK n : n = runs[r].seq[e]
    OBVIOUS
  <1>5. /\ e \in DOMAIN runs[r].list /\ key \in Keys /\ key # NoRow.key
        /\ n \in Nat \ {0} /\ rows[<<r, e>>] = NoRow
    <2>1. e \in DOMAIN runs[r].list /\ n # 0 /\ rows[<<r, e>>] = NoRow
      BY <1>1, <1>2, <1>4 DEF EntryOK, Local
    <2>2. n \in Nat
      BY <1>0, <1>4 DEF Run
    <2> QED
      BY <1>3, <2>1, <2>2, KeysOfLists
  <1>6. PICK row : row = [key |-> key, seq |-> n, status |-> "pending"]
    OBVIOUS
  <1>7. row.key = key /\ row.seq = n /\ row.status = "pending" /\ row # NoRow
    BY <1>5, <1>6
  <1>8. rows'[<<r, e>>] = row /\ \A a \in Attempts \ {<<r, e>>} : rows'[a] = rows[a]
    BY <1>0, <1>3, <1>4, <1>6 DEF RegisterAttempt
  <1>9. PICK run : run = [runs[r] EXCEPT !.episodes[e] = "registered", !.seq[e] = 0]
    OBVIOUS
  <1>10. /\ run.phase = runs[r].phase /\ run.list = runs[r].list
         /\ run.episodes[e] = "registered"
         /\ \A f \in Entries \ {e} : /\ run.episodes[f] = runs[r].episodes[f]
                                     /\ run.seq[f] = runs[r].seq[f]
    BY <1>0, <1>9 DEF Run
  <1>11. runs'[r] = run /\ \A q \in RunIds \ {r} : runs'[q] = runs[q]
    BY <1>0, <1>9 DEF RegisterAttempt
  <1>12. \A a \in Attempts : rows[a].key = key => rows[a].seq < n /\ rows[a].status \notin Terminal
    BY <1>1, <1>2, <1>3, <1>4 DEF NumberedEntry
  <1>13. \A m \in 1 .. n - 1 : \E b \in Attempts : rows[b].key = key /\ rows[b].seq = m
    BY <1>1, <1>2, <1>3, <1>4 DEF NumberedEntry
  <1>14. \A a \in Attempts : r < a[1] => rows[a] = NoRow
    <2>. SUFFICES ASSUME NEW q \in RunIds, NEW f \in Entries, r < q
                  PROVE  rows[<<q, f>>] = NoRow
      BY DEF Attempts
    <2>1. runs[q].phase = "new"
      BY <1>1 DEF NumberInv, InTurn, Alive
    <2> QED
      BY <2>1 DEF RunnerInv, Local, Starting
  <1>15. InTurn'
    <2>1. runs'[r].phase # "new"
      BY <1>1, <1>10, <1>11 DEF Alive
    <2> QED
      BY <1>1, <1>11, <2>1, RunsStayInTurn DEF NumberInv
  <1>16. ASSUME NEW a \in Attempts, NEW b \in Attempts, Same(a, b)', a # <<r, e>>, b # <<r, e>>
         PROVE  Same(a, b)
    BY <1>8, <1>16 DEF Same
  <1>17. ASSUME NEW a \in Attempts \ {<<r, e>>}, rows'[a].key = key
         PROVE  rows[a].key = key /\ rows'[a].seq < n /\ rows'[a].status \notin Terminal
    BY <1>8, <1>12, <1>17
  <1>18. AttemptsAreNumbered'
    <2>1. ASSUME NEW a \in Attempts, NEW b \in Attempts, Same(a, b)', a[1] < b[1]
          PROVE  rows'[a].seq < rows'[b].seq
      <3>1. CASE a = <<r, e>>
        <4>1. r < b[1] /\ b # <<r, e>>
          BY <2>1, <3>1 DEF RunIds
        <4>2. rows'[b] = NoRow
          BY <1>8, <1>14, <4>1
        <4> QED
          BY <2>1, <4>2, StatusesOfEpisodes DEF Same, NoRow
      <3>2. CASE b = <<r, e>> /\ a # <<r, e>>
        <4>1. rows'[a].key = key
          BY <1>7, <1>8, <2>1, <3>2 DEF Same
        <4> QED
          BY <1>7, <1>8, <1>17, <3>2, <4>1
      <3>3. CASE a # <<r, e>> /\ b # <<r, e>>
        <4>1. rows[a].seq < rows[b].seq
          BY <1>16, <2>1, <3>3 DEF NumberInv, AttemptsAreNumbered
        <4> QED
          BY <1>8, <3>3, <4>1
      <3> QED
        BY <3>1, <3>2, <3>3
    <2>2. ASSUME NEW a \in Attempts, NEW m \in 1 .. rows'[a].seq
          PROVE  \E b \in Attempts : Same(a, b)' /\ rows'[b].seq = m
      <3>1. CASE a = <<r, e>>
        <4>1. m \in 1 .. n
          BY <1>7, <1>8, <3>1
        <4>2. CASE m = n
          BY <1>0, <1>7, <1>8, <3>1, <4>2 DEF Same
        <4>3. CASE m # n
          <5>1. PICK b \in Attempts : rows[b].key = key /\ rows[b].seq = m
            BY <1>5, <1>13, <4>1, <4>3
          <5>2. b # <<r, e>> /\ rows[b] # NoRow
            BY <1>5, <5>1
          <5> QED
            BY <1>7, <1>8, <3>1, <5>1, <5>2 DEF Same
        <4> QED
          BY <4>2, <4>3
      <3>2. CASE a # <<r, e>>
        <4>1. m \in 1 .. rows[a].seq
          BY <1>8, <3>2
        <4>2. PICK b \in Attempts : Same(a, b) /\ rows[b].seq = m
          BY <4>1 DEF NumberInv, AttemptsAreNumbered
        <4>3. b # <<r, e>>
          BY <1>5, <4>2 DEF Same
        <4> QED
          BY <1>8, <3>2, <4>2, <4>3 DEF Same
      <3> QED
        BY <3>1, <3>2
    <2> QED
      BY <2>1, <2>2 DEF AttemptsAreNumbered
  <1>19. CompletedNeverReruns'
    <2>. SUFFICES ASSUME NEW a \in Attempts, NEW b \in Attempts, a # b, Same(a, b)',
                         rows'[a].status \in Terminal
                  PROVE  rows'[b].seq < rows'[a].seq
      BY DEF CompletedNeverReruns
    <2>1. a # <<r, e>>
      BY <1>7, <1>8 DEF Terminal
    <2>2. b # <<r, e>>
      <3>. SUFFICES ASSUME b = <<r, e>>
                    PROVE  FALSE
        OBVIOUS
      <3>1. rows'[a].key = key
        BY <1>7, <1>8 DEF Same
      <3> QED
        BY <1>17, <2>1, <3>1
    <2>3. rows[a].status \in Terminal /\ Same(a, b)
      BY <1>8, <1>16, <2>1, <2>2
    <2>4. rows[b].seq < rows[a].seq
      BY <2>3 DEF NumberInv, CompletedNeverReruns
    <2> QED
      BY <1>8, <2>1, <2>2, <2>4
  <1>20. ASSUME NEW q \in RunIds, runs'[q].phase = "read"
         PROVE  FALSE
    <2>1. q # r
      BY <1>1, <1>10, <1>11, <1>20
    <2>2. Alive(q)
      BY <1>11, <1>20, <2>1 DEF Alive, Over
    <2> QED
      BY <1>1, <2>1, <2>2, OneIsAlive
  <1>21. ASSUME NEW q \in RunIds, Alive(q)', NEW f \in Entries
         PROVE  NumberedEntry(q, f)'
    <2>1. q = r
      BY <1>1, <1>11, <1>21, OneIsAlive DEF Alive
    <2>2. CASE f = e
      <3>1. ASSUME NEW a \in Attempts \ {<<r, e>>}, Same(a, <<r, e>>)'
            PROVE  rows'[a].seq < rows'[<<r, e>>].seq
        <4>1. rows'[a].key = key
          BY <1>7, <1>8, <3>1 DEF Same
        <4> QED
          BY <1>7, <1>8, <1>17, <4>1
      <3>2. runs'[r].episodes[e] # "waiting"
        BY <1>10, <1>11
      <3> QED
        BY <2>1, <2>2, <3>1, <3>2 DEF NumberedEntry
    <2>3. CASE f # e
      <3>1. NumberedEntry(r, f) /\ EntryOK(r, f) /\ <<r, f>> \in Attempts \ {<<r, e>>}
        BY <1>1, <2>3 DEF NumberInv, EpisodeInv, RunOK, Attempts
      <3>2. rows'[<<r, f>>] = rows[<<r, f>>]
        BY <1>8, <3>1
      <3>3. f \in DOMAIN runs[r].list => runs[r].list[f] # key
        BY <1>1, <1>3, <1>5, <2>3, EntriesDiffer
      <3>4. ASSUME rows'[<<r, f>>] # NoRow, NEW a \in Attempts \ {<<r, f>>}, Same(a, <<r, f>>)'
            PROVE  rows'[a].seq < rows'[<<r, f>>].seq
        <4>1. rows[<<r, f>>].key # key /\ rows[<<r, f>>] # NoRow
          BY <3>1, <3>2, <3>3, <3>4 DEF EntryOK
        <4>2. a # <<r, e>>
          BY <1>7, <1>8, <3>2, <3>4, <4>1 DEF Same
        <4>3. Same(a, <<r, f>>)
          BY <1>16, <3>1, <3>4, <4>2
        <4>4. rows[a].seq < rows[<<r, f>>].seq
          BY <3>1, <3>4, <4>1, <4>3 DEF NumberedEntry
        <4> QED
          BY <1>8, <3>2, <4>2, <4>4
      <3>5. ASSUME runs'[r].episodes[f] = "waiting"
            PROVE  /\ \A a \in Attempts : rows'[a].key = runs'[r].list[f] =>
                         rows'[a].seq < runs'[r].seq[f] /\ rows'[a].status \notin Terminal
                   /\ \A m \in 1 .. runs'[r].seq[f] - 1 :
                         \E b \in Attempts : rows'[b].key = runs'[r].list[f] /\ rows'[b].seq = m
        <4>1. /\ runs[r].episodes[f] = "waiting" /\ runs'[r].seq[f] = runs[r].seq[f]
              /\ runs'[r].list = runs[r].list
          BY <1>10, <1>11, <2>3, <3>5
        <4>2. f \in DOMAIN runs[r].list
          BY <3>1, <4>1 DEF EntryOK
        <4>3. runs[r].list[f] # key /\ runs[r].list[f] # NoRow.key
          BY <3>3, <4>2, KeysOfLists
        <4>4. ASSUME NEW a \in Attempts, rows'[a].key = runs'[r].list[f]
              PROVE  rows'[a].seq < runs'[r].seq[f] /\ rows'[a].status \notin Terminal
          <5>1. a # <<r, e>>
            BY <1>7, <1>8, <4>1, <4>3, <4>4
          <5>2. rows'[a] = rows[a]
            BY <1>8, <5>1
          <5>3. rows[a].seq < runs[r].seq[f] /\ rows[a].status \notin Terminal
            BY <3>1, <4>1, <4>4, <5>2 DEF NumberedEntry
          <5> QED
            BY <4>1, <5>2, <5>3
        <4>5. ASSUME NEW m \in 1 .. runs'[r].seq[f] - 1
              PROVE  \E b \in Attempts : rows'[b].key = runs'[r].list[f] /\ rows'[b].seq = m
          <5>1. PICK b \in Attempts : rows[b].key = runs[r].list[f] /\ rows[b].seq = m
            BY <3>1, <4>1 DEF NumberedEntry
          <5>2. b # <<r, e>>
            BY <1>5, <4>3, <5>1
          <5> QED
            BY <1>8, <4>1, <5>1, <5>2
        <4> QED
          BY <4>4, <4>5
      <3> QED
        BY <2>1, <3>4, <3>5 DEF NumberedEntry
    <2> QED
      BY <2>2, <2>3
  <1> QED
    BY <1>15, <1>18, <1>19, <1>20, <1>21 DEF NumberInv

\* What a step does to the state of its run and to its rows, for NumbersStand.
LEMMA RunMovesOn ==
    ASSUME EpisodeInv, NumberInv, NEW r \in RunIds, Alive(r), NEW run,
           runs' = [runs EXCEPT ![r] = run],
           run.phase # "new",
           run.phase = "read" => CompletedTasks' \subseteq run.completed,
           run.phase \notin Over \cup {"new"} =>
              /\ run.list = runs[r].list
              /\ \A f \in Entries : run.episodes[f] = "waiting" =>
                    runs[r].episodes[f] = "waiting" /\ run.seq[f] = runs[r].seq[f]
    PROVE  MovesOn(r)
  <1>1. runs'[r] = run /\ \A q \in RunIds \ {r} : runs'[q] = runs[q]
    BY DEF EpisodeInv, TypeOK
  <1> QED
    BY <1>1 DEF MovesOn, Alive

\* run is a run whose episode e has come to another point.
ButForEpisode(r, e, run, episode) ==
    /\ run.phase = runs[r].phase /\ run.list = runs[r].list /\ run.seq = runs[r].seq
    /\ run.completed = runs[r].completed
    /\ run.episodes = [runs[r].episodes EXCEPT ![e] = episode]

LEMMA EpisodeMovesOn ==
    ASSUME EpisodeInv, NumberInv, NEW r \in RunIds, Alive(r), NEW e \in Entries, NEW run,
           runs' = [runs EXCEPT ![r] = run],
           NEW episode, episode # "waiting", ButForEpisode(r, e, run, episode),
           runs[r].phase # "read" \/ rows' = rows
    PROVE  MovesOn(r)
  <1>1. runs[r] \in Run
    BY DEF EpisodeInv, TypeOK
  <1>2. \A f \in Entries : run.episodes[f] = IF f = e THEN episode ELSE runs[r].episodes[f]
    BY <1>1 DEF Run, ButForEpisode
  <1>3. run.phase # "new"
    BY DEF Alive, ButForEpisode
  <1>4. run.phase = "read" => CompletedTasks' \subseteq run.completed
    BY DEF NumberInv, CompletedTasks, ButForEpisode
  <1>5. /\ run.list = runs[r].list
        /\ \A f \in Entries : run.episodes[f] = "waiting" =>
              runs[r].episodes[f] = "waiting" /\ run.seq[f] = runs[r].seq[f]
    BY <1>2 DEF ButForEpisode
  <1>6. runs'[r] = run /\ \A q \in RunIds \ {r} : runs'[q] = runs[q]
    BY DEF EpisodeInv, TypeOK
  <1> QED
    BY <1>3, <1>4, <1>5, <1>6 DEF MovesOn

LEMMA SameRows ==
    ASSUME NEW r \in RunIds, UNCHANGED rows
    PROVE  KeepsNumbers(r)
  BY DEF KeepsNumbers

LEMMA OneRow ==
    ASSUME EpisodeInv, NEW r \in RunIds, NEW e \in Entries, NEW row \in Row,
           rows' = [rows EXCEPT ![<<r, e>>] = row],
           rows[<<r, e>>] \in Row,
           row.key = rows[<<r, e>>].key, row.seq = rows[<<r, e>>].seq
    PROVE  KeepsNumbers(r)
  <1>1. <<r, e>> \in Attempts /\ rows \in [Attempts -> Row \cup {NoRow}]
    BY DEF EpisodeInv, TypeOK, Attempts
  <1>2. rows'[<<r, e>>] = row /\ \A a \in Attempts \ {<<r, e>>} : rows'[a] = rows[a]
    BY <1>1
  <1>3. row # NoRow /\ rows[<<r, e>>] # NoRow
    BY StatusesOfEpisodes
  <1> QED
    BY <1>2, <1>3 DEF KeepsNumbers

\* A change of its status is one.
LEMMA StatusOfRow ==
    ASSUME EpisodeInv, NEW r \in RunIds, NEW e \in Entries, NEW status \in AttemptStatus,
           rows[<<r, e>>].status \in AttemptStatus,
           rows' = [rows EXCEPT ![<<r, e>>].status = status]
    PROVE  KeepsNumbers(r)
  <1>1. <<r, e>> \in Attempts /\ rows \in [Attempts -> Row \cup {NoRow}]
    BY DEF EpisodeInv, TypeOK, Attempts
  <1>2. rows[<<r, e>>] \in Row
    <2>1. "absent" \notin AttemptStatus
      BY DEF AttemptStatus, EpisodeStatus
    <2> QED
      BY <1>1, <2>1, StatusesOfEpisodes
  <1>3. PICK row : row = [rows[<<r, e>>] EXCEPT !.status = status]
    OBVIOUS
  <1>4. row \in Row /\ row.key = rows[<<r, e>>].key /\ row.seq = rows[<<r, e>>].seq
    BY <1>2, <1>3 DEF Row
  <1>5. rows' = [rows EXCEPT ![<<r, e>>] = row]
    BY <1>3
  <1> QED
    BY <1>2, <1>4, <1>5, OneRow

LEMMA EpisodeNumbers ==
    ASSUME NoRepeats, RunnerInv, EpisodeInv, NumberInv, NEW r \in RunIds, NEW e \in Entries,
           EpisodeStep(r, e) \/ StoreFails(r, e)
    PROVE  NumberInv'
  <1>0. /\ runs \in [RunIds -> Run] /\ runs[r] \in Run
        /\ rows \in [Attempts -> Row \cup {NoRow}] /\ <<r, e>> \in Attempts
    BY DEF EpisodeInv, TypeOK, Attempts
  <1>1. Alive(r)
    BY DEF EpisodeStep, StayUnattempted, RegisterAttempt, MarkRunning, EpisodeReturns,
           FinishAttempt, Abandon, KillCancelled, CancellationLost, StoreFails, HasPermit,
           LoopIdle, Alive, Over
  <1>2. EntryOK(r, e) /\ Local(r, e)
    BY <1>1 DEF EpisodeInv, RunOK, RunnerInv
  <1>3. EpisodeStatus \subseteq AttemptStatus /\ {"pending", "running", "interrupted"} \subseteq AttemptStatus
    BY DEF AttemptStatus
  <1>4. ASSUME NEW status \in EpisodeStatus, FinishRow(<<r, e>>, status)
        PROVE  KeepsNumbers(r)
    BY <1>3, <1>4, StatusOfRow DEF FinishRow
  <1>5. CASE RegisterAttempt(r, e)
    BY <1>5, RegisterNumbers
  <1>6. CASE StayUnattempted(r, e)
    <2>1. PICK run : run = [runs[r] EXCEPT !.episodes[e] = "done"]
      OBVIOUS
    <2>2. runs' = [runs EXCEPT ![r] = run] /\ UNCHANGED rows
      BY <1>0, <1>6, <2>1 DEF StayUnattempted
    <2>3. ButForEpisode(r, e, run, "done")
      BY <1>0, <2>1 DEF Run, ButForEpisode
    <2>4. runs[r].phase # "read" \/ rows' = rows
      BY <2>2
    <2>5. runs' = [runs EXCEPT ![r] = run]
      BY <2>2
    <2>6. MovesOn(r)
      <3>1. "done" # "waiting"
        OBVIOUS
      <3> QED
        BY <1>1, <2>3, <2>4, <2>5, <3>1, EpisodeMovesOn
    <2> QED
      BY <2>2, <2>6, SameRows, NumbersStand
  <1>7. CASE MarkRunning(r, e)
    <2>1. PICK run : run = [runs[r] EXCEPT !.episodes[e] = "executing"]
      OBVIOUS
    <2>2. runs' = [runs EXCEPT ![r] = run]
      BY <1>0, <1>7, <2>1 DEF MarkRunning
    <2>3. ButForEpisode(r, e, run, "executing")
      BY <1>0, <2>1 DEF Run, ButForEpisode
    <2>4. runs[r].phase # "read"
      BY <1>2, <1>7, StatusesOfEpisodes DEF MarkRunning, Local, Starting
    <2>5. MovesOn(r)
      BY <1>1, <2>2, <2>3, <2>4, EpisodeMovesOn
    <2>6. KeepsNumbers(r)
      BY <1>3, <1>7, StatusOfRow DEF MarkRunning
    <2> QED
      BY <2>5, <2>6, NumbersStand
  <1>8. ASSUME NEW status \in EpisodeStatus, EpisodeReturns(r, e, status)
        PROVE  NumberInv'
    <2>0. PICK episode : episode = IF runs[r].episodes[e] = "executing" THEN "returned"
                                   ELSE runs[r].episodes[e]
      OBVIOUS
    <2>1. PICK run : run = [runs[r] EXCEPT !.outcome[e] = status, !.episodes[e] = episode]
      OBVIOUS
    <2>2. runs' = [runs EXCEPT ![r] = run] /\ UNCHANGED rows
      BY <1>0, <1>8, <2>0, <2>1 DEF EpisodeReturns
    <2>3. ButForEpisode(r, e, run, episode)
      BY <1>0, <2>1 DEF Run, ButForEpisode
    <2>4. episode # "waiting"
      BY <1>8, <2>0 DEF EpisodeReturns
    <2>5. MovesOn(r)
      BY <1>1, <2>2, <2>3, <2>4, EpisodeMovesOn
    <2> QED
      BY <2>2, <2>5, SameRows, NumbersStand
  <1>9. CASE FinishAttempt(r, e)
    <2>0. PICK error : runs' = [runs EXCEPT ![r].episodes[e] = "done", ![r].outcome[e] = "none",
                                            ![r].error = error]
      BY <1>9 DEF FinishAttempt
    <2>1. PICK run : run = [runs[r] EXCEPT !.episodes[e] = "done", !.outcome[e] = "none",
                                           !.error = error]
      OBVIOUS
    <2>2. runs' = [runs EXCEPT ![r] = run]
      BY <1>0, <2>0, <2>1
    <2>3. ButForEpisode(r, e, run, "done")
      BY <1>0, <2>1 DEF Run, ButForEpisode
    <2>4. /\ runs[r].phase # "read" /\ FinishRow(<<r, e>>, runs[r].outcome[e])
          /\ runs[r].outcome[e] \in EpisodeStatus
      BY <1>2, <1>9 DEF FinishAttempt, LoopIdle, EntryOK
    <2>5. MovesOn(r)
      BY <1>1, <2>2, <2>3, <2>4, EpisodeMovesOn
    <2> QED
      BY <1>4, <2>4, <2>5, NumbersStand
  <1>10. CASE Abandon(r, e)
    <2>0. PICK episode : episode = IF runs[r].episodes[e] = "waiting" THEN "done" ELSE "cancelled"
      OBVIOUS
    <2>1. PICK run : run = [runs[r] EXCEPT !.left = @ \ {e}, !.episodes[e] = episode]
      OBVIOUS
    <2>2. runs' = [runs EXCEPT ![r] = run]
      BY <1>0, <1>10, <2>0, <2>1 DEF Abandon
    <2>3. ButForEpisode(r, e, run, episode)
      BY <1>0, <2>1 DEF Run, ButForEpisode
    <2>4. episode # "waiting" /\ runs[r].phase # "read"
      BY <1>10, <2>0 DEF Abandon
    <2>5. MovesOn(r)
      BY <1>1, <2>2, <2>3, <2>4, EpisodeMovesOn
    <2>6. KeepsNumbers(r)
      BY <1>3, <1>10, StatusOfRow, SameRows DEF Abandon
    <2> QED
      BY <2>5, <2>6, NumbersStand
  <1>11. CASE KillCancelled(r, e)
    <2>1. PICK run : run = [runs[r] EXCEPT !.episodes[e] = "done"]
      OBVIOUS
    <2>2. runs' = [runs EXCEPT ![r] = run] /\ UNCHANGED rows
      BY <1>0, <1>11, <2>1 DEF KillCancelled
    <2>3. ButForEpisode(r, e, run, "done")
      BY <1>0, <2>1 DEF Run, ButForEpisode
    <2>4. runs[r].phase # "read" \/ rows' = rows
      BY <2>2
    <2>5. runs' = [runs EXCEPT ![r] = run]
      BY <2>2
    <2>6. MovesOn(r)
      <3>1. "done" # "waiting"
        OBVIOUS
      <3> QED
        BY <1>1, <2>3, <2>4, <2>5, <3>1, EpisodeMovesOn
    <2> QED
      BY <2>2, <2>6, SameRows, NumbersStand
  <1>12. CASE CancellationLost(r, e)
    <2>0. PICK error : runs' = [runs EXCEPT ![r].episodes[e] = "done", ![r].error = error]
      <3>1. CASE runs' = [runs EXCEPT ![r].episodes[e] = "done"]
        <4>1. runs' = [runs EXCEPT ![r].episodes[e] = "done", ![r].error = runs[r].error]
          BY <1>0, <3>1 DEF Run
        <4> QED
          BY <4>1
      <3>2. CASE runs' = [runs EXCEPT ![r].episodes[e] = "done",
                                      ![r].error = IF @ = "none" THEN "conflict" ELSE @]
        BY <1>0, <3>2
      <3> QED
        BY <1>12, <3>1, <3>2 DEF CancellationLost
    <2>1. PICK run : run = [runs[r] EXCEPT !.episodes[e] = "done", !.error = error]
      OBVIOUS
    <2>2. runs' = [runs EXCEPT ![r] = run]
      BY <1>0, <2>0, <2>1
    <2>3. ButForEpisode(r, e, run, "done")
      BY <1>0, <2>1 DEF Run, ButForEpisode
    <2>4. /\ runs[r].phase # "read"
          /\ runs[r].outcome[e] \in EpisodeStatus /\ "infrastructure_error" \in EpisodeStatus
      BY <1>2, <1>12 DEF CancellationLost, LoopIdle, EntryOK, EpisodeStatus
    <2>5. MovesOn(r)
      BY <1>1, <2>2, <2>3, <2>4, EpisodeMovesOn
    <2>6. KeepsNumbers(r)
      BY <1>4, <1>12, <2>4, SameRows DEF CancellationLost
    <2> QED
      BY <2>5, <2>6, NumbersStand
  <1>13. CASE StoreFails(r, e)
    <2>1. PICK run : run = [runs[r] EXCEPT !.episodes[e] = "done", !.error = "store"]
      OBVIOUS
    <2>2. runs' = [runs EXCEPT ![r] = run] /\ UNCHANGED rows
      BY <1>0, <1>13, <2>1 DEF StoreFails
    <2>3. ButForEpisode(r, e, run, "done")
      BY <1>0, <2>1 DEF Run, ButForEpisode
    <2>4. runs[r].phase # "read" \/ rows' = rows
      BY <2>2
    <2>5. runs' = [runs EXCEPT ![r] = run]
      BY <2>2
    <2>6. MovesOn(r)
      <3>1. "done" # "waiting"
        OBVIOUS
      <3> QED
        BY <1>1, <2>3, <2>4, <2>5, <3>1, EpisodeMovesOn
    <2> QED
      BY <2>2, <2>6, SameRows, NumbersStand
  <1> QED
    BY <1>5, <1>6, <1>7, <1>8, <1>9, <1>10, <1>11, <1>12, <1>13 DEF EpisodeStep

\* The steps of the run that register nothing.
LEMMA RunNumbers ==
    ASSUME NoRepeats, RunnerInv, EpisodeInv, NumberInv, NEW r \in RunIds, NEW e \in Entries,
           \/ ReadCompleted(r) \/ StartFails(r) \/ Stop(r) \/ BeginGrace(r) \/ EndGrace(r)
           \/ BeginClosing(r) \/ AbandonFails(r, e) \/ End(r) \/ Crash(r)
    PROVE  NumberInv'
  <1>0. runs \in [RunIds -> Run] /\ runs[r] \in Run
    BY DEF EpisodeInv, TypeOK
  <1>1. Alive(r)
    BY DEF ReadCompleted, StartFails, Stop, BeginGrace, EndGrace, BeginClosing, AbandonFails, End,
           Crash, LoopIdle, Alive, Over
  <1>2. UNCHANGED rows
    BY DEF ReadCompleted, StartFails, Stop, BeginGrace, EndGrace, BeginClosing, AbandonFails, End,
           Crash
  <1>3. CompletedTasks' = CompletedTasks
    BY <1>2 DEF CompletedTasks
  <1>4. runs[r].phase = "read" => CompletedTasks \subseteq runs[r].completed
    BY DEF NumberInv
  <1>. SUFFICES MovesOn(r)
    BY <1>2, SameRows, NumbersStand
  <1>5. CASE ReadCompleted(r)
    <2>1. PICK run : run = [runs[r] EXCEPT !.phase = "read", !.completed = CompletedTasks]
      OBVIOUS
    <2>2. runs' = [runs EXCEPT ![r] = run]
      BY <1>0, <1>5, <2>1 DEF ReadCompleted
    <2>3. /\ run.phase = "read" /\ run.list = runs[r].list /\ run.seq = runs[r].seq
          /\ run.completed = CompletedTasks /\ run.episodes = runs[r].episodes
      BY <1>0, <2>1 DEF Run
    <2> QED
      BY <1>1, <1>3, <2>2, <2>3, RunMovesOn
  <1>6. CASE Stop(r)
    <2>1. PICK run : run = [runs[r] EXCEPT !.stop = TRUE]
      OBVIOUS
    <2>2. runs' = [runs EXCEPT ![r] = run]
      BY <1>0, <1>6, <2>1 DEF Stop
    <2>3. /\ run.phase = runs[r].phase /\ run.list = runs[r].list /\ run.seq = runs[r].seq
          /\ run.completed = runs[r].completed /\ run.episodes = runs[r].episodes
      BY <1>0, <2>1 DEF Run
    <2>4. run.phase # "new" /\ (run.phase = "read" => CompletedTasks' \subseteq run.completed)
      BY <1>1, <1>3, <1>4, <2>3 DEF Alive
    <2> QED
      BY <1>1, <2>2, <2>3, <2>4, RunMovesOn
  <1>7. CASE BeginGrace(r)
    <2>1. PICK run : run = [runs[r] EXCEPT !.phase = "grace"]
      OBVIOUS
    <2>2. runs' = [runs EXCEPT ![r] = run]
      BY <1>0, <1>7, <2>1 DEF BeginGrace
    <2>3. /\ run.phase = "grace" /\ run.list = runs[r].list /\ run.seq = runs[r].seq
          /\ run.episodes = runs[r].episodes
      BY <1>0, <2>1 DEF Run
    <2> QED
      BY <1>1, <2>2, <2>3, RunMovesOn
  <1>8. CASE EndGrace(r)
    <2>1. PICK run : run = [runs[r] EXCEPT !.phase = "abandoning", !.left = Unfinished(r)]
      OBVIOUS
    <2>2. runs' = [runs EXCEPT ![r] = run]
      BY <1>0, <1>8, <2>1 DEF EndGrace
    <2>3. /\ run.phase = "abandoning" /\ run.list = runs[r].list /\ run.seq = runs[r].seq
          /\ run.episodes = runs[r].episodes
      BY <1>0, <2>1 DEF Run
    <2> QED
      BY <1>1, <2>2, <2>3, RunMovesOn
  <1>9. CASE BeginClosing(r)
    <2>1. PICK run : run = [runs[r] EXCEPT !.phase = "closing"]
      OBVIOUS
    <2>2. runs' = [runs EXCEPT ![r] = run]
      BY <1>0, <1>9, <2>1 DEF BeginClosing
    <2>3. /\ run.phase = "closing" /\ run.list = runs[r].list /\ run.seq = runs[r].seq
          /\ run.episodes = runs[r].episodes
      BY <1>0, <2>1 DEF Run
    <2> QED
      BY <1>1, <2>2, <2>3, RunMovesOn
  <1>10. CASE AbandonFails(r, e)
    <2>. PICK episodes : episodes = [f \in Entries |->
                                       IF runs[r].episodes[f] = "waiting" THEN "done"
                                       ELSE IF f \in Unfinished(r) THEN "cancelled"
                                            ELSE runs[r].episodes[f]]
      OBVIOUS
    <2>1. PICK run : run = [runs[r] EXCEPT !.phase = "closing", !.left = {}, !.error = "store",
                                           !.episodes = episodes]
      OBVIOUS
    <2>2. runs' = [runs EXCEPT ![r] = run]
      BY <1>0, <1>10, <2>1 DEF AbandonFails
    <2>3. /\ run.phase = "closing" /\ run.list = runs[r].list /\ run.episodes = episodes
      BY <1>0, <2>1 DEF Run
    <2>4. \A f \in Entries : run.episodes[f] # "waiting"
      BY <2>3
    <2> QED
      BY <1>1, <2>2, <2>3, <2>4, RunMovesOn
  <1>11. CASE StartFails(r) \/ End(r) \/ Crash(r)
    <2>1. PICK phase, error : phase \in Over /\ runs' = [runs EXCEPT ![r] = Exited(phase, error)]
      BY <1>11 DEF StartFails, End, Crash, Over
    <2>2. PICK run : run = Exited(phase, error)
      OBVIOUS
    <2>3. run.phase = phase
      BY <2>2 DEF Exited, NoRun
    <2>4. run.phase # "new" /\ run.phase # "read" /\ run.phase \in Over
      BY <2>1, <2>3 DEF Over
    <2> QED
      BY <1>1, <2>1, <2>2, <2>4, RunMovesOn
  <1> QED
    BY <1>5, <1>6, <1>7, <1>8, <1>9, <1>10, <1>11

\* With one runner at a time a run starts when every earlier one is over.
LEMMA StartNumbers ==
    ASSUME MaxRunners = 1, RunnerInv, EpisodeInv, NumberInv, NEW r \in RunIds, NEW c \in Configs,
           Start(r, c)
    PROVE  NumberInv'
  <1>0. runs \in [RunIds -> Run] /\ UNCHANGED rows /\ runs[r].phase = "new"
    BY DEF EpisodeInv, TypeOK, Start
  <1>1. \A q \in RunIds : ~Alive(q)
    <2>. DEFINE alive == { q \in RunIds : Alive(q) }
    <2>1. IsFiniteSet(alive)
      <3>1. IsFiniteSet(RunIds)
        BY FS_Interval, BoundsAssumption DEF RunIds
      <3> QED
        BY <3>1, FS_Subset
    <2>2. Cardinality(alive) < 1
      BY DEF Start
    <2>. HIDE DEF alive
    <2>3. alive = {}
      <3>1. Cardinality(alive) \in Nat
        BY <2>1, FS_CardinalityType
      <3>2. Cardinality(alive) = 0
        BY <2>2, <3>1
      <3> QED
        BY <2>1, <3>2, FS_EmptySet
    <2> QED
      BY <2>3 DEF alive
  <1>2. PICK run : /\ runs' = [runs EXCEPT ![r] = run]
                   /\ run.phase \in {"started", "failed"}
                   /\ run.episodes = [e \in Entries |-> "none"]
    <2>1. CASE experiment' = c.hash
      <3>1. PICK run : run = [NoRun EXCEPT !.phase = "started", !.list = c.list,
                                           !.concurrency = c.concurrency]
        OBVIOUS
      <3>2. runs' = [runs EXCEPT ![r] = run]
        BY <2>1, <3>1 DEF Start
      <3>3. run.phase = "started" /\ run.episodes = [e \in Entries |-> "none"]
        BY <3>1 DEF NoRun
      <3> QED
        BY <3>2, <3>3
    <2>2. CASE experiment' # c.hash
      <3>1. PICK run : run = Exited("failed", "none")
        OBVIOUS
      <3>2. runs' = [runs EXCEPT ![r] = run]
        BY <2>2, <3>1 DEF Start
      <3>3. run.phase = "failed" /\ run.episodes = [e \in Entries |-> "none"]
        BY <3>1 DEF Exited, NoRun
      <3> QED
        BY <3>2, <3>3
    <2> QED
      BY <2>1, <2>2
  <1>3. runs'[r] = run /\ \A q \in RunIds \ {r} : runs'[q] = runs[q]
    BY <1>0, <1>2
  <1>4. InTurn'
    <2>. SUFFICES ASSUME NEW p \in RunIds, NEW q \in RunIds, p < q, runs'[p].phase \notin Over
                  PROVE  runs'[q].phase = "new"
      BY DEF InTurn
    <2>0. p # q
      BY DEF RunIds
    <2>1. CASE p = r
      BY <1>0, <1>3, <2>0, <2>1 DEF NumberInv, InTurn, Over
    <2>2. CASE p # r
      <3>1. runs'[p] = runs[p] /\ runs[p].phase = "new"
        BY <1>1, <1>3, <2>2 DEF Alive
      <3>2. q # r
        BY <3>1 DEF Start
      <3> QED
        BY <1>3, <3>1, <3>2 DEF NumberInv, InTurn
    <2> QED
      BY <2>1, <2>2
  <1>5. AttemptsAreNumbered' /\ CompletedNeverReruns'
    BY <1>0 DEF NumberInv, AttemptsAreNumbered, CompletedNeverReruns, Same
  <1>6. \A q \in RunIds : runs'[q].phase # "read"
    BY <1>1, <1>2, <1>3 DEF Alive, Over
  <1>7. ASSUME NEW q \in RunIds, Alive(q)', NEW e \in Entries
        PROVE  NumberedEntry(q, e)'
    <2>1. q = r
      BY <1>1, <1>3, <1>7 DEF Alive
    <2>2. rows'[<<r, e>>] = NoRow
      BY <1>0 DEF RunnerInv, Local, Starting
    <2>3. runs'[r].episodes[e] # "waiting"
      BY <1>2, <1>3
    <2> QED
      BY <2>1, <2>2, <2>3 DEF NumberedEntry
  <1> QED
    BY <1>4, <1>5, <1>6, <1>7 DEF NumberInv

\* The number that Schedule computes for an entry is the next of its task.
LEMMA ScheduleNumbers ==
    ASSUME NoRepeats, RunnerInv, EpisodeInv, NumberInv, NEW r \in RunIds, Schedule(r)
    PROVE  NumberInv'
  <1>. DEFINE list == runs[r].list
              queued == { e \in DOMAIN list : list[e] \notin runs[r].completed /\ ~runs[r].stop }
              repeats(e) == Cardinality({ f \in queued : f < e /\ list[f] = list[e] })
              episodes == [e \in Entries |-> IF e \in queued THEN "waiting" ELSE "none"]
              seq == [e \in Entries |->
                        IF e \in queued THEN NextSequence(list[e]) + repeats(e) ELSE 0]
  <1>0. /\ runs \in [RunIds -> Run] /\ runs[r] \in Run
        /\ rows \in [Attempts -> Row \cup {NoRow}]
        /\ UNCHANGED rows /\ runs[r].phase = "read"
    BY DEF EpisodeInv, TypeOK, Schedule
  <1>1. Alive(r) /\ CompletedTasks \subseteq runs[r].completed
    BY <1>0 DEF NumberInv, Alive, Over
  <1>2. ASSUME NEW e \in Entries, episodes[e] = "waiting"
        PROVE  /\ e \in DOMAIN list /\ list[e] \notin CompletedTasks
               /\ seq[e] = NextSequence(list[e]) + 0
    <2>1. e \in queued
      BY <1>2
    <2>2. seq[e] = NextSequence(list[e]) + repeats(e)
      BY <2>1
    <2>3. e \in DOMAIN list /\ list[e] \notin CompletedTasks
      BY <1>1, <2>1
    <2>4. { f \in queued : f < e /\ list[f] = list[e] } = {}
      <3>. SUFFICES ASSUME NEW f \in queued, f < e, list[f] = list[e]
                    PROVE  FALSE
        OBVIOUS
      <3>1. f \in DOMAIN runs[r].list /\ runs[r].list[f] = runs[r].list[e]
        OBVIOUS
      <3>2. f = e
        BY <1>1, <2>3, <3>1, EntriesDiffer
      <3>3. e \in Nat
        BY DEF Entries
      <3> QED
        BY <3>2, <3>3
    <2>5. repeats(e) = 0
      BY <2>4, FS_EmptySet
    <2>. HIDE DEF repeats, seq, list, queued, episodes
    <2> QED
      BY <2>2, <2>3, <2>5
  <1>3. PICK run : run = [runs[r] EXCEPT !.phase = "running", !.episodes = episodes, !.seq = seq]
    OBVIOUS
  <1>4. runs' = [runs EXCEPT ![r] = run]
    <2>1. runs' = [runs EXCEPT ![r].phase = "running", ![r].episodes = episodes, ![r].seq = seq]
      BY DEF Schedule
    <2>. HIDE DEF episodes, seq
    <2> QED
      BY <1>0, <1>3, <2>1
  <1>. HIDE DEF episodes, seq, queued, repeats
  <1>5. /\ run.phase = "running" /\ run.episodes = episodes /\ run.seq = seq
        /\ run.list = runs[r].list
    BY <1>0, <1>3 DEF Run
  <1>6. runs'[r] = run /\ \A q \in RunIds \ {r} : runs'[q] = runs[q]
    BY <1>0, <1>4
  <1>7. InTurn'
    <2>1. runs'[r].phase # "new"
      BY <1>5, <1>6
    <2> QED
      BY <1>1, <1>6, <2>1, RunsStayInTurn DEF NumberInv
  <1>8. AttemptsAreNumbered' /\ CompletedNeverReruns'
    BY <1>0 DEF NumberInv, AttemptsAreNumbered, CompletedNeverReruns, Same
  <1>9. ASSUME NEW q \in RunIds, runs'[q].phase = "read"
        PROVE  FALSE
    <2>1. q # r
      BY <1>5, <1>6, <1>9
    <2>2. Alive(q)
      BY <1>6, <1>9, <2>1 DEF Alive, Over
    <2> QED
      BY <1>1, <2>1, <2>2, OneIsAlive
  <1>10. ASSUME NEW q \in RunIds, Alive(q)', NEW e \in Entries
         PROVE  NumberedEntry(q, e)'
    <2>1. q = r
      BY <1>1, <1>6, <1>10, OneIsAlive DEF Alive
    <2>2. rows'[<<r, e>>] = NoRow
      BY <1>0 DEF RunnerInv, Local, Starting
    <2>3. ASSUME runs'[r].episodes[e] = "waiting"
          PROVE  /\ \A a \in Attempts : rows'[a].key = runs'[r].list[e] =>
                       rows'[a].seq < runs'[r].seq[e] /\ rows'[a].status \notin Terminal
                 /\ \A m \in 1 .. runs'[r].seq[e] - 1 :
                       \E b \in Attempts : rows'[b].key = runs'[r].list[e] /\ rows'[b].seq = m
      <3>1. PICK key : key = runs[r].list[e]
        OBVIOUS
      <3>2. key \notin CompletedTasks /\ key # NoRow.key
        BY <1>2, <1>5, <1>6, <2>3, <3>1, KeysOfLists
      <3>3. PICK n \in Nat :
               /\ NextSequence(key) = n + 1
               /\ \A a \in Attempts : rows[a].key = key => rows[a].seq <= n
               /\ n # 0 => \E a \in Attempts : rows[a].key = key /\ rows[a].seq = n
        BY <1>0, <3>2, NumbersFollow
      <3>4. runs'[r].list[e] = key /\ runs'[r].seq[e] = n + 1
        <4>1. seq[e] = NextSequence(key) + 0
          BY <1>2, <1>5, <1>6, <2>3, <3>1
        <4> QED
          BY <1>5, <1>6, <3>1, <3>3, <4>1
      <3>5. \A a \in Attempts : rows[a].seq \in Nat
        BY <1>0 DEF Row, NoRow
      <3>6. ASSUME NEW a \in Attempts, rows[a].key = key
            PROVE  rows[a].seq < n + 1 /\ rows[a].status \notin Terminal
        <4>1. rows[a].status \notin Terminal
          BY <3>2, <3>6 DEF CompletedTasks
        <4> QED
          BY <3>3, <3>5, <3>6, <4>1
      <3>7. ASSUME NEW m \in 1 .. n + 1 - 1
            PROVE  \E b \in Attempts : rows[b].key = key /\ rows[b].seq = m
        <4>1. m \in 1 .. n /\ n # 0
          BY <3>7
        <4>2. PICK a \in Attempts : rows[a].key = key /\ rows[a].seq = n
          BY <3>3, <4>1
        <4>3. PICK b \in Attempts : Same(a, b) /\ rows[b].seq = m
          BY <4>1, <4>2 DEF NumberInv, AttemptsAreNumbered
        <4> QED
          BY <4>2, <4>3 DEF Same
      <3> QED
        BY <1>0, <3>4, <3>6, <3>7
    <2> QED
      BY <2>1, <2>2, <2>3 DEF NumberedEntry
  <1> QED
    BY <1>7, <1>8, <1>9, <1>10 DEF NumberInv

LEMMA NumberInit == Init => NumberInv
  <1>. SUFFICES ASSUME Init
                PROVE  NumberInv
    OBVIOUS
  <1>1. \A r \in RunIds : runs[r].phase = "new" /\ ~Alive(r)
    BY EmptyRuns DEF Init, Alive
  <1>2. \A a \in Attempts : rows[a] = NoRow /\ rows[a].seq = 0
    BY DEF Init, NoRow
  <1>3. InTurn
    BY <1>1 DEF InTurn
  <1>4. AttemptsAreNumbered /\ CompletedNeverReruns
    BY <1>2 DEF AttemptsAreNumbered, CompletedNeverReruns, Same
  <1> QED
    BY <1>1, <1>3, <1>4 DEF NumberInv

LEMMA NumberNext ==
    ASSUME NoRepeats, MaxRunners = 1, RunnerInv, EpisodeInv, NumberInv, [Next]_vars
    PROVE  NumberInv'
  <1>0. Entries # {}
    BY BoundsAssumption DEF Entries
  <1>1. ASSUME UNCHANGED <<runs, rows>>
        PROVE  NumberInv'
    <2>1. AttemptsAreNumbered' /\ CompletedNeverReruns' /\ InTurn'
      BY <1>1 DEF NumberInv, AttemptsAreNumbered, CompletedNeverReruns, InTurn, Same
    <2>2. CompletedTasks' = CompletedTasks
      BY <1>1 DEF CompletedTasks
    <2>3. \A r \in RunIds, e \in Entries : NumberedEntry(r, e) => NumberedEntry(r, e)'
      BY <1>1 DEF NumberedEntry, Same
    <2> QED
      BY <1>1, <2>1, <2>2, <2>3 DEF NumberInv, Alive
  <1>2. ASSUME NEW r \in RunIds, Advance(r)
        PROVE  NumberInv'
    BY <1>0, <1>2, RunNumbers, ScheduleNumbers, EpisodeNumbers DEF Advance
  <1>3. ASSUME NEW r \in RunIds, Disturb(r)
        PROVE  NumberInv'
    BY <1>0, <1>3, RunNumbers, EpisodeNumbers DEF Disturb
  <1>4. ASSUME NEW r \in RunIds, NEW c \in Configs, Start(r, c)
        PROVE  NumberInv'
    BY <1>4, StartNumbers
  <1>5. ASSUME NEW a \in Attempts, OrphanEnds(a)
        PROVE  NumberInv'
    BY <1>1, <1>5 DEF OrphanEnds
  <1> QED
    BY <1>1, <1>2, <1>3, <1>4, <1>5 DEF Next, vars

LEMMA NumberInvariance ==
    ASSUME NoRepeats, MaxRunners = 1
    PROVE  Spec => []NumberInv
  <1>1. RunnerInv /\ EpisodeInv /\ NumberInv /\ [Next]_vars => NumberInv'
    BY NumberNext
  <1> QED
    BY <1>1, NumberInit, RunnerInvariance, EpisodeInvariance, PTL DEF Spec

-----------------------------------------------------------------------------
(* Theorems *)

\* finish_attempt writes status and result in one transaction, and an attempt
\* marked interrupted acquires no result: whatever the runs do, crash or
\* retry, and although two of them may be alive.
THEOREM ResultsMatchStatusAlways == Spec => []ResultsMatchStatus
  <1>1. RunnerInv => ResultsMatchStatus
    BY DEF RunnerInv, Local, ResultsMatchStatus, Attempts
  <1> QED
    BY <1>1, RunnerInvariance, PTL

\* codex F5, for any concurrency: a run ends only after every subprocess of
\* its episodes has.
THEOREM NoOrchestratorOutlivesItsRunAlways == Spec => []NoOrchestratorOutlivesItsRun
  <1>1. RunnerInv => NoOrchestratorOutlivesItsRun
    <2>. SUFFICES ASSUME RunnerInv, NEW p \in processes
                  PROVE  runs[p[1]].phase \notin {"over", "failed"}
      BY DEF NoOrchestratorOutlivesItsRun
    <2>1. PICK r \in RunIds, e \in Entries : p = <<r, e>>
      BY DEF RunnerInv, Attempts
    <2> QED
      BY <2>1 DEF RunnerInv, Local
  <1> QED
    BY <1>1, RunnerInvariance, PTL

\* The step property of StopStopsClaiming.
ClaimStep ==
    \A r \in RunIds : runs[r].stop =>
        \A e \in Entries : rows[<<r, e>>] = NoRow => rows'[<<r, e>>] = NoRow

\* codex F4: after the stop event no step of the run, nor of another, makes an
\* attempt of it.
THEOREM StopStopsClaimingAlways == Spec => StopStopsClaiming
  <1>1. RunnerInv /\ [Next]_vars => [ClaimStep]_vars
    <2>. SUFFICES ASSUME RunnerInv, [Next]_vars, NEW r \in RunIds, NEW e \in Entries,
                         runs[r].stop, rows[<<r, e>>] = NoRow
                  PROVE  rows'[<<r, e>>] = NoRow
      BY DEF ClaimStep
    <2>1. DOMAIN rows = Attempts /\ rows[<<r, e>>].status = "absent"
      BY EmptyRuns DEF RunnerInv, Shape
    <2>2. ASSUME NEW q \in RunIds, NEW f \in Entries, EpisodeStep(q, f)
          PROVE  rows'[<<r, e>>] = rows[<<r, e>>]
      <3>1. ASSUME <<q, f>> # <<r, e>>
            PROVE  rows'[<<r, e>>] = rows[<<r, e>>]
        <4>1. UNCHANGED rows \/ \E row : rows' = [rows EXCEPT ![<<q, f>>] = row]
          BY <2>2
             DEF EpisodeStep, StayUnattempted, RegisterAttempt, MarkRunning, EpisodeReturns,
                 FinishAttempt, FinishRow, Abandon, KillCancelled, CancellationLost
        <4>2. <<r, e>> \in Attempts \ {<<q, f>>}
          BY <3>1 DEF Attempts
        <4> QED
          BY <2>1, <4>1, <4>2, SMTT(30)
      <3>2. ASSUME q = r, f = e
            PROVE  UNCHANGED rows
        BY <2>1, <2>2, <3>2
           DEF EpisodeStep, StayUnattempted, RegisterAttempt, MarkRunning, EpisodeReturns,
               FinishAttempt, FinishRow, Abandon, KillCancelled, CancellationLost
      <3> QED
        BY <3>1, <3>2
    <2>3. \/ \E q \in RunIds, f \in Entries : EpisodeStep(q, f)
          \/ UNCHANGED rows
      BY DEF Next, Advance, Disturb, Start, ReadCompleted, Schedule, StartFails, BeginGrace,
             EndGrace, BeginClosing, End, Stop, Crash, StoreFails, AbandonFails, OrphanEnds, vars
    <2> QED
      BY <2>2, <2>3
  <1> QED
    BY <1>1, RunnerInvariance, PTL DEF Spec, StopStopsClaiming, ClaimStep

\* The tables and the state of every run keep their types.
THEOREM RunnerTypes == Spec => []TypeOK
  <1>1. EpisodeInv => TypeOK
    BY DEF EpisodeInv
  <1> QED
    BY <1>1, EpisodeInvariance, PTL

\* Pit 63, for any task lists without a repeated line and any concurrency: with
\* one permit there is one orchestrator, with more validate_same_task_serial
\* keeps two modes of one task apart.
THEOREM OneEpisodePerDatabaseAlways ==
    ASSUME NoRepeats
    PROVE  Spec => []OneEpisodePerDatabase
  <1>1. RunnerInv /\ EpisodeInv => OneEpisodePerDatabase
    <2>. SUFFICES ASSUME RunnerInv, EpisodeInv, NEW r \in RunIds, NEW a \in processes, NEW b \in processes,
                         a[1] = r, b[1] = r, Alive(r), rows[a].key[1] = rows[b].key[1]
                  PROVE  a = b
      BY DEF OneEpisodePerDatabase
    <2>1. PICK e \in Entries : a = <<r, e>>
      BY DEF RunnerInv, Attempts
    <2>2. PICK f \in Entries : b = <<r, f>>
      BY DEF RunnerInv, Attempts
    <2>3. RunOK(r) /\ EntryOK(r, e) /\ EntryOK(r, f)
      BY DEF EpisodeInv, RunOK
    <2>4. HasOne(runs[r].episodes[e]) /\ HasOne(runs[r].episodes[f])
      BY <2>1, <2>2 DEF RunnerInv, Local, Alive, Over, HasOne
    <2>5. /\ e \in DOMAIN runs[r].list /\ rows[a].key = runs[r].list[e]
          /\ f \in DOMAIN runs[r].list /\ rows[b].key = runs[r].list[f]
      BY <2>1, <2>2, <2>3 DEF EntryOK
    <2>6. runs[r].concurrency \in 1 .. 4 /\ runs[r].list[e] \in Keys /\ runs[r].list[f] \in Keys
      <3>1. runs[r] \in Run
        BY DEF EpisodeInv, TypeOK
      <3>2. PICK run \in Run : run = runs[r]
        BY <3>1
      <3>3. PICK lists : lists = { [1 .. n -> Keys] : n \in 0 .. MaxTasks }
        OBVIOUS
      <3>4. run.list \in UNION lists /\ run.concurrency \in 1 .. 4
        BY <3>3 DEF Run
      <3>5. PICK n \in 0 .. MaxTasks : run.list \in [1 .. n -> Keys]
        BY <3>3, <3>4
      <3> QED
        BY <2>5, <3>2, <3>4, <3>5
    <2>7. CASE runs[r].concurrency = 1
      BY <2>1, <2>2, <2>3, <2>4, <2>7 DEF RunOK
    <2>8. CASE runs[r].concurrency > 1
      <3>1. PICK c \in Configs : /\ IsSameTaskSerial(c)
                                 /\ runs[r].list = c.list /\ runs[r].concurrency = c.concurrency
        BY <2>3 DEF RunOK
      <3>2. runs[r].list[e][1] = runs[r].list[f][1]
        BY <2>5
      <3>3. runs[r].list[e][2] = runs[r].list[f][2]
        BY <2>5, <2>8, <3>1, <3>2 DEF IsSameTaskSerial
      <3>4. runs[r].list[e] = runs[r].list[f]
        BY <2>6, <3>2, <3>3 DEF Keys
      <3>5. e = f
        BY <2>5, <3>1, <3>4 DEF NoRepeats
      <3> QED
        BY <2>1, <2>2, <3>5
    <2> QED
      BY <2>6, <2>7, <2>8
  <1> QED
    BY <1>1, RunnerInvariance, EpisodeInvariance, PTL

\* Only End makes a run one that is over.
LEMMA OverIsEnd ==
    ASSUME EpisodeInv, [Next]_vars, NEW r \in RunIds,
           runs[r].phase # "over", runs'[r].phase = "over"
    PROVE  End(r) /\ runs[r].error = "none"
  <1>1. runs \in [RunIds -> Run] /\ \A q \in RunIds : runs[q] \in Run
    BY DEF EpisodeInv, TypeOK
  <1>2. UNCHANGED runs => FALSE
    OBVIOUS
  <1>3. ASSUME NEW q \in RunIds, NEW run, runs' = [runs EXCEPT ![q] = run]
        PROVE  q = r /\ run.phase = "over"
    BY <1>1, <1>3
  <1>4. \A phase, error : Exited(phase, error).phase = phase
    BY DEF Exited, NoRun
  <1>5. ASSUME NEW q \in RunIds, NEW c \in Configs, Start(q, c)
        PROVE  FALSE
    <2>1. CASE experiment' = c.hash
      <3>1. PICK run : /\ run = [NoRun EXCEPT !.phase = "started", !.list = c.list,
                                              !.concurrency = c.concurrency]
                       /\ runs' = [runs EXCEPT ![q] = run]
        BY <1>5, <2>1 DEF Start
      <3>2. run.phase = "started"
        BY <3>1 DEF NoRun
      <3> QED
        BY <1>3, <3>1, <3>2
    <2>2. CASE experiment' # c.hash
      <3>1. PICK run : run = Exited("failed", "none")
        OBVIOUS
      <3>2. runs' = [runs EXCEPT ![q] = run]
        BY <3>1, <1>5, <2>2 DEF Start
      <3>3. run.phase = "failed"
        BY <1>4, <3>1
      <3> QED
        BY <1>3, <3>2, <3>3
    <2> QED
      BY <2>1, <2>2
  <1>6. ASSUME NEW q \in RunIds, \/ ReadCompleted(q) \/ Schedule(q) \/ Stop(q)
                                 \/ BeginGrace(q) \/ EndGrace(q) \/ BeginClosing(q)
        PROVE  FALSE
    <2>1. CASE ReadCompleted(q)
      <3>1. runs'[r].phase = runs[r].phase \/ runs'[r].phase = "read"
        BY <1>1, <2>1 DEF ReadCompleted, Run
      <3> QED
        BY <3>1
    <2>2. CASE Schedule(q)
      <3>1. runs'[r].phase = runs[r].phase \/ runs'[r].phase = "running"
        BY <1>1, <2>2 DEF Schedule, Run
      <3> QED
        BY <3>1
    <2>3. CASE Stop(q)
      <3>1. runs'[r].phase = runs[r].phase
        BY <1>1, <2>3 DEF Stop, Run
      <3> QED
        BY <3>1
    <2>4. CASE BeginGrace(q)
      <3>1. runs'[r].phase = runs[r].phase \/ runs'[r].phase = "grace"
        BY <1>1, <2>4 DEF BeginGrace, Run
      <3> QED
        BY <3>1
    <2>5. CASE EndGrace(q)
      <3>1. runs'[r].phase = runs[r].phase \/ runs'[r].phase = "abandoning"
        BY <1>1, <2>5 DEF EndGrace, Run
      <3> QED
        BY <3>1
    <2>6. CASE BeginClosing(q)
      <3>1. runs'[r].phase = runs[r].phase \/ runs'[r].phase = "closing"
        BY <1>1, <2>6 DEF BeginClosing, Run
      <3> QED
        BY <3>1
    <2> QED
      BY <1>6, <2>1, <2>2, <2>3, <2>4, <2>5, <2>6
  <1>7. ASSUME NEW q \in RunIds, StartFails(q) \/ Crash(q)
        PROVE  FALSE
    <2>1. CASE StartFails(q)
      <3>1. PICK run : run = Exited("failed", "store")
        OBVIOUS
      <3>2. runs' = [runs EXCEPT ![q] = run]
        BY <3>1, <2>1 DEF StartFails
      <3>3. run.phase = "failed"
        BY <1>4, <3>1
      <3> QED
        BY <1>3, <3>2, <3>3
    <2>2. CASE Crash(q)
      <3>1. PICK run : run = Exited("crashed", "none")
        OBVIOUS
      <3>2. runs' = [runs EXCEPT ![q] = run]
        BY <3>1, <2>2 DEF Crash
      <3>3. run.phase = "crashed"
        BY <1>4, <3>1
      <3> QED
        BY <1>3, <3>2, <3>3
    <2> QED
      BY <1>7, <2>1, <2>2
  <1>8. ASSUME NEW q \in RunIds, NEW e \in Entries,
               EpisodeStep(q, e) \/ StoreFails(q, e) \/ AbandonFails(q, e)
        PROVE  FALSE
    <2>1. CASE StayUnattempted(q, e)
      <3>1. runs'[r].phase = runs[r].phase
        BY <1>1, <2>1 DEF StayUnattempted, Run
      <3> QED
        BY <3>1
    <2>2. CASE RegisterAttempt(q, e)
      <3>1. runs'[r].phase = runs[r].phase
        BY <1>1, <2>2 DEF RegisterAttempt, Run
      <3> QED
        BY <3>1
    <2>3. CASE MarkRunning(q, e)
      <3>1. runs'[r].phase = runs[r].phase
        BY <1>1, <2>3 DEF MarkRunning, Run
      <3> QED
        BY <3>1
    <2>4. CASE \E status \in EpisodeStatus : EpisodeReturns(q, e, status)
      <3>1. runs'[r].phase = runs[r].phase
        BY <1>1, <2>4 DEF EpisodeReturns, Run
      <3> QED
        BY <3>1
    <2>5. CASE FinishAttempt(q, e)
      <3>1. runs'[r].phase = runs[r].phase
        BY <1>1, <2>5 DEF FinishAttempt, Run
      <3> QED
        BY <3>1
    <2>6. CASE Abandon(q, e)
      <3>1. runs'[r].phase = runs[r].phase
        BY <1>1, <2>6 DEF Abandon, Run
      <3> QED
        BY <3>1
    <2>7. CASE KillCancelled(q, e)
      <3>1. runs'[r].phase = runs[r].phase
        BY <1>1, <2>7 DEF KillCancelled, Run
      <3> QED
        BY <3>1
    <2>8. CASE CancellationLost(q, e)
      <3>1. runs'[r].phase = runs[r].phase
        <4>1. CASE runs' = [runs EXCEPT ![q].episodes[e] = "done"]
          BY <1>1, <4>1 DEF Run
        <4>2. CASE runs' = [runs EXCEPT ![q].episodes[e] = "done",
                                        ![q].error = IF @ = "none" THEN "conflict" ELSE @]
          BY <1>1, <4>2 DEF Run
        <4> QED
          BY <2>8, <4>1, <4>2 DEF CancellationLost
      <3> QED
        BY <3>1
    <2>9. CASE StoreFails(q, e)
      <3>1. runs'[r].phase = runs[r].phase
        BY <1>1, <2>9 DEF StoreFails, Run
      <3> QED
        BY <3>1
    <2>10. CASE AbandonFails(q, e)
      <3>1. runs'[r].phase = runs[r].phase \/ runs'[r].phase = "closing"
        BY <1>1, <2>10 DEF AbandonFails, Run
      <3> QED
        BY <3>1
    <2> QED
      BY <1>8, <2>1, <2>2, <2>3, <2>4, <2>5, <2>6, <2>7, <2>8, <2>9, <2>10 DEF EpisodeStep
  <1>9. ASSUME NEW q \in RunIds, End(q)
        PROVE  End(r) /\ runs[r].error = "none"
    <2>1. PICK phase : phase = IF runs[q].error = "none" THEN "over" ELSE "failed"
      OBVIOUS
    <2>2. PICK run : run = Exited(phase, runs[q].error)
      OBVIOUS
    <2>3. runs' = [runs EXCEPT ![q] = run]
      BY <1>9, <2>1, <2>2 DEF End
    <2>4. run.phase = phase
      BY <1>4, <2>2
    <2>5. q = r /\ phase = "over"
      BY <1>3, <2>3, <2>4
    <2> QED
      BY <1>9, <2>1, <2>5
  <1>10. ASSUME NEW a \in Attempts, OrphanEnds(a)
         PROVE  FALSE
    BY <1>10 DEF OrphanEnds
  <1> QED
    BY <1>5, <1>6, <1>7, <1>8, <1>9, <1>10 DEF Next, Advance, Disturb, vars

\* The step property of SummaryIsFinal.
SummaryStep ==
    \A r \in RunIds : runs[r].phase # "over" /\ runs'[r].phase = "over" =>
        /\ \A e \in Entries : rows[<<r, e>>].status \notin {"pending", "running"}
        /\ ~runs[r].stop => \A e \in DOMAIN runs[r].list :
              rows[<<r, e>>] # NoRow \/ runs[r].list[e] \in runs[r].completed

\* The summary that run() returns speaks of attempts that are settled, and of
\* the whole task list unless the run was stopped, for any task list,
\* concurrency and number of other runs.
THEOREM SummaryIsFinalAlways == Spec => SummaryIsFinal
  <1>1. EpisodeInv /\ [Next]_vars => [SummaryStep]_vars
    <2>. SUFFICES ASSUME EpisodeInv, [Next]_vars, NEW r \in RunIds,
                         runs[r].phase # "over", runs'[r].phase = "over"
                  PROVE  /\ \A e \in Entries : rows[<<r, e>>].status \notin {"pending", "running"}
                         /\ ~runs[r].stop => \A e \in DOMAIN runs[r].list :
                               rows[<<r, e>>] # NoRow \/ runs[r].list[e] \in runs[r].completed
      BY DEF SummaryStep
    <2>1. End(r) /\ runs[r].error = "none"
      BY OverIsEnd
    <2>2. /\ runs[r].phase \in {"running", "closing"}
          /\ \A e \in Entries : runs[r].episodes[e] \in {"none", "done"}
      BY <2>1 DEF End, Unfinished
    <2>3. \A e \in Entries : EntryOK(r, e)
      BY <2>2 DEF EpisodeInv, RunOK, Alive, Over
    <2>4. DOMAIN runs[r].list \subseteq Entries
      <3>1. runs[r] \in Run
        BY DEF EpisodeInv, TypeOK
      <3>2. PICK n \in 0 .. MaxTasks : runs[r].list \in [1 .. n -> Keys]
        BY <3>1 DEF Run
      <3> QED
        BY <3>2, BoundsAssumption DEF Entries
    <2>5. \A e \in Entries : rows[<<r, e>>].status \notin {"pending", "running"}
      BY <2>1, <2>2, <2>3 DEF EntryOK
    <2>6. ASSUME ~runs[r].stop, NEW e \in DOMAIN runs[r].list
          PROVE  rows[<<r, e>>] # NoRow \/ runs[r].list[e] \in runs[r].completed
      BY <2>1, <2>2, <2>3, <2>4, <2>6 DEF EntryOK, Starting
    <2> QED
      BY <2>5, <2>6
  <1> QED
    BY <1>1, EpisodeInvariance, PTL DEF Spec, SummaryIsFinal, SummaryStep

\* Runs that follow each other continue the numbers of a task, whatever the
\* earlier ones left: between the number and its registration nothing is
\* written about the task.  Both premises are needed: one of two lines with
\* the same task may be registered before the other, and two runners that are
\* alive number a task alike.
THEOREM AttemptsAreNumberedAlways ==
    ASSUME NoRepeats, MaxRunners = 1
    PROVE  Spec => []AttemptsAreNumbered
  <1>1. NumberInv => AttemptsAreNumbered
    BY DEF NumberInv
  <1> QED
    BY <1>1, NumberInvariance, PTL

\* No run makes an attempt of a task that an earlier run completed, or that
\* it completed itself.
THEOREM CompletedNeverRerunsAlways ==
    ASSUME NoRepeats, MaxRunners = 1
    PROVE  Spec => []CompletedNeverReruns
  <1>1. NumberInv => CompletedNeverReruns
    BY DEF NumberInv
  <1> QED
    BY <1>1, NumberInvariance, PTL
=============================================================================
