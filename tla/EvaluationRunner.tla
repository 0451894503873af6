--------------------------- MODULE EvaluationRunner ---------------------------
(* EvaluationRunner over PostgresEvaluationStore: the recoverable evaluation *)
(* loop of one experiment.  Runs (processes of the CLI) follow each other    *)
(* and read what earlier ones left; inside a run asyncio tasks share the     *)
(* concurrency, and each drives one orchestrator subprocess.                 *)
(*                                                                           *)
(* A coroutine keeps the event loop until it awaits, so a step is either one *)
(* store transaction or the code between two awaits; a crash may come        *)
(* between any two.  The shuffled order of the queue is abstracted: any      *)
(* waiting episode may be the next to get a permit.                          *)
EXTENDS Naturals, FiniteSets, Sequences, FiniteSetsExt

CONSTANTS
    TaskIds,
    MaxTasks,    \* bound on the length of a task list
    MaxRuns,     \* bound on the number of runs
    MaxRunners,  \* how many runs are alive at a time
    Hashes,      \* (purpose, config_hash) pairs
    NoHash,
    Configs      \* the RunnerConfig values runs are started with

Modes == {"c", "a"}
Keys == TaskIds \X Modes
Entries == 1 .. MaxTasks
RunIds == 1 .. MaxRuns
Attempts == RunIds \X Entries     \* attempt_id: a uuid4 per run and list entry

Config == { c \in [list : UNION { [1 .. n -> Keys] : n \in Entries },
                   concurrency : 1 .. 4, hash : Hashes] : TRUE }

ASSUME ConfigsAssumption == Configs \subseteq Config /\ NoHash \notin Hashes
ASSUME BoundsAssumption == MaxTasks \in Nat \ {0} /\ MaxRuns \in Nat \ {0} /\ MaxRunners \in Nat

VARIABLES
    experiment,  \* eval.experiment: the registered identity
    rows,        \* eval.task_attempt
    results,     \* eval.task_result
    runs,        \* the state of each runner process
    processes    \* orchestrator subprocesses that are alive

vars == <<experiment, rows, results, runs, processes>>

-----------------------------------------------------------------------------
EpisodeStatus == {"succeeded", "failed", "infrastructure_error"}
Terminal == {"succeeded", "failed"}
AttemptStatus == EpisodeStatus \cup {"pending", "running", "interrupted"}

NoRow == [key |-> <<>>, seq |-> 0, status |-> "absent"]
Row == [key : Keys, seq : Nat \ {0}, status : AttemptStatus]

Over == {"over", "failed", "crashed"}
Phases == {"new", "started", "read", "running", "grace", "abandoning", "closing"} \cup Over

\* An episode's asyncio task: waiting for a permit, between its two first
\* transactions, executing, its subprocess gone but the task not yet resumed,
\* cancelled but the cancellation not yet delivered.
EpisodeState == {"none", "waiting", "registered", "executing", "returned", "cancelled", "done"}

\* What run() will raise: an error of the store, or an EvalStateConflict.
Errors == {"none", "store", "conflict"}

NoRun == [phase |-> "new", stop |-> FALSE, error |-> "none",
          list |-> <<>>, concurrency |-> 1, completed |-> {},
          episodes |-> [e \in Entries |-> "none"],
          seq |-> [e \in Entries |-> 0],
          outcome |-> [e \in Entries |-> "none"],
          left |-> {}]

Run == [phase : Phases, stop : BOOLEAN, error : Errors,
        list : UNION { [1 .. n -> Keys] : n \in 0 .. MaxTasks }, concurrency : 1 .. 4,
        completed : SUBSET Keys,
        episodes : [Entries -> EpisodeState],
        seq : [Entries -> Nat],
        outcome : [Entries -> EpisodeStatus \cup {"none"}],
        left : SUBSET Entries]

\* A process that is gone keeps nothing.
Exited(phase, error) == [NoRun EXCEPT !.phase = phase, !.error = error]

TypeOK ==
    /\ experiment \in Hashes \cup {NoHash}
    /\ rows \in [Attempts -> Row \cup {NoRow}]
    /\ results \subseteq Attempts
    /\ runs \in [RunIds -> Run]
    /\ processes \subseteq Attempts

Init ==
    /\ experiment = NoHash
    /\ rows = [a \in Attempts |-> NoRow]
    /\ results = {}
    /\ runs = [r \in RunIds |-> NoRun]
    /\ processes = {}

Alive(r) == runs[r].phase \notin Over \cup {"new"}

-----------------------------------------------------------------------------
(* Starting: configuration, registration, what is left to do *)

\* Mutant: any task list is accepted at any concurrency.
IsAnyList(c) == TRUE

\* RunnerConfig.validate_same_task_serial
IsSameTaskSerial(c) ==
    c.concurrency > 1 =>
        \A e, f \in DOMAIN c.list : c.list[e][1] = c.list[f][1] => c.list[e][2] = c.list[f][2]

\* register_experiment: the first run fixes the identity, a later run under
\* another one fails (experiment_identity_conflict).
Start(r, c) ==
    /\ runs[r].phase = "new"
    /\ \A q \in RunIds : q < r => runs[q].phase # "new"
    /\ Cardinality({ q \in RunIds : Alive(q) }) < MaxRunners
    /\ IsSameTaskSerial(c)
    /\ experiment' = IF experiment = NoHash THEN c.hash ELSE experiment
    /\ runs' = [runs EXCEPT ![r] =
                  IF experiment' = c.hash
                  THEN [NoRun EXCEPT !.phase = "started", !.list = c.list,
                                     !.concurrency = c.concurrency]
                  ELSE Exited("failed", "none")]
    /\ UNCHANGED <<rows, results, processes>>

\* Mutant: a failed task counts as unfinished.
SucceededTasks == { rows[a].key : a \in { b \in Attempts : rows[b].status = "succeeded" } }

CompletedTasks == { rows[a].key : a \in { b \in Attempts : rows[b].status \in Terminal } }

ReadCompleted(r) ==
    /\ runs[r].phase = "started"
    /\ runs' = [runs EXCEPT ![r].phase = "read", ![r].completed = CompletedTasks]
    /\ UNCHANGED <<experiment, rows, results, processes>>

\* Mutant: every run numbers its attempts from one.
FirstSequence(key) == 1

\* unfinished_attempts: the latest attempt of each task that has no terminal one.
NextSequence(key) ==
    IF key \in CompletedTasks THEN 1
    ELSE Max({0} \cup { rows[a].seq : a \in { b \in Attempts : rows[b].key = key } }) + 1

\* Read the unfinished attempts and create one asyncio task per queued entry,
\* unless the stop event is already set.
Schedule(r) ==
    LET list == runs[r].list
        queued == { e \in DOMAIN list : list[e] \notin runs[r].completed /\ ~runs[r].stop }
        repeats(e) == Cardinality({ f \in queued : f < e /\ list[f] = list[e] })
    IN
    /\ runs[r].phase = "read"
    /\ runs' = [runs EXCEPT
                  ![r].phase = "running",
                  ![r].episodes = [e \in Entries |-> IF e \in queued THEN "waiting" ELSE "none"],
                  ![r].seq = [e \in Entries |->
                                IF e \in queued THEN NextSequence(list[e]) + repeats(e) ELSE 0]]
    /\ UNCHANGED <<experiment, rows, results, processes>>

\* The store cannot be reached before anything is scheduled.
StartFails(r) ==
    /\ runs[r].phase \in {"started", "read"}
    /\ runs' = [runs EXCEPT ![r] = Exited("failed", "store")]
    /\ UNCHANGED <<experiment, rows, results, processes>>

-----------------------------------------------------------------------------
(* _run_one *)

\* Nothing else of the run proceeds while an episode is between its first two
\* transactions, or while _mark_abandoned loops.
LoopIdle(r) ==
    /\ runs[r].phase \in {"running", "grace", "closing"}
    /\ \A e \in Entries : runs[r].episodes[e] # "registered"

\* Mutant: a permit is not returned when its episode is done.
HoldingForGood(r) == { e \in Entries : runs[r].episodes[e] \notin {"none", "waiting"} }

Holding(r) ==
    { e \in Entries : runs[r].episodes[e] \in {"registered", "executing", "returned", "cancelled"} }

HasPermit(r, e) ==
    /\ LoopIdle(r)
    /\ runs[r].episodes[e] = "waiting"
    /\ Cardinality(Holding(r)) < runs[r].concurrency

\* codex F4: the stop event arrived while the task waited for its permit.
StayUnattempted(r, e) ==
    /\ HasPermit(r, e)
    /\ runs[r].stop
    /\ runs' = [runs EXCEPT ![r].episodes[e] = "done"]
    /\ UNCHANGED <<experiment, rows, results, processes>>

\* Mutant: the stop event is not looked at after the wait for a permit.
RegisterThoughStopped(r, e) ==
    /\ HasPermit(r, e)
    /\ rows' = [rows EXCEPT ![<<r, e>>] =
                  [key |-> runs[r].list[e], seq |-> runs[r].seq[e], status |-> "pending"]]
    /\ runs' = [runs EXCEPT ![r].episodes[e] = "registered", ![r].seq[e] = 0]
    /\ UNCHANGED <<experiment, results, processes>>

RegisterAttempt(r, e) ==
    /\ HasPermit(r, e)
    /\ ~runs[r].stop
    /\ rows' = [rows EXCEPT ![<<r, e>>] =
                  [key |-> runs[r].list[e], seq |-> runs[r].seq[e], status |-> "pending"]]
    /\ runs' = [runs EXCEPT ![r].episodes[e] = "registered", ![r].seq[e] = 0]
    /\ UNCHANGED <<experiment, results, processes>>

\* mark_running, then the executor spawns the orchestrator.
MarkRunning(r, e) ==
    /\ runs[r].episodes[e] = "registered"
    /\ Alive(r)
    /\ rows[<<r, e>>].status = "pending"
    /\ rows' = [rows EXCEPT ![<<r, e>>].status = "running"]
    /\ processes' = processes \cup {<<r, e>>}
    /\ runs' = [runs EXCEPT ![r].episodes[e] = "executing"]
    /\ UNCHANGED <<experiment, results>>

\* The subprocess is gone: it ended, could not be spawned, or was killed at
\* the episode timeout.  Its task resumes later.
EpisodeReturns(r, e, status) ==
    /\ Alive(r)
    /\ <<r, e>> \in processes
    /\ runs[r].episodes[e] \in {"executing", "cancelled"}
    /\ processes' = processes \ {<<r, e>>}
    /\ runs' = [runs EXCEPT ![r].outcome[e] = status,
                            ![r].episodes[e] = IF @ = "executing" THEN "returned" ELSE @]
    /\ UNCHANGED <<experiment, rows, results>>

\* Mutant: the result is stored although the UPDATE found no running row.
FinishAnyRow(a, status) ==
    /\ rows' = IF rows[a].status = "running" THEN [rows EXCEPT ![a].status = status] ELSE rows
    /\ results' = IF status = "succeeded" THEN results \cup {a} ELSE results

\* finish_attempt in one transaction: terminal status and result together.
FinishRow(a, status) ==
    /\ rows[a].status = "running"
    /\ rows' = [rows EXCEPT ![a].status = status]
    /\ results' = IF status = "succeeded" THEN results \cup {a} ELSE results

\* error: the commit succeeded but the call still raised.
FinishAttempt(r, e) ==
    /\ LoopIdle(r)
    /\ runs[r].episodes[e] = "returned"
    /\ FinishRow(<<r, e>>, runs[r].outcome[e])
    /\ \E error \in {runs[r].error, "store"} :
         runs' = [runs EXCEPT ![r].episodes[e] = "done", ![r].outcome[e] = "none",
                              ![r].error = error]
    /\ UNCHANGED <<experiment, processes>>

\* A store call of the episode raises and writes nothing; gather reports it
\* at the end of the run.
StoreFails(r, e) ==
    /\ \/ HasPermit(r, e) /\ ~runs[r].stop
       \/ Alive(r) /\ runs[r].episodes[e] = "registered"
       \/ LoopIdle(r) /\ runs[r].episodes[e] = "returned"
    /\ runs' = [runs EXCEPT ![r].episodes[e] = "done", ![r].error = "store"]
    /\ UNCHANGED <<experiment, rows, results, processes>>

-----------------------------------------------------------------------------
(* run: stop, grace, _mark_abandoned, gather *)

Unfinished(r) == { e \in Entries : runs[r].episodes[e] \notin {"none", "done"} }

Stop(r) ==
    /\ Alive(r)
    /\ ~runs[r].stop
    /\ runs' = [runs EXCEPT ![r].stop = TRUE]
    /\ UNCHANGED <<experiment, rows, results, processes>>

BeginGrace(r) ==
    /\ LoopIdle(r)
    /\ runs[r].phase = "running"
    /\ runs[r].stop
    /\ runs' = [runs EXCEPT ![r].phase = "grace"]
    /\ UNCHANGED <<experiment, rows, results, processes>>

\* All done, or stop_grace_seconds are over.
EndGrace(r) ==
    /\ LoopIdle(r)
    /\ runs[r].phase = "grace"
    /\ runs' = [runs EXCEPT ![r].phase = "abandoning", ![r].left = Unfinished(r)]
    /\ UNCHANGED <<experiment, rows, results, processes>>

\* Mutant: a running episode is cancelled without being marked.
AbandonUnmarked(r, e) ==
    /\ runs[r].phase = "abandoning"
    /\ e \in runs[r].left
    /\ runs' = [runs EXCEPT ![r].left = @ \ {e},
                            ![r].episodes[e] = IF @ = "waiting" THEN "done" ELSE "cancelled"]
    /\ UNCHANGED <<experiment, rows, results, processes>>

\* A task that still waits has no row (the conflict is ignored) and ends at
\* once; any other is marked interrupted and its cancellation requested.
Abandon(r, e) ==
    /\ runs[r].phase = "abandoning"
    /\ e \in runs[r].left
    /\ rows' = IF rows[<<r, e>>].status = "running"
               THEN [rows EXCEPT ![<<r, e>>].status = "interrupted"] ELSE rows
    /\ runs' = [runs EXCEPT ![r].left = @ \ {e},
                            ![r].episodes[e] = IF @ = "waiting" THEN "done" ELSE "cancelled"]
    /\ UNCHANGED <<experiment, results, processes>>

\* Any other error of the store leaves run() at once; asyncio.run cancels
\* what is left.
AbandonFails(r, e) ==
    /\ runs[r].phase = "abandoning"
    /\ e \in runs[r].left
    /\ runs' = [runs EXCEPT ![r].phase = "closing", ![r].left = {}, ![r].error = "store",
                            ![r].episodes =
                               [f \in Entries |->
                                  IF @[f] = "waiting" THEN "done"
                                  ELSE IF f \in Unfinished(r) THEN "cancelled" ELSE @[f]]]
    /\ UNCHANGED <<experiment, rows, results, processes>>

BeginClosing(r) ==
    /\ runs[r].phase = "abandoning"
    /\ runs[r].left = {}
    /\ runs' = [runs EXCEPT ![r].phase = "closing"]
    /\ UNCHANGED <<experiment, rows, results, processes>>

\* Mutant: the cancelled episode leaves its orchestrator alone.
CancelWithoutKill(r, e) ==
    /\ LoopIdle(r)
    /\ runs[r].episodes[e] = "cancelled"
    /\ runs' = [runs EXCEPT ![r].episodes[e] = "done"]
    /\ UNCHANGED <<experiment, rows, results, processes>>

\* codex F5: a cancelled episode kills its orchestrator.
KillCancelled(r, e) ==
    /\ LoopIdle(r)
    /\ runs[r].episodes[e] = "cancelled"
    /\ processes' = processes \ {<<r, e>>}
    /\ runs' = [runs EXCEPT ![r].episodes[e] = "done"]
    /\ UNCHANGED <<experiment, rows, results>>

\* The subprocess had already gone when the cancellation arrived: kill() then
\* raises ProcessLookupError, which `except OSError` takes for a failed spawn
\* (or wait_for returns the finished result), and the episode goes on to
\* finish_attempt.
CancellationLost(r, e) ==
    /\ LoopIdle(r)
    /\ runs[r].episodes[e] = "cancelled"
    /\ <<r, e>> \notin processes
    /\ \/ /\ \E status \in {runs[r].outcome[e], "infrastructure_error"} : FinishRow(<<r, e>>, status)
          /\ runs' = [runs EXCEPT ![r].episodes[e] = "done"]
       \/ /\ rows[<<r, e>>].status # "running"
          /\ runs' = [runs EXCEPT ![r].episodes[e] = "done",
                                  ![r].error = IF @ = "none" THEN "conflict" ELSE @]
          /\ UNCHANGED <<rows, results>>
    /\ UNCHANGED <<experiment, processes>>

\* Every task is done: run() returns its summary, or raises what an episode
\* raised.
End(r) ==
    /\ runs[r].phase \in {"running", "closing"}
    /\ Unfinished(r) = {}
    /\ runs' = [runs EXCEPT ![r] = Exited(IF @.error = "none" THEN "over" ELSE "failed", @.error)]
    /\ UNCHANGED <<experiment, rows, results, processes>>

\* The runner process dies; its subprocesses do not.
Crash(r) ==
    /\ Alive(r)
    /\ runs' = [runs EXCEPT ![r] = Exited("crashed", "none")]
    /\ UNCHANGED <<experiment, rows, results, processes>>

OrphanEnds(a) ==
    /\ a \in processes
    /\ runs[a[1]].phase = "crashed"
    /\ processes' = processes \ {a}
    /\ UNCHANGED <<experiment, rows, results, runs>>

-----------------------------------------------------------------------------
EpisodeStep(r, e) ==
    \/ StayUnattempted(r, e)
    \/ RegisterAttempt(r, e)
    \/ MarkRunning(r, e)
    \/ \E status \in EpisodeStatus : EpisodeReturns(r, e, status)
    \/ FinishAttempt(r, e)
    \/ Abandon(r, e)
    \/ KillCancelled(r, e)
    \/ CancellationLost(r, e)

\* What a run does when nothing interferes with it.
Advance(r) ==
    \/ ReadCompleted(r)
    \/ Schedule(r)
    \/ \E e \in Entries : EpisodeStep(r, e)
    \/ BeginGrace(r)
    \/ EndGrace(r)
    \/ BeginClosing(r)
    \/ End(r)

Disturb(r) ==
    \/ Stop(r)
    \/ Crash(r)
    \/ StartFails(r)
    \/ \E e \in Entries : StoreFails(r, e) \/ AbandonFails(r, e)

Next ==
    \/ \E r \in RunIds :
        \/ \E c \in Configs : Start(r, c)
        \/ Advance(r)
        \/ Disturb(r)
    \/ \E a \in Attempts : OrphanEnds(a)

Spec == Init /\ [][Next]_vars

\* The event loop resumes every ready coroutine; the episode timeout bounds
\* every subprocess and stop_grace_seconds the grace.
FairSpec == Spec /\ \A r \in RunIds : WF_vars(Advance(r))

-----------------------------------------------------------------------------
(* Properties *)

Same(a, b) == rows[a] # NoRow /\ rows[b] # NoRow /\ rows[a].key = rows[b].key

\* A completed task never re-runs: a succeeded or failed attempt is the last
\* attempt of its task, across stops, crashes, failing stores and resumes.
CompletedNeverReruns ==
    \A a, b \in Attempts :
        a # b /\ Same(a, b) /\ rows[a].status \in Terminal => rows[b].seq < rows[a].seq

\* A resumed task is retried under a fresh attempt: the attempts of a task
\* are numbered 1, 2, ... in the order of the runs that made them.
AttemptsAreNumbered ==
    /\ \A a, b \in Attempts : Same(a, b) /\ a[1] < b[1] => rows[a].seq < rows[b].seq
    /\ \A a \in Attempts : \A n \in 1 .. rows[a].seq :
         \E b \in Attempts : Same(a, b) /\ rows[b].seq = n

\* A public result exists exactly for the succeeded attempts, and no attempt
\* that was marked interrupted acquires one later.
ResultsMatchStatus == \A a \in Attempts : a \in results <=> rows[a].status = "succeeded"

\* Pit 63: the official task database is named after the task alone, so a
\* runner never has two orchestrators of one task alive.
OneEpisodePerDatabase ==
    \A r \in RunIds : \A a, b \in { p \in processes : p[1] = r } :
        Alive(r) /\ rows[a].key[1] = rows[b].key[1] => a = b

\* codex F5: no orchestrator (a paid model loop) outlives a run that ended in
\* any way but a crash.
NoOrchestratorOutlivesItsRun ==
    \A p \in processes : runs[p[1]].phase \notin {"over", "failed"}

\* A run that returns a summary leaves no attempt pending or running, and if
\* it was not stopped every task of its list has an attempt of this run or
\* was already complete.
SummaryIsFinal ==
    [][ \A r \in RunIds : runs[r].phase # "over" /\ runs'[r].phase = "over" =>
          /\ \A e \in Entries : rows[<<r, e>>].status \notin {"pending", "running"}
          /\ ~runs[r].stop => \A e \in DOMAIN runs[r].list :
                rows[<<r, e>>] # NoRow \/ runs[r].list[e] \in runs[r].completed ]_vars

\* An interrupted task is an outcome of stopping, not a failure of the run:
\* run() returns its summary (exit code 130) unless the store failed.
StopIsNotAFailure == \A r \in RunIds : runs[r].error # "conflict"

\* codex F4: once the stop event is set no attempt is registered any more.
StopStopsClaiming ==
    [][ \A r \in RunIds : runs[r].stop =>
          \A e \in Entries : rows[<<r, e>>] = NoRow => rows'[<<r, e>>] = NoRow ]_vars

\* Every run ends: whatever waits for a permit gets one or is cancelled, and
\* a stopped run does not wait for its episodes longer than the grace.
RunsEnd == \A r \in RunIds : runs[r].phase = "started" ~> runs[r].phase \in Over
=============================================================================
