--------------------------- MODULE BirdSessionProofs ---------------------------
(* Theorems about BirdSession, for any number of runs and sessions, budgets,  *)
(* costs, batches and tasks with one phase or two.                            *)
EXTENDS BirdSession, TLAPS

-----------------------------------------------------------------------------
(* The invariant *)

Numbers == 0 .. made
Phases == 1 .. 2

IsRun(x, sessions) ==
    /\ DOMAIN x = DOMAIN NewRun
    /\ x.session \in sessions
    /\ x.pc \notin {"idle", "ended"} => x.session # NoSession
    /\ x.reply \in Replies

Shape ==
    /\ made \in 0 .. MaxSessions
    /\ current \in Numbers
    /\ DOMAIN state = Sessions
    /\ \A s \in Sessions : DOMAIN state[s] = DOMAIN Unseeded
    /\ DOMAIN run = Runs
    /\ \A r \in Runs : IsRun(run[r], Numbers)
    /\ DOMAIN env = {"phase", "passedBy"}
    /\ env.phase \in 1 .. Over
    /\ DOMAIN env.passedBy = Phases
    /\ \A p \in Phases : env.passedBy[p] \in Numbers

\* A reply on its way that says a phase was passed.
Tells(r, p) == run[r].pc = "replying" /\ run[r].reply.passed = p

Flag(s, p) == IF p = 1 THEN state[s].phase1 ELSE state[s].phase2

\* Such a reply is to a submission of its session, and true.
RepliesAreTrue ==
    \A r \in Runs, p \in Phases : Tells(r, p) =>
        /\ run[r].reply = Passed(p)
        /\ Action(r) = "submit_sql"
        /\ env.passedBy[p] = run[r].session
        /\ p = 2 \/ ~HasFollowUp => env.phase = Over

\* A phase is passed once.
PhasesAreOpen ==
    /\ env.phase = 1 => env.passedBy[1] = NoSession
    /\ env.phase # Over => env.passedBy[2] = NoSession

\* What the environment knows the session knows, or the reply that says so is
\* under way, or was lost.
FlagsAreKnown ==
    \A s \in Sessions :
        /\ \A p \in Phases :
              /\ Flag(s, p) => env.passedBy[p] = s
              /\ env.passedBy[p] = s =>
                    Flag(s, p) \/ s \in lost \/ \E r \in Runs : run[r].session = s /\ Tells(r, p)
        /\ state[s].done => env.phase = Over

FlagsInv == Shape /\ RepliesAreTrue /\ PhasesAreOpen /\ FlagsAreKnown

-----------------------------------------------------------------------------
(* Facts about the data *)

LEMMA Fields ==
    /\ DOMAIN NewRun = {"pc", "session", "calls", "tools", "batch", "asked", "last", "sent", "paid", "reply"}
    /\ DOMAIN Unseeded = {"seeded", "budget", "asks", "turns", "submitted", "last", "phase1", "phase2", "done"}
    /\ NewRun.pc = "idle" /\ NewRun.session = 0 /\ NewRun.reply = NoReply
    /\ NoSession = 0 /\ Over = 3
  BY DEF NewRun, NewState, Unseeded, NoSession, Over

LEMMA ReplyFields ==
    /\ NoReply.passed = 0 /\ Success.passed = 0 /\ RejectedResult.passed = 0
    /\ \A p \in Phases : /\ Passed(p).passed = p /\ Passed(p).status = "success"
                         /\ (Passed(p).followUp <=> (p = 1 /\ HasFollowUp))
    /\ {NoReply, Success, RejectedResult} \subseteq Replies
    /\ \A p \in Phases : Passed(p) \in Replies
    /\ \A reply \in Replies, p \in Phases : reply.passed = p => reply = Passed(p)
  <1>1. /\ NoReply.passed = 0 /\ Success.passed = 0 /\ RejectedResult.passed = 0
    BY DEF NoReply, Success, RejectedResult
  <1>2. \A p \in Phases : /\ Passed(p).passed = p /\ Passed(p).status = "success"
                         /\ (Passed(p).followUp <=> (p = 1 /\ HasFollowUp))
    BY PortAssumption DEF Passed, Phases
  <1>3. \A reply \in Replies : \/ reply \in {NoReply, Success, RejectedResult}
                              \/ \E p \in Phases : reply = Passed(p)
    BY DEF Replies, Phases
  <1>4. /\ {NoReply, Success, RejectedResult} \subseteq Replies
        /\ \A p \in Phases : Passed(p) \in Replies
    BY DEF Replies, Phases
  <1>5. 0 \notin Phases
    BY DEF Phases
  <1>6. ASSUME NEW reply \in Replies, NEW p \in Phases, reply.passed = p
        PROVE  reply = Passed(p)
    <2>1. reply \notin {NoReply, Success, RejectedResult}
      BY <1>1, <1>5, <1>6
    <2>2. PICK q \in Phases : reply = Passed(q)
      BY <1>3, <2>1
    <2>3. q = p
      BY <1>2, <1>6, <2>2, Zenon
    <2> QED
      BY <2>2, <2>3
  <1> QED
    BY <1>1, <1>2, <1>4, <1>6, Zenon

\* The records that replace a run keep its shape.
LEMMA EndedRun ==
    ASSUME NEW s, NEW sessions, s \in sessions
    PROVE  LET x == [NewRun EXCEPT !.pc = "ended", !.session = s] IN
           IsRun(x, sessions) /\ x.pc = "ended" /\ x.session = s
  BY Fields, ReplyFields DEF IsRun

-----------------------------------------------------------------------------
(* Steps that tell a session nothing *)

Telling(r) == \E p \in Phases : Tells(r, p)

LEMMA QuietStep ==
    ASSUME FlagsInv, Shape', env' = env, lost' = lost, made' >= made,
           \A r \in Runs : run'[r] = run[r] \/ (~Telling(r) /\ ~Telling(r)'),
           \A s \in Sessions :
              \/ /\ \A p \in Phases : Flag(s, p)' <=> Flag(s, p)
                 /\ state'[s].done <=> state[s].done
              \/ s > made /\ ~state'[s].phase1 /\ ~state'[s].phase2 /\ ~state'[s].done
    PROVE  FlagsInv'
  <1>1. \A r \in Runs, p \in Phases : Tells(r, p)' <=> Tells(r, p)
    BY DEF Telling, Tells
  <1>2. \A r \in Runs, p \in Phases : Tells(r, p) => run'[r] = run[r]
    BY DEF Telling
  <1>3. RepliesAreTrue'
    BY <1>1, <1>2 DEF FlagsInv, RepliesAreTrue, Action
  <1>4. PhasesAreOpen'
    BY DEF FlagsInv, PhasesAreOpen
  <1>5. ASSUME NEW s \in Sessions, NEW p \in Phases
        PROVE  /\ Flag(s, p)' => env.passedBy[p] = s
               /\ env.passedBy[p] = s =>
                    Flag(s, p)' \/ s \in lost \/ \E r \in Runs : run'[r].session = s /\ Tells(r, p)'
    <2>1. s > made => env.passedBy[p] # s
      BY DEF FlagsInv, Shape, Numbers, Sessions
    <2>2. s > made /\ ~state'[s].phase1 /\ ~state'[s].phase2 => ~Flag(s, p)'
      BY DEF Flag
    <2> QED
      BY <1>1, <1>2, <2>1, <2>2 DEF FlagsInv, FlagsAreKnown
  <1>6. FlagsAreKnown'
    BY <1>5 DEF FlagsInv, FlagsAreKnown
  <1> QED
    BY <1>3, <1>4, <1>6 DEF FlagsInv

\* What a session knows of the phases stays, but for one that is made anew.
SameFlags ==
    \A s \in Sessions :
       \/ /\ state'[s].phase1 = state[s].phase1 /\ state'[s].phase2 = state[s].phase2
          /\ state'[s].done = state[s].done
       \/ s > made /\ ~state'[s].phase1 /\ ~state'[s].phase2 /\ ~state'[s].done

SameSessions == DOMAIN state' = Sessions /\ \A s \in Sessions : DOMAIN state'[s] = DOMAIN Unseeded

\* A step of one run that neither had such a reply nor gets one.
LEMMA SilentRun ==
    ASSUME FlagsInv, NEW r \in Runs, NEW x, run' = [run EXCEPT ![r] = x],
           IsRun(x, 0 .. made'), x.pc = "replying" => x.reply.passed = 0, ~Telling(r),
           made' \in made .. MaxSessions, current' \in 0 .. made',
           SameSessions, SameFlags, UNCHANGED <<env, lost>>
    PROVE  FlagsInv'
  <1>0. made \in Nat /\ made' \in Nat /\ Numbers \subseteq Numbers'
    BY DEF FlagsInv, Shape, Numbers
  <1>1. \A q \in Runs : run'[q] = IF q = r THEN x ELSE run[q]
    BY DEF FlagsInv, Shape
  <1>2. Shape'
    <2>1. \A q \in Runs : IsRun(run'[q], Numbers')
      BY <1>0, <1>1 DEF FlagsInv, Shape, IsRun, Numbers
    <2> QED
      BY <1>0, <2>1, BirdAssumption DEF FlagsInv, Shape, SameSessions, Numbers
  <1>3. ~Telling(r)'
    BY <1>1 DEF Telling, Tells, Phases
  <1>4. \A s \in Sessions :
              \/ /\ \A p \in Phases : Flag(s, p)' <=> Flag(s, p)
                 /\ state'[s].done <=> state[s].done
              \/ s > made /\ ~state'[s].phase1 /\ ~state'[s].phase2 /\ ~state'[s].done
    BY DEF SameFlags, Flag
  <1> QED
    BY <1>0, <1>1, <1>2, <1>3, <1>4, QuietStep

-----------------------------------------------------------------------------
(* The steps *)

\* What a step that goes on makes of the record of a run.
LEMMA NextRun ==
    ASSUME NEW x, NEW sessions, IsRun(x, sessions), x.session # NoSession,
           NEW y, DOMAIN y = DOMAIN x, y.session = x.session, y.reply = x.reply
    PROVE  IsRun(y, sessions)
  BY DEF IsRun

LEMMA SilentSteps ==
    ASSUME FlagsInv, NEW r \in Runs,
           \/ StopLoop(r) \/ AskModel(r) \/ ModelEnds(r)
           \/ \E batch \in Batches \cup Candidates : ModelAsksTools(r, batch)
           \/ Refuse(r) \/ SendAction(r) \/ NextTurn(r) \/ StopRepeated(r)
    PROVE  FlagsInv'
  <1>. DEFINE x == run[r]
  <1>0. /\ IsRun(x, Numbers) /\ DOMAIN x = DOMAIN NewRun /\ r \in DOMAIN run
        /\ made \in 0 .. MaxSessions /\ current \in Numbers /\ MaxSessions \in Nat
        /\ DOMAIN state = Sessions /\ \A s \in Sessions : DOMAIN state[s] = DOMAIN Unseeded
    BY BirdAssumption DEF FlagsInv, Shape, IsRun
  <1>1. x.pc \in {"loop", "asking", "executing"} /\ UNCHANGED <<env, lost, made, current>>
    BY DEF StopLoop, AskModel, ModelEnds, ModelAsksTools, Refuse, SendAction, NextTurn,
           StopRepeated, IsBatchDone, OnlyRun
  <1>2. ~Telling(r) /\ x.session # NoSession
    BY <1>0, <1>1 DEF Telling, Tells, IsRun
  <1>3. SameSessions /\ SameFlags
    <2>1. ASSUME NEW s \in Sessions, NEW y, DOMAIN y = DOMAIN Unseeded,
                 y.phase1 = state[s].phase1, y.phase2 = state[s].phase2, y.done = state[s].done,
                 state' = [state EXCEPT ![s] = y]
          PROVE  SameSessions /\ SameFlags
      BY <1>0, <2>1 DEF SameSessions, SameFlags
    <2>2. x.session \in Sessions
      BY <1>0, <1>2 DEF IsRun, Numbers, Sessions, NoSession
    <2>3. CASE state' = state
      BY <1>0, <2>3 DEF SameSessions, SameFlags
    <2>4. CASE AskModel(r) /\ state' # state
      <3>. DEFINE y == [state[x.session] EXCEPT !.turns = @ + 1]
      <3>1. state' = [state EXCEPT ![x.session] = y]
        BY <2>4 DEF AskModel
      <3>2. /\ DOMAIN y = DOMAIN Unseeded
            /\ y.phase1 = state[x.session].phase1 /\ y.phase2 = state[x.session].phase2
            /\ y.done = state[x.session].done
        BY <1>0, <2>2, Fields
      <3>. HIDE DEF y
      <3> QED
        BY <2>1, <2>2, <3>1, <3>2
    <2>5. CASE SendAction(r) /\ state' # state
      <3>. DEFINE y == Charged(state[x.session], Action(r))
      <3>1. state' = [state EXCEPT ![x.session] = y]
        BY <2>5 DEF SendAction
      <3>2. /\ DOMAIN y = DOMAIN Unseeded
            /\ y.phase1 = state[x.session].phase1 /\ y.phase2 = state[x.session].phase2
            /\ y.done = state[x.session].done
        BY <1>0, <2>2, Fields DEF Charged
      <3>. HIDE DEF y
      <3> QED
        BY <2>1, <2>2, <3>1, <3>2
    <2> QED
      BY <2>3, <2>4, <2>5 DEF StopLoop, ModelEnds, ModelAsksTools, Refuse, NextTurn, StopRepeated, OnlyRun
  <1>4. ASSUME NEW y, run' = [run EXCEPT ![r] = y], IsRun(y, Numbers), y.pc # "replying"
        PROVE  FlagsInv'
    <2>1. /\ made' \in made .. MaxSessions /\ current' \in 0 .. made' /\ IsRun(y, 0 .. made')
          /\ UNCHANGED <<env, lost>> /\ (y.pc = "replying" => y.reply.passed = 0)
      BY <1>0, <1>1, <1>4 DEF Numbers
    <2> QED
      BY <1>2, <1>3, <1>4, <2>1, SilentRun, Zenon
  <1>5. ASSUME NEW y, run' = [run EXCEPT ![r] = y], DOMAIN y = DOMAIN x, y.session = x.session,
               y.reply = x.reply, y.pc # "replying"
        PROVE  FlagsInv'
    BY <1>0, <1>2, <1>4, <1>5, NextRun
  <1>6. CASE Ended(r)
    <2>. DEFINE y == [NewRun EXCEPT !.pc = "ended", !.session = x.session]
    <2>1. run' = [run EXCEPT ![r] = y]
      BY <1>6 DEF Ended
    <2>2. IsRun(y, Numbers) /\ y.pc # "replying"
      BY <1>0, EndedRun DEF IsRun
    <2>. HIDE DEF y
    <2> QED
      BY <1>4, <2>1, <2>2
  <1>7. CASE AskModel(r)
    <2>. DEFINE y == [x EXCEPT !.pc = "asking", !.calls = @ + 1]
    <2>1. run' = [run EXCEPT ![r] = y]
      BY <1>0, <1>7 DEF AskModel
    <2>2. DOMAIN y = DOMAIN x /\ y.session = x.session /\ y.reply = x.reply /\ y.pc # "replying"
      BY <1>0, Fields
    <2>. HIDE DEF y
    <2> QED
      BY <1>5, <2>1, <2>2
  <1>8. ASSUME NEW batch, ModelAsksTools(r, batch), ~Ended(r)
        PROVE  FlagsInv'
    <2>. DEFINE y == [x EXCEPT !.pc = "executing", !.batch = batch, !.asked = batch,
                            !.tools = IF setup.mode = "a" THEN @ + Len(batch) ELSE @]
    <2>1. run' = [run EXCEPT ![r] = y]
      BY <1>0, <1>8 DEF ModelAsksTools
    <2>2. DOMAIN y = DOMAIN x /\ y.session = x.session /\ y.reply = x.reply /\ y.pc # "replying"
      BY <1>0, Fields
    <2>. HIDE DEF y
    <2> QED
      BY <1>5, <2>1, <2>2
  <1>9. CASE Refuse(r)
    <2>. DEFINE y == [x EXCEPT !.batch = Tail(@)]
    <2>1. run' = [run EXCEPT ![r] = y]
      BY <1>0, <1>9 DEF Refuse
    <2>2. DOMAIN y = DOMAIN x /\ y.session = x.session /\ y.reply = x.reply /\ y.pc # "replying"
      BY <1>0, <1>1, Fields
    <2>. HIDE DEF y
    <2> QED
      BY <1>5, <2>1, <2>2
  <1>10. CASE SendAction(r)
    <2>. DEFINE y == [x EXCEPT !.pc = "sending", !.sent = 1,
                            !.paid = IF setup.mode = "a" /\ ~IsFreeExit(SessionOf(r), Action(r))
                                     THEN Cost[Action(r)] ELSE 0]
    <2>1. run' = [run EXCEPT ![r] = y]
      BY <1>0, <1>10 DEF SendAction
    <2>2. DOMAIN y = DOMAIN x /\ y.session = x.session /\ y.reply = x.reply /\ y.pc # "replying"
      BY <1>0, Fields
    <2>. HIDE DEF y
    <2> QED
      BY <1>5, <2>1, <2>2
  <1>11. CASE NextTurn(r) /\ ~Ended(r)
    <2>. DEFINE y == [x EXCEPT !.pc = "loop", !.last = IF setup.mode = "a" THEN x.asked ELSE <<>>,
                            !.asked = <<>>]
    <2>1. run' = [run EXCEPT ![r] = y]
      BY <1>0, <1>11 DEF NextTurn
    <2>2. DOMAIN y = DOMAIN x /\ y.session = x.session /\ y.reply = x.reply /\ y.pc # "replying"
      BY <1>0, Fields
    <2>. HIDE DEF y
    <2> QED
      BY <1>5, <2>1, <2>2
  <1> QED
    BY <1>6, <1>7, <1>8, <1>9, <1>10, <1>11 DEF StopLoop, ModelEnds, StopRepeated

\* Sessions are made and runs begin.
LEMMA SessionSteps ==
    ASSUME FlagsInv, InitSession \/ \E r \in Runs : RunSession(r)
    PROVE  FlagsInv'
  <1>0. /\ made \in 0 .. MaxSessions /\ current \in Numbers /\ MaxSessions \in Nat
        /\ DOMAIN state = Sessions /\ \A s \in Sessions : DOMAIN state[s] = DOMAIN Unseeded
    BY BirdAssumption DEF FlagsInv, Shape
  <1>1. CASE InitSession
    <2>1. made' = made + 1 /\ made' \in Sessions /\ current' = made' /\ UNCHANGED <<run, env, lost>>
          /\ state' = [state EXCEPT ![made + 1] = NewState(CoinBudget, TRUE)]
      BY <1>0, <1>1 DEF InitSession, Sessions
    <2>2. SameSessions /\ SameFlags
      <3>. DEFINE y == NewState(CoinBudget, TRUE)
      <3>1. DOMAIN y = DOMAIN Unseeded /\ ~y.phase1 /\ ~y.phase2 /\ ~y.done
        BY DEF NewState, Unseeded
      <3>. DEFINE new == made + 1
      <3>4. state' = [state EXCEPT ![new] = y]
        BY <2>1
      <3>. HIDE DEF y, new
      <3>2. \A s \in Sessions : state'[s] = IF s = new THEN y ELSE state[s]
        BY <1>0, <3>4
      <3>. USE DEF new
      <3>3. made + 1 > made /\ DOMAIN state' = Sessions
        BY <1>0, <2>1
      <3> QED
        BY <1>0, <3>1, <3>2, <3>3 DEF SameSessions, SameFlags
    <2>3. Shape'
      <3>1. Numbers \subseteq Numbers'
        BY <1>0, <2>1 DEF Numbers
      <3>2. \A r \in Runs : IsRun(run[r], Numbers')
        BY <3>1 DEF FlagsInv, Shape, IsRun
      <3>3. \A p \in Phases : env.passedBy[p] \in Numbers'
        BY <3>1 DEF FlagsInv, Shape
      <3>4. /\ made' = made + 1 /\ made' \in Sessions /\ current' = made' /\ UNCHANGED <<run, env, lost>>
            /\ DOMAIN state' = Sessions /\ \A s \in Sessions : DOMAIN state'[s] = DOMAIN Unseeded
        BY <2>1, <2>2 DEF SameSessions
      <3> QED
        BY <1>0, <3>2, <3>3, <3>4 DEF FlagsInv, Shape, Sessions, Numbers
    <2>4. \A s \in Sessions :
              \/ /\ \A p \in Phases : Flag(s, p)' <=> Flag(s, p)
                 /\ state'[s].done <=> state[s].done
              \/ s > made /\ ~state'[s].phase1 /\ ~state'[s].phase2 /\ ~state'[s].done
      BY <2>2 DEF SameFlags, Flag
    <2>5. made' >= made /\ \A r \in Runs : run'[r] = run[r]
      BY <1>0, <2>1
    <2> QED
      BY <2>1, <2>3, <2>4, <2>5, QuietStep
  <1>2. ASSUME NEW r \in Runs, RunSession(r)
        PROVE  FlagsInv'
    <2>. DEFINE s == IF current = NoSession THEN made + 1 ELSE current
    <2>1. /\ s \in Sessions /\ current' = s /\ made' = (IF s > made THEN s ELSE made)
          /\ state' = [state EXCEPT ![s] = Entered(state[s])]
          /\ run[r].pc = "idle" /\ UNCHANGED <<env, lost>>
      BY <1>0, <1>2 DEF RunSession
    <2>2. SameSessions /\ SameFlags
      <3>. DEFINE y == Entered(state[s])
      <3>1. /\ DOMAIN y = DOMAIN Unseeded
            /\ y.phase1 = state[s].phase1 /\ y.phase2 = state[s].phase2 /\ y.done = state[s].done
        BY <1>0, <2>1, Fields DEF Entered
      <3>3. state' = [state EXCEPT ![s] = y]
        BY <2>1
      <3>. HIDE DEF y, s
      <3>2. DOMAIN state' = Sessions /\ \A q \in Sessions : state'[q] = IF q = s THEN y ELSE state[q]
        BY <1>0, <3>3
      <3> QED
        BY <1>0, <3>1, <3>2 DEF SameSessions, SameFlags
    <2>3. ~Telling(r)
      BY <2>1 DEF Telling, Tells
    <2>4. made' \in made .. MaxSessions /\ current' \in 0 .. made' /\ s \in 0 .. made' /\ s # NoSession
      <3>1. s \in Nat /\ s <= MaxSessions /\ s # NoSession /\ (s > made => s = made + 1)
        BY <1>0, <2>1 DEF Numbers, Sessions, NoSession, RunSession
      <3>. HIDE DEF s
      <3> QED
        BY <1>0, <2>1, <3>1
    <2>. DEFINE y == [run[r] EXCEPT !.session = s,
                                    !.pc = IF setup.mode = "c" /\ setup.ablation /\ state[s].last = "failed"
                                           THEN "ended" ELSE "loop"]
    <2>5. run' = [run EXCEPT ![r] = y]
      BY <1>2 DEF RunSession
    <2>6. IsRun(y, 0 .. made') /\ y.pc # "replying"
      <3>1. DOMAIN run[r] = DOMAIN NewRun /\ run[r].reply \in Replies
        BY DEF FlagsInv, Shape, IsRun
      <3>2. DOMAIN y = DOMAIN NewRun /\ y.session = s /\ y.reply = run[r].reply /\ y.pc \in {"ended", "loop"}
        BY <3>1, Fields
      <3>. HIDE DEF y, s
      <3> QED
        BY <2>4, <3>1, <3>2 DEF IsRun
    <2>. HIDE DEF y, s
    <2> QED
      BY <2>1, <2>2, <2>3, <2>4, <2>5, <2>6, SilentRun, Zenon
  <1> QED
    BY <1>1, <1>2

\* Requests and replies that are lost, also with the process.
LEMMA LossStep ==
    ASSUME FlagsInv, Shape', UNCHANGED <<env, state>>, lost \subseteq lost',
           \A r \in Runs : \/ run'[r] = run[r]
                           \/ run'[r].pc # "replying" /\ (Telling(r) => run[r].session \in lost')
    PROVE  FlagsInv'
  <1>1. \A r \in Runs, p \in Phases : Tells(r, p)' => run'[r] = run[r]
    BY DEF Tells
  <1>2. RepliesAreTrue' /\ PhasesAreOpen'
    BY <1>1 DEF FlagsInv, RepliesAreTrue, PhasesAreOpen, Tells, Action
  <1>3. \A s, p : Flag(s, p)' <=> Flag(s, p)
    BY DEF Flag
  <1>4. ASSUME NEW s \in Sessions, NEW p \in Phases, env.passedBy[p] = s
        PROVE  Flag(s, p) \/ s \in lost' \/ \E r \in Runs : run'[r].session = s /\ Tells(r, p)'
    <2>1. CASE Flag(s, p) \/ s \in lost
      BY <2>1
    <2>2. ASSUME NEW r \in Runs, run[r].session = s, Tells(r, p)
          PROVE  s \in lost' \/ (run'[r].session = s /\ Tells(r, p)')
      BY <2>2 DEF Telling, Tells
    <2> QED
      BY <1>4, <2>1, <2>2 DEF FlagsInv, FlagsAreKnown
  <1>5. FlagsAreKnown'
    BY <1>3, <1>4 DEF FlagsInv, FlagsAreKnown
  <1> QED
    BY <1>2, <1>5 DEF FlagsInv

LEMMA LossSteps ==
    ASSUME FlagsInv, ServerRestarts \/ \E r \in Runs : ReplyLost(r)
    PROVE  FlagsInv'
  <1>0. DOMAIN run = Runs /\ \A r \in Runs : IsRun(run[r], Numbers) /\ DOMAIN run[r] = DOMAIN NewRun
    BY DEF FlagsInv, Shape, IsRun
  <1>1. CASE ServerRestarts
    <2>. DEFINE gone(r) == [NewRun EXCEPT !.pc = "ended", !.session = run[r].session]
    <2>1. /\ run' = [r \in Runs |-> IF r \in InFlight THEN gone(r) ELSE run[r]]
          /\ UNCHANGED <<env, state, made>> /\ current' = 0
          /\ lost' = lost \cup { run[r].session : r \in { q \in InFlight : run[q].pc \in {"sending", "replying"} } }
      BY <1>1, Fields DEF ServerRestarts
    <2>2. \A r \in Runs : IsRun(gone(r), Numbers) /\ gone(r).pc = "ended"
      BY <1>0, EndedRun DEF IsRun
    <2>. HIDE DEF gone
    <2>3. \A r \in Runs : run'[r] = run[r] \/ run'[r] = gone(r)
      BY <2>1
    <2>4. DOMAIN run' = Runs /\ \A r \in Runs : IsRun(run'[r], Numbers)
      BY <1>0, <2>1, <2>2, <2>3
    <2>5. Shape'
      BY <2>1, <2>4 DEF FlagsInv, Shape, Numbers
    <2>6. \A r \in Runs : Telling(r) => run[r].session \in lost'
      BY <2>1 DEF Telling, Tells, InFlight
    <2> QED
      BY <2>1, <2>2, <2>3, <2>5, <2>6, LossStep
  <1>2. ASSUME NEW r \in Runs, ReplyLost(r)
        PROVE  FlagsInv'
    <2>1. Telling(r) => Action(r) = "submit_sql"
      BY DEF FlagsInv, RepliesAreTrue, Telling
    <2>2. /\ UNCHANGED <<env, state, made, current>> /\ lost \subseteq lost'
          /\ Telling(r) => run[r].session \in lost'
          /\ run[r].session # NoSession
      BY <1>0, <1>2, <2>1 DEF ReplyLost, IsRun
    <2>3. ASSUME NEW y, run' = [run EXCEPT ![r] = y], IsRun(y, Numbers), y.pc # "replying"
          PROVE  FlagsInv'
      <3>1. \A q \in Runs : run'[q] = IF q = r THEN y ELSE run[q]
        BY <1>0, <2>3
      <3>2. Shape'
        BY <1>0, <2>2, <2>3, <3>1 DEF FlagsInv, Shape, Numbers
      <3> QED
        BY <2>2, <2>3, <3>1, <3>2, LossStep
    <2>4. CASE Ended(r)
      <3>. DEFINE y == [NewRun EXCEPT !.pc = "ended", !.session = run[r].session]
      <3>1. run' = [run EXCEPT ![r] = y]
        BY <2>4 DEF Ended
      <3>2. IsRun(y, Numbers) /\ y.pc # "replying"
        BY <1>0, EndedRun DEF IsRun
      <3>. HIDE DEF y
      <3> QED
        BY <2>3, <3>1, <3>2
    <2>5. CASE ~Ended(r)
      <3>. DEFINE y == [run[r] EXCEPT !.pc = "sending", !.sent = @ + 1, !.reply = NoReply]
      <3>1. run' = [run EXCEPT ![r] = y]
        BY <1>2, <2>5 DEF ReplyLost
      <3>2. DOMAIN y = DOMAIN NewRun /\ y.session = run[r].session /\ y.reply = NoReply /\ y.pc = "sending"
        BY <1>0, Fields
      <3>. HIDE DEF y
      <3>3. IsRun(y, Numbers)
        BY <1>0, <2>2, <3>2, ReplyFields DEF IsRun
      <3> QED
        BY <2>3, <3>1, <3>2, <3>3
    <2> QED
      BY <2>4, <2>5
  <1> QED
    BY <1>1, <1>2

\* The services answer with what tells a session of no phase.
LEMMA SilentReplies ==
    ASSUME FlagsInv, NEW r \in Runs,
           \/ ServiceRejects(r)
           \/ ServiceExecutes(r, Success) /\ UNCHANGED env
    PROVE  FlagsInv'
  <1>. DEFINE x == run[r]
  <1>0. /\ IsRun(x, Numbers) /\ DOMAIN x = DOMAIN NewRun /\ DOMAIN run = Runs
        /\ made \in 0 .. MaxSessions /\ current \in Numbers /\ MaxSessions \in Nat
    BY BirdAssumption DEF FlagsInv, Shape, IsRun
  <1>1. x.pc = "sending" /\ UNCHANGED <<env, lost, state, made, current>>
    BY DEF ServiceRejects, ServiceExecutes, OnlyRun
  <1>2. ~Telling(r) /\ x.session # NoSession
    BY <1>0, <1>1 DEF Telling, Tells, IsRun
  <1>3. SameSessions /\ SameFlags
    BY <1>1 DEF FlagsInv, Shape, SameSessions, SameFlags
  <1>4. ASSUME NEW y, run' = [run EXCEPT ![r] = y], IsRun(y, Numbers),
               y.pc = "replying" => y.reply.passed = 0
        PROVE  FlagsInv'
    <2>1. /\ made' \in made .. MaxSessions /\ current' \in 0 .. made' /\ IsRun(y, 0 .. made')
          /\ UNCHANGED <<env, lost>>
      BY <1>0, <1>1, <1>4 DEF Numbers
    <2> QED
      BY <1>2, <1>3, <1>4, <2>1, SilentRun, Zenon
  <1>5. CASE Ended(r)
    <2>. DEFINE y == [NewRun EXCEPT !.pc = "ended", !.session = x.session]
    <2>1. run' = [run EXCEPT ![r] = y]
      BY <1>5 DEF Ended
    <2>2. IsRun(y, Numbers) /\ y.pc # "replying"
      BY <1>0, EndedRun DEF IsRun
    <2>. HIDE DEF y
    <2> QED
      BY <1>4, <2>1, <2>2
  <1>6. CASE ServiceRejects(r) /\ ~Ended(r)
    <2>. DEFINE y == [x EXCEPT !.pc = "replying", !.reply = RejectedResult]
    <2>1. run' = [run EXCEPT ![r] = y]
      BY <1>0, <1>6 DEF ServiceRejects
    <2>2. DOMAIN y = DOMAIN NewRun /\ y.session = x.session /\ y.reply = RejectedResult
      BY <1>0, Fields
    <2>. HIDE DEF y
    <2>3. IsRun(y, Numbers)
      BY <1>0, <1>2, <2>2, ReplyFields DEF IsRun
    <2> QED
      BY <1>4, <2>1, <2>2, <2>3, ReplyFields
  <1>7. CASE ServiceExecutes(r, Success)
    <2>. DEFINE y == [x EXCEPT !.pc = "replying", !.paid = 0, !.reply = Success]
    <2>1. run' = [run EXCEPT ![r] = y]
      BY <1>0, <1>7 DEF ServiceExecutes
    <2>2. DOMAIN y = DOMAIN NewRun /\ y.session = x.session /\ y.reply = Success
      BY <1>0, Fields
    <2>. HIDE DEF y
    <2>3. IsRun(y, Numbers)
      BY <1>0, <1>2, <2>2, ReplyFields DEF IsRun
    <2> QED
      BY <1>4, <2>1, <2>2, <2>3, ReplyFields
  <1> QED
    BY <1>5, <1>6, <1>7

\* A submission passes the phase the task is in.
LEMMA PassingStep ==
    ASSUME FlagsInv, NEW r \in Runs, env.phase # Over,
           ServiceExecutes(r, Passed(env.phase)), Action(r) = "submit_sql",
           env' = [phase |-> IF Passed(env.phase).followUp THEN 2 ELSE Over,
                   passedBy |-> [env.passedBy EXCEPT ![env.phase] = run[r].session]]
    PROVE  FlagsInv'
  <1>. DEFINE x == run[r]
              s == run[r].session
              now == env.phase
              y == [x EXCEPT !.pc = "replying", !.paid = 0, !.reply = Passed(now)]
  <1>0. /\ IsRun(x, Numbers) /\ DOMAIN x = DOMAIN NewRun /\ DOMAIN run = Runs
        /\ x.pc = "sending" /\ UNCHANGED <<lost, state, made, current>>
        /\ x.session # NoSession /\ now \in Phases
        /\ Numbers' = Numbers
    BY Fields DEF FlagsInv, Shape, IsRun, ServiceExecutes, Phases, Numbers
  <1>1. run' = [run EXCEPT ![r] = y]
    BY <1>0 DEF ServiceExecutes
  <1>2. /\ DOMAIN y = DOMAIN NewRun /\ y.session = s /\ y.reply = Passed(now) /\ y.pc = "replying"
        /\ y.batch = x.batch
    BY <1>0, Fields
  <1>. HIDE DEF y
  <1>3. \A q \in Runs : run'[q] = IF q = r THEN y ELSE run[q]
    BY <1>0, <1>1
  <1>4. \A p \in Phases : env'.passedBy[p] = IF p = now THEN s ELSE env.passedBy[p]
    BY <1>0 DEF FlagsInv, Shape
  <1>5. env'.phase = IF now = 1 /\ HasFollowUp THEN 2 ELSE Over
    BY <1>0, ReplyFields, Zenon
  <1>6. Shape'
    <2>1. \A q \in Runs : IsRun(run'[q], Numbers)
      BY <1>0, <1>2, <1>3, ReplyFields DEF FlagsInv, Shape, IsRun
    <2>2. \A p \in Phases : env'.passedBy[p] \in Numbers
      BY <1>0, <1>4 DEF FlagsInv, Shape, IsRun
    <2>3. DOMAIN env' = {"phase", "passedBy"} /\ DOMAIN env'.passedBy = Phases /\ env'.phase \in 1 .. Over
      BY <1>5, Fields DEF FlagsInv, Shape
    <2> QED
      BY <1>0, <1>1, <2>1, <2>2, <2>3 DEF FlagsInv, Shape
  <1>7. env.passedBy[now] = NoSession
    BY <1>0 DEF FlagsInv, PhasesAreOpen, Phases
  <1>8. \A q \in Runs : ~Tells(q, now)
    BY <1>0, <1>7 DEF FlagsInv, RepliesAreTrue, Shape, IsRun, Tells
  <1>9. \A q \in Runs, p \in Phases : Tells(q, p)' <=> IF q = r THEN p = now ELSE Tells(q, p)
    BY <1>0, <1>2, <1>3, ReplyFields DEF Tells
  <1>10. RepliesAreTrue'
    <2>1. ASSUME NEW q \in Runs, NEW p \in Phases, Tells(q, p)'
          PROVE  /\ run'[q].reply = Passed(p)
                 /\ Head(run'[q].batch) = "submit_sql"
                 /\ env'.passedBy[p] = run'[q].session
                 /\ p = 2 \/ ~HasFollowUp => env'.phase = Over
      <3>1. CASE q = r
        BY <1>2, <1>3, <1>4, <1>5, <1>9, <2>1, <3>1 DEF Action
      <3>2. CASE q # r
        <4>1. Tells(q, p) /\ run'[q] = run[q] /\ p # now
          BY <1>3, <1>8, <1>9, <2>1, <3>2
        <4>2. ~(p = 2 \/ ~HasFollowUp)
          BY <4>1 DEF FlagsInv, RepliesAreTrue
        <4> QED
          BY <1>4, <4>1, <4>2 DEF FlagsInv, RepliesAreTrue, Action
      <3> QED
        BY <3>1, <3>2
    <2> QED
      BY <2>1 DEF RepliesAreTrue, Action
  <1>11. PhasesAreOpen'
    BY <1>0, <1>4, <1>5, Fields DEF FlagsInv, PhasesAreOpen, Phases
  <1>12. FlagsAreKnown'
    <2>1. \A q \in Sessions : state'[q] = state[q] /\ q # NoSession
      BY <1>0 DEF Sessions, NoSession
    <2>2. ASSUME NEW q \in Sessions, NEW p \in Phases
          PROVE  /\ Flag(q, p)' => env'.passedBy[p] = q
                 /\ env'.passedBy[p] = q =>
                       Flag(q, p)' \/ q \in lost' \/ \E e \in Runs : run'[e].session = q /\ Tells(e, p)'
      <3>1. Flag(q, p)' <=> Flag(q, p)
        BY <2>1 DEF Flag
      <3>2. CASE p = now
        BY <1>2, <1>3, <1>4, <1>7, <1>9, <2>1, <3>1, <3>2 DEF FlagsInv, FlagsAreKnown
      <3>3. CASE p # now
        <4>1. env'.passedBy[p] = env.passedBy[p] /\ ~Tells(r, p)
          BY <1>0, <1>4, <3>3 DEF Tells
        <4> QED
          BY <1>0, <1>3, <1>9, <3>1, <4>1 DEF FlagsInv, FlagsAreKnown
      <3> QED
        BY <3>2, <3>3
    <2>3. \A q \in Sessions : state'[q].done => env'.phase = Over
      BY <2>1 DEF FlagsInv, FlagsAreKnown
    <2> QED
      BY <2>2, <2>3 DEF FlagsAreKnown
  <1> QED
    BY <1>6, <1>10, <1>11, <1>12 DEF FlagsInv

\* What a reply does to the flags of its session.
LEMMA RepliesSetFlags ==
    ASSUME NEW session, DOMAIN session = DOMAIN Unseeded, NEW action, NEW reply \in Replies
    PROVE  LET after == AfterTool(session, action, reply) IN
           /\ DOMAIN after = DOMAIN Unseeded
           /\ reply.passed \notin Phases =>
                 /\ after.phase1 = session.phase1 /\ after.phase2 = session.phase2
                 /\ after.done = session.done
           /\ action = "submit_sql" => \A p \in Phases : reply = Passed(p) =>
                 /\ after.phase1 <=> (session.phase1 \/ p = 1)
                 /\ after.phase2 <=> (session.phase2 \/ p = 2)
                 /\ after.done <=> (session.done \/ p = 2 \/ ~HasFollowUp)
  <1>. DEFINE after == AfterTool(session, action, reply)
              told == Submitted(session, reply)
  <1>1. /\ DOMAIN told = DOMAIN Unseeded
        /\ reply.passed \notin Phases =>
              /\ told.phase1 = session.phase1 /\ told.phase2 = session.phase2
              /\ told.done = session.done
        /\ \A p \in Phases : reply = Passed(p) =>
              /\ told.phase1 <=> (session.phase1 \/ p = 1)
              /\ told.phase2 <=> (session.phase2 \/ p = 2)
              /\ told.done <=> (session.done \/ p = 2 \/ ~HasFollowUp)
    <2>1. CASE reply.status # "success"
      <3>1. told = session /\ \A p \in Phases : reply # Passed(p)
        BY <2>1, ReplyFields DEF Submitted
      <3> QED
        BY <3>1
    <2>2. CASE reply.status = "success" /\ reply.passed = 0
      <3>1. told = [session EXCEPT !.last = "failed"] /\ \A p \in Phases : reply # Passed(p)
        BY <2>2, ReplyFields DEF Submitted, Phases
      <3> QED
        BY <3>1, Fields
    <2>3. CASE reply.status = "success" /\ reply.passed # 0
      <3>1. PICK p \in Phases : reply = Passed(p)
        BY <2>3, ReplyFields DEF Replies, Phases
      <3>2. reply.passed = p /\ (reply.followUp <=> (p = 1 /\ HasFollowUp))
        BY <3>1, ReplyFields
      <3>3. told = [session EXCEPT !.last = "passed",
                         !.phase1 = @ \/ reply.passed = 1,
                         !.phase2 = @ \/ reply.passed = 2,
                         !.done = @ \/ reply.passed = 2 \/ ~reply.followUp]
        BY <2>3 DEF Submitted
      <3>. HIDE DEF told
      <3>4. /\ DOMAIN told = DOMAIN Unseeded
            /\ told.phase1 <=> (session.phase1 \/ p = 1)
            /\ told.phase2 <=> (session.phase2 \/ p = 2)
            /\ told.done <=> (session.done \/ p = 2 \/ ~reply.followUp)
        BY <3>2, <3>3, Fields
      <3>5. \A q \in Phases : reply = Passed(q) => q = p
        BY <3>2, ReplyFields
      <3>6. ~reply.followUp <=> (p = 2 \/ ~HasFollowUp)
        BY <3>2 DEF Phases
      <3> QED
        BY <3>2, <3>4, <3>5, <3>6
    <2> QED
      BY <2>1, <2>2, <2>3
  <1>. HIDE DEF told
  <1>2. CASE action = "submit_sql"
    <2>1. after = [told EXCEPT !.submitted = @ \/ setup.mode = "c"]
      BY <1>2 DEF AfterTool, told
    <2>. HIDE DEF after
    <2>2. /\ DOMAIN after = DOMAIN told /\ after.phase1 = told.phase1 /\ after.phase2 = told.phase2
          /\ after.done = told.done
      BY <1>1, <2>1, Fields
    <2>3. /\ DOMAIN after = DOMAIN Unseeded
          /\ reply.passed \notin Phases =>
                /\ after.phase1 = session.phase1 /\ after.phase2 = session.phase2
                /\ after.done = session.done
          /\ action = "submit_sql" => \A p \in Phases : reply = Passed(p) =>
                /\ after.phase1 <=> (session.phase1 \/ p = 1)
                /\ after.phase2 <=> (session.phase2 \/ p = 2)
                /\ after.done <=> (session.done \/ p = 2 \/ ~HasFollowUp)
      BY <1>1, <2>2
    <2> QED
      BY <2>3 DEF after
  <1>3. CASE action # "submit_sql"
    <2>1. after = session \/ after = [session EXCEPT !.asks = @ + 1]
      BY <1>3 DEF AfterTool
    <2>2. /\ DOMAIN after = DOMAIN Unseeded /\ after.phase1 = session.phase1
          /\ after.phase2 = session.phase2 /\ after.done = session.done
      BY <2>1, Fields
    <2> QED
      BY <1>3, <2>2
  <1> QED
    BY <1>2, <1>3

\* A reply reaches its run.
LEMMA ReplyStep ==
    ASSUME FlagsInv, NEW r \in Runs, ReplyArrives(r)
    PROVE  FlagsInv'
  <1>. DEFINE x == run[r]
              s == run[r].session
              after == AfterTool(state[s], Action(r), x.reply)
              y == [x EXCEPT !.pc = "executing", !.batch = Tail(@), !.sent = 0, !.reply = NoReply]
  <1>0. /\ IsRun(x, Numbers) /\ DOMAIN x = DOMAIN NewRun /\ DOMAIN run = Runs /\ x.reply \in Replies
        /\ x.pc = "replying" /\ UNCHANGED <<env, lost, made, current>> /\ Numbers' = Numbers
        /\ s \in Sessions /\ s # NoSession
        /\ made \in 0 .. MaxSessions /\ current \in Numbers /\ MaxSessions \in Nat
        /\ DOMAIN state = Sessions /\ \A q \in Sessions : DOMAIN state[q] = DOMAIN Unseeded
    BY BirdAssumption, Fields DEF FlagsInv, Shape, IsRun, ReplyArrives, Numbers, Sessions
  <1>1. run' = [run EXCEPT ![r] = y]
    BY <1>0 DEF ReplyArrives
  <1>2. DOMAIN y = DOMAIN NewRun /\ y.session = s /\ y.reply = NoReply /\ y.pc = "executing"
    BY <1>0, Fields
  <1>3. state' = [state EXCEPT ![s] = after]
    BY DEF ReplyArrives
  <1>4. /\ DOMAIN after = DOMAIN Unseeded
        /\ x.reply.passed \notin Phases =>
              /\ after.phase1 = state[s].phase1 /\ after.phase2 = state[s].phase2
              /\ after.done = state[s].done
        /\ Action(r) = "submit_sql" => \A p \in Phases : x.reply = Passed(p) =>
              /\ after.phase1 <=> (state[s].phase1 \/ p = 1)
              /\ after.phase2 <=> (state[s].phase2 \/ p = 2)
              /\ after.done <=> (state[s].done \/ p = 2 \/ ~HasFollowUp)
    BY <1>0, RepliesSetFlags
  <1>. HIDE DEF y, after
  <1>5. /\ \A q \in Runs : run'[q] = IF q = r THEN y ELSE run[q]
        /\ \A q \in Sessions : state'[q] = IF q = s THEN after ELSE state[q]
        /\ DOMAIN run' = Runs /\ DOMAIN state' = Sessions
    BY <1>0, <1>1, <1>3
  <1>6. IsRun(y, Numbers) /\ IsRun(y, 0 .. made')
    BY <1>0, <1>2, ReplyFields DEF IsRun, Numbers
  <1>7. SameSessions
    BY <1>0, <1>4, <1>5 DEF SameSessions
  <1>8. CASE ~Telling(r)
    <2>1. x.reply.passed \notin Phases
      BY <1>0, <1>8 DEF Telling, Tells
    <2>2. SameFlags
      BY <1>4, <1>5, <2>1 DEF SameFlags
    <2>3. made' \in made .. MaxSessions /\ current' \in 0 .. made' /\ y.pc # "replying"
      BY <1>0, <1>2 DEF Numbers
    <2>4. UNCHANGED <<env, lost>>
      BY <1>0
    <2> QED
      BY <1>1, <1>2, <1>6, <1>7, <1>8, <2>2, <2>3, <2>4, SilentRun, Zenon
  <1>9. ASSUME NEW now \in Phases, Tells(r, now)
        PROVE  FlagsInv'
    <2>1. /\ x.reply = Passed(now) /\ Action(r) = "submit_sql" /\ env.passedBy[now] = s
          /\ now = 2 \/ ~HasFollowUp => env.phase = Over
      BY <1>9 DEF FlagsInv, RepliesAreTrue
    <2>2. /\ after.phase1 <=> (state[s].phase1 \/ now = 1)
          /\ after.phase2 <=> (state[s].phase2 \/ now = 2)
          /\ after.done <=> (state[s].done \/ now = 2 \/ ~HasFollowUp)
      BY <1>4, <2>1
    <2>3. Shape'
      <3>1. \A q \in Runs : IsRun(run'[q], Numbers)
        BY <1>5, <1>6 DEF FlagsInv, Shape
      <3> QED
        BY <1>0, <1>5, <1>7, <3>1 DEF FlagsInv, Shape, SameSessions
    <2>4. \A q \in Runs, p \in Phases : Tells(q, p)' <=> (q # r /\ Tells(q, p))
      BY <1>2, <1>5 DEF Tells
    <2>5. RepliesAreTrue'
      <3>1. ASSUME NEW q \in Runs, NEW p \in Phases, Tells(q, p)'
            PROVE  /\ run'[q].reply = Passed(p)
                   /\ Head(run'[q].batch) = "submit_sql"
                   /\ env'.passedBy[p] = run'[q].session
                   /\ p = 2 \/ ~HasFollowUp => env'.phase = Over
        <4>1. q # r /\ Tells(q, p) /\ run'[q] = run[q]
          BY <1>5, <2>4, <3>1
        <4> QED
          BY <1>0, <4>1 DEF FlagsInv, RepliesAreTrue, Action
      <3> QED
        BY <3>1 DEF RepliesAreTrue, Action
    <2>6. PhasesAreOpen'
      BY <1>0 DEF FlagsInv, PhasesAreOpen
    <2>7. \A q \in Sessions, p \in Phases : Flag(q, p)' <=> (Flag(q, p) \/ (q = s /\ p = now))
      BY <1>5, <2>2 DEF Flag, Phases
    <2>8. ASSUME NEW q \in Sessions, NEW p \in Phases
          PROVE  /\ Flag(q, p)' => env.passedBy[p] = q
                 /\ env.passedBy[p] = q =>
                       Flag(q, p)' \/ q \in lost \/ \E e \in Runs : run'[e].session = q /\ Tells(e, p)'
      <3>1. Flag(q, p)' => env.passedBy[p] = q
        BY <2>1, <2>7 DEF FlagsInv, FlagsAreKnown
      <3>2. ASSUME env.passedBy[p] = q, ~Flag(q, p)', q \notin lost
            PROVE  \E e \in Runs : run'[e].session = q /\ Tells(e, p)'
        <4>1. ~Flag(q, p) /\ ~(q = s /\ p = now)
          BY <2>7, <3>2
        <4>2. PICK e \in Runs : run[e].session = q /\ Tells(e, p)
          BY <3>2, <4>1 DEF FlagsInv, FlagsAreKnown
        <4>3. e # r
          <5>1. Tells(r, p) => p = now
            BY <1>9 DEF Tells
          <5> QED
            BY <4>1, <4>2, <5>1
        <4> QED
          BY <1>5, <2>4, <4>2, <4>3
      <3> QED
        BY <3>1, <3>2
    <2>9. \A q \in Sessions : state'[q].done => env.phase = Over
      BY <1>5, <2>1, <2>2 DEF FlagsInv, FlagsAreKnown
    <2>10. FlagsAreKnown'
      BY <1>0, <2>8, <2>9 DEF FlagsAreKnown
    <2> QED
      BY <2>3, <2>5, <2>6, <2>10 DEF FlagsInv
  <1> QED
    BY <1>8, <1>9 DEF Telling

-----------------------------------------------------------------------------
(* Types, and what the runs of c-interact say of their session *)

\* The orchestrator starts a run of c-interact when the one before it ended.
SerialC == \A x \in Setups : x.mode = "c" => ~x.overlap

RunRecord ==
    [pc : Points, session : Sessions \cup {NoSession}, calls : 0 .. MaxModelTurns,
     tools : 0 .. MaxModelTurns, batch : Seq(Actions), asked : Seq(Actions), last : Seq(Actions),
     sent : 0 .. MaxStatelessAttempts, paid : Nat, reply : Replies]

IsWorking(x) == x.pc \notin {"idle", "ended"}
IsAtService(x) == x.pc \in {"sending", "replying"}

\* A question that the simulator answered and the session does not know of.
Answered(x) == IF x.pc = "replying" /\ Head(x.batch) = "ask_user" /\ x.reply = Success THEN 1 ELSE 0

\* The calls under way of a run: in c-interact each took a turn of the session.
Due(x) == Len(x.batch) + IF x.pc = "asking" THEN 1 ELSE 0

\* A run, its session, and the questions answered in the phase.
Agree(x, session, answers) ==
    /\ IsAtService(x) => x.batch # <<>>
    /\ setup.mode = "c" /\ IsWorking(x) =>
         /\ x.calls <= session.turns
         /\ session.asks + Due(x) <= session.turns
         /\ answers <= session.asks + Answered(x)
         /\ IsAtService(x) /\ Head(x.batch) = "ask_user" => session.asks < Questions(session)

SessionTypes ==
    /\ setup \in Setups
    /\ state \in [Sessions -> SessionState]
    /\ made \in 0 .. MaxSessions
    /\ current \in 0 .. made
    /\ run \in [Runs -> RunRecord]
    /\ env \in [phase : 1 .. Over, passedBy : [1 .. 2 -> Sessions \cup {NoSession}]]
    /\ spent \in [Sessions -> Nat]
    /\ asked \in [Sessions -> Nat]
    /\ lost \subseteq Sessions

SessionInv ==
    /\ SessionTypes
    /\ \A r \in Runs : run[r].pc = "idle" => run[r] = NewRun
    /\ \A r \in Runs : IsWorking(run[r]) =>
          /\ run[r].session \in 1 .. made
          /\ Agree(run[r], state[run[r].session], asked[run[r].session])
    /\ \A s \in Sessions : s > made => asked[s] = 0
    /\ setup.mode = "c" =>
          /\ \A q, r \in Runs : IsWorking(run[q]) /\ IsWorking(run[r]) => q = r
          /\ \A s \in Sessions : asked[s] <= Questions(state[s])

LEMMA RunFields ==
    ASSUME NEW x \in RunRecord
    PROVE  /\ DOMAIN x = {"pc", "session", "calls", "tools", "batch", "asked", "last", "sent", "paid", "reply"}
           /\ x.pc \in Points /\ x.session \in Sessions \cup {NoSession}
           /\ x.calls \in 0 .. MaxModelTurns /\ x.tools \in 0 .. MaxModelTurns
           /\ x.batch \in Seq(Actions) /\ x.asked \in Seq(Actions) /\ x.last \in Seq(Actions)
           /\ x.sent \in 0 .. MaxStatelessAttempts /\ x.paid \in Nat /\ x.reply \in Replies
  BY DEF RunRecord

\* The questions of a session, of which it has asked no more.
LEMMA QuestionsOf ==
    ASSUME NEW session \in SessionState
    PROVE  /\ Questions(session) \in Nat /\ session.asks \in 0 .. Questions(session)
           /\ session.turns \in 0 .. MaxModelTurns /\ MaxModelTurns \in Nat
           /\ ~session.seeded => Questions(session) = MaxModelTurns
           /\ session.seeded => Questions(session) = MaxTurn
           /\ session.seeded \in BOOLEAN
  BY BirdAssumption DEF SessionState, SessionRecord, Questions

LEMMA NewRunType ==
    /\ NewRun \in RunRecord
    /\ \A s \in Sessions \cup {NoSession} :
          LET x == [NewRun EXCEPT !.pc = "ended", !.session = s] IN
          x \in RunRecord /\ x.pc = "ended" /\ x.session = s /\ x.paid = 0
  <1>1. NewRun \in RunRecord
    <2>1. <<>> \in Seq(Actions) /\ NoReply \in Replies /\ NoSession = 0
      BY ReplyFields DEF NoSession
    <2>2. 0 \in 0 .. MaxModelTurns /\ 0 \in 0 .. MaxStatelessAttempts
      BY BirdAssumption, PortAssumption
    <2> QED
      BY <2>1, <2>2 DEF NewRun, RunRecord, Points
  <1>2. NewRun.paid = 0
    BY DEF NewRun
  <1> QED
    BY <1>1, <1>2 DEF RunRecord, Points

\* What is known of a run at work and its session.
LEMMA WorkingSession ==
    ASSUME SessionInv, NEW r \in Runs, IsWorking(run[r])
    PROVE  /\ run \in [Runs -> RunRecord] /\ run[r] \in RunRecord
           /\ run[r].session \in 1 .. made /\ run[r].session \in Sessions
           /\ state \in [Sessions -> SessionState] /\ state[run[r].session] \in SessionState
           /\ asked \in [Sessions -> Nat] /\ asked[run[r].session] \in Nat
           /\ Agree(run[r], state[run[r].session], asked[run[r].session])
  <1>1. /\ run[r].session \in 1 .. made
        /\ Agree(run[r], state[run[r].session], asked[run[r].session])
    BY DEF SessionInv
  <1>2. /\ run \in [Runs -> RunRecord] /\ state \in [Sessions -> SessionState]
        /\ asked \in [Sessions -> Nat] /\ made \in 0 .. MaxSessions
    BY DEF SessionInv, SessionTypes
  <1>3. run[r].session \in Sessions
    BY <1>1, <1>2, BirdAssumption DEF Sessions
  <1> QED
    BY <1>1, <1>2, <1>3

\* A step of one run that is at work.
LEMMA StepOfOneRun ==
    ASSUME SessionInv, NEW r \in Runs, IsWorking(run[r]),
           NEW x \in RunRecord, run' = [run EXCEPT ![r] = x],
           x.session = run[r].session, x.pc # "idle",
           NEW session \in SessionState, state' = [state EXCEPT ![run[r].session] = session],
           NEW answers \in Nat, asked' = [asked EXCEPT ![run[r].session] = answers],
           env' \in [phase : 1 .. Over, passedBy : [1 .. 2 -> Sessions \cup {NoSession}]],
           spent' \in [Sessions -> Nat], lost' \subseteq Sessions,
           UNCHANGED <<setup, made, current>>,
           IsWorking(x) => Agree(x, session, answers),
           setup.mode = "c" => answers <= Questions(session)
    PROVE  SessionInv'
  <1>1. /\ run[r].session \in 1 .. made /\ run[r].session \in Sessions
        /\ setup' = setup /\ made' = made
    BY WorkingSession
  <1>2. /\ \A q \in Runs : run'[q] = IF q = r THEN x ELSE run[q]
        /\ \A s \in Sessions : /\ state'[s] = IF s = run[r].session THEN session ELSE state[s]
                               /\ asked'[s] = IF s = run[r].session THEN answers ELSE asked[s]
    BY DEF SessionInv, SessionTypes
  <1>3. SessionTypes'
    BY <1>1 DEF SessionInv, SessionTypes
  <1>4. ASSUME NEW q \in Runs, IsWorking(run'[q])
        PROVE  /\ run'[q].session \in 1 .. made
               /\ Agree(run'[q], state'[run'[q].session], asked'[run'[q].session])
    <2>1. CASE q = r
      BY <1>1, <1>2, <1>4, <2>1
    <2>2. CASE q # r
      <3>1. run'[q] = run[q] /\ IsWorking(run[q])
        BY <1>2, <1>4, <2>2
      <3>2. run[q].session \in 1 .. made /\ Agree(run[q], state[run[q].session], asked[run[q].session])
        BY <3>1 DEF SessionInv
      <3>3. setup.mode # "c"
        BY <2>2, <3>1 DEF SessionInv
      <3> QED
        BY <3>1, <3>2, <3>3 DEF Agree
    <2> QED
      BY <2>1, <2>2
  <1>7. \A q \in Runs : run'[q].pc = "idle" => run'[q] = NewRun
    BY <1>2 DEF SessionInv
  <1>5. ASSUME setup.mode = "c"
        PROVE  /\ \A p, q \in Runs : IsWorking(run'[p]) /\ IsWorking(run'[q]) => p = q
               /\ \A s \in Sessions : asked'[s] <= Questions(state'[s])
    BY <1>2, <1>5 DEF SessionInv
  <1>8. \A s \in Sessions : s > made => asked'[s] = 0
    <2>1. \A s \in 1 .. made : ~(s > made)
      BY DEF SessionInv, SessionTypes
    <2> QED
      BY <1>1, <1>2, <2>1 DEF SessionInv
  <1>9. \A s \in Sessions : Questions(state'[s]) = Questions(state[s])'
    BY DEF Questions
  <1>6. \A q \in Runs : Agree(run'[q], state'[run'[q].session], asked'[run'[q].session]) =>
                        Agree(run[q], state[run[q].session], asked[run[q].session])'
    BY <1>1 DEF Agree, IsWorking, IsAtService, Answered, Due, Questions
  <1> QED
    BY <1>1, <1>3, <1>4, <1>5, <1>6, <1>7, <1>8, <1>9 DEF SessionInv, IsWorking

\* One that leaves its session alone.
LEMMA StepOfRunAlone ==
    ASSUME SessionInv, NEW r \in Runs, IsWorking(run[r]),
           NEW x \in RunRecord, run' = [run EXCEPT ![r] = x],
           x.session = run[r].session, x.pc # "idle",
           env' \in [phase : 1 .. Over, passedBy : [1 .. 2 -> Sessions \cup {NoSession}]],
           spent' \in [Sessions -> Nat], lost' \subseteq Sessions,
           UNCHANGED <<setup, made, current, state, asked>>,
           IsWorking(x) => Agree(x, state[run[r].session], asked[run[r].session])
    PROVE  SessionInv'
  <1>1. /\ run[r].session \in Sessions
        /\ state \in [Sessions -> SessionState] /\ asked \in [Sessions -> Nat]
    BY WorkingSession
  <1>2. PICK session \in SessionState, answers \in Nat :
           session = state[run[r].session] /\ answers = asked[run[r].session]
    BY <1>1
  <1>3. /\ state' = [state EXCEPT ![run[r].session] = session]
        /\ asked' = [asked EXCEPT ![run[r].session] = answers]
    BY <1>1, <1>2
  <1>4. setup.mode = "c" => answers <= Questions(session)
    BY <1>1, <1>2 DEF SessionInv
  <1> QED
    BY <1>2, <1>3, <1>4, StepOfOneRun

LEMMA EndStep ==
    ASSUME SessionInv, NEW r \in Runs, IsWorking(run[r]), Ended(r), lost' \subseteq Sessions,
           UNCHANGED <<env, setup, state, made, current, spent, asked>>
    PROVE  SessionInv'
  <1>1. PICK x : x = [NewRun EXCEPT !.pc = "ended", !.session = run[r].session]
    OBVIOUS
  <1>2. run[r].session \in Sessions
    BY WorkingSession
  <1>3. x \in RunRecord /\ x.session = run[r].session /\ x.pc # "idle" /\ ~IsWorking(x)
    BY <1>1, <1>2, NewRunType DEF IsWorking
  <1>4. run' = [run EXCEPT ![r] = x]
    BY <1>1 DEF Ended
  <1>5. /\ env' \in [phase : 1 .. Over, passedBy : [1 .. 2 -> Sessions \cup {NoSession}]]
        /\ spent' \in [Sessions -> Nat]
    BY DEF SessionInv, SessionTypes
  <1> QED
    BY <1>3, <1>4, <1>5, StepOfRunAlone

LEMMA BatchesOfActions ==
    /\ \A batch \in Batches \cup Candidates : batch \in Seq(Actions) /\ batch # <<>>
    /\ \A batch \in Seq(Actions) : batch # <<>> => Head(batch) \in Actions /\ Tail(batch) \in Seq(Actions)
  <1>1. \A batch \in Candidates : batch \in Seq(Actions) /\ batch # <<>>
    <2>1. \A a \in Actions : <<a>> \in Seq(Actions) /\ <<a>> # <<>>
      OBVIOUS
    <2>2. "ask_user" \in Actions /\ "submit_sql" \in Actions
      BY DEF Actions
    <2> QED
      BY <2>1, <2>2 DEF Candidates
  <1>2. \A batch \in Batches : batch \in Seq(Actions) /\ batch # <<>>
    BY BirdAssumption
  <1>3. \A batch \in Seq(Actions) : batch # <<>> => Head(batch) \in Actions /\ Tail(batch) \in Seq(Actions)
    OBVIOUS
  <1> QED
    BY <1>1, <1>2, <1>3

\* What a submission and a question cost a session, and that it can pay.
LEMMA ChargedTypes ==
    ASSUME NEW session \in SessionState, NEW action \in Actions, setup.mode = "a",
           ~IsRefused(session, action)
    PROVE  /\ Charged(session, action) \in SessionState
           /\ ~IsFreeExit(session, action) =>
                 Charged(session, action).budget \in {-1, session.budget - Cost[action]} /\ session.budget >= Cost[action]
           /\ IsFreeExit(session, action) => Charged(session, action).budget = -1
  <1>. DEFINE left == session.budget - Cost[action]
              budget == IF action = "submit_sql" /\ left <= 0 THEN -1 ELSE left
  <1>1. session.budget \in -1 .. CoinBudget /\ Cost[action] \in Nat /\ CoinBudget \in Nat
    BY BirdAssumption DEF SessionState, SessionRecord, Questions
  <1>2. /\ budget \in -1 .. CoinBudget
        /\ ~IsFreeExit(session, action) => budget \in {-1, left} /\ session.budget >= Cost[action]
        /\ IsFreeExit(session, action) => budget = -1
    BY <1>1 DEF IsRefused, IsFreeExit
  <1>3. PICK b : b = budget
    OBVIOUS
  <1>4. Charged(session, action) = [session EXCEPT !.budget = b]
    BY <1>3 DEF Charged
  <1>. HIDE DEF budget
  <1>5. Charged(session, action) \in SessionState /\ Charged(session, action).budget = b
    BY <1>2, <1>3, <1>4 DEF SessionState, SessionRecord, Questions
  <1> QED
    BY <1>2, <1>3, <1>5

LEMMA WorkingSteps ==
    ASSUME SessionInv, NEW r \in Runs,
           \/ AskModel(r) \/ \E batch \in Batches \cup Candidates : ModelAsksTools(r, batch)
           \/ Refuse(r) \/ SendAction(r) \/ NextTurn(r)
           \/ StopLoop(r) \/ ModelEnds(r) \/ StopRepeated(r)
    PROVE  SessionInv'
  <1>0. /\ IsWorking(run[r])
        /\ run[r] \in RunRecord /\ run \in [Runs -> RunRecord]
        /\ run[r].session \in Sessions
        /\ state \in [Sessions -> SessionState] /\ state[run[r].session] \in SessionState
        /\ Agree(run[r], state[run[r].session], asked[run[r].session])
        /\ asked[run[r].session] \in Nat
    <2>1. IsWorking(run[r])
      BY DEF IsWorking, AskModel, ModelAsksTools, Refuse, SendAction, NextTurn, IsBatchDone,
             StopLoop, ModelEnds, StopRepeated
    <2> QED
      BY <2>1, WorkingSession
  <1>1. /\ env' \in [phase : 1 .. Over, passedBy : [1 .. 2 -> Sessions \cup {NoSession}]]
        /\ spent' \in [Sessions -> Nat] /\ lost' \subseteq Sessions
        /\ UNCHANGED <<env, setup, made, current, asked, spent, lost>>
    BY DEF SessionInv, SessionTypes, AskModel, ModelAsksTools, Refuse, SendAction, NextTurn,
           StopLoop, ModelEnds, StopRepeated, OnlyRun
  <1>2. PICK old : old = run[r]
    OBVIOUS
  <1>3. PICK session : session = state[run[r].session]
    OBVIOUS
  <1>4. /\ DOMAIN old = {"pc", "session", "calls", "tools", "batch", "asked", "last", "sent", "paid", "reply"}
        /\ old.calls \in 0 .. MaxModelTurns /\ old.tools \in 0 .. MaxModelTurns /\ MaxModelTurns \in Nat
        /\ old.batch \in Seq(Actions) /\ old \in RunRecord
    BY <1>0, <1>2, RunFields, BirdAssumption
  <1>5. CASE Ended(r) /\ UNCHANGED state
    BY <1>0, <1>1, <1>5, EndStep
  <1>6. CASE AskModel(r)
    <2>1. PICK x : x = [old EXCEPT !.pc = "asking", !.calls = @ + 1]
      OBVIOUS
    <2>2. run' = [run EXCEPT ![r] = x]
      BY <1>0, <1>2, <1>6, <2>1 DEF AskModel
    <2>3. old.pc = "loop" /\ MayAsk(r)
      BY <1>2, <1>6 DEF AskModel
    <2>4. old.calls + 1 \in 0 .. MaxModelTurns
      <3>1. CASE setup.mode = "a"
        BY <1>2, <1>4, <2>3, <3>1 DEF MayAsk
      <3>2. CASE setup.mode # "a"
        <4>1. setup.mode = "c"
          BY <3>2, BirdAssumption DEF SessionInv, SessionTypes, Modes
        <4>2. session.turns \in Nat /\ session.turns < MaxModelTurns
          BY <1>0, <1>3, <1>4, <2>3, <3>2 DEF MayAsk, SessionOf, SessionState, SessionRecord, Questions
        <4>3. old.calls <= session.turns
          BY <1>0, <1>2, <1>3, <4>1 DEF Agree
        <4> QED
          BY <1>4, <4>2, <4>3
      <3> QED
        BY <3>1, <3>2
    <2>5. /\ x \in RunRecord /\ x.session = run[r].session /\ x.pc = "asking"
          /\ x.calls = old.calls + 1
      BY <1>2, <1>4, <2>1, <2>4 DEF RunRecord, Points
    <2>6. CASE setup.mode = "a"
      <3>1. Agree(x, session, asked[run[r].session])
        BY <2>5, <2>6 DEF Agree, IsAtService
      <3>2. UNCHANGED state
        BY <1>6, <2>6 DEF AskModel
      <3> QED
        BY <1>0, <1>1, <1>3, <2>2, <2>5, <3>1, <3>2, StepOfRunAlone
    <2>7. CASE setup.mode # "a"
      <3>1. setup.mode = "c"
        BY <2>7, BirdAssumption DEF SessionInv, SessionTypes, Modes
      <3>2. PICK next : next = [session EXCEPT !.turns = @ + 1]
        OBVIOUS
      <3>3. state' = [state EXCEPT ![run[r].session] = next]
        BY <1>0, <1>3, <1>6, <2>7, <3>2 DEF AskModel
      <3>4. session.turns \in 0 .. MaxModelTurns /\ session.turns < MaxModelTurns
        BY <1>0, <1>3, <2>3, <2>7 DEF MayAsk, SessionOf, SessionState, SessionRecord, Questions
      <3>5. next \in SessionState /\ next.turns = session.turns + 1 /\ next.asks = session.asks
        <4>1. PICK turns : turns = session.turns + 1
          OBVIOUS
        <4>2. turns \in 0 .. MaxModelTurns
          BY <1>4, <3>4, <4>1
        <4>3. session \in SessionState /\ next = [session EXCEPT !.turns = turns]
          BY <1>0, <1>3, <3>2, <4>1
        <4>4. /\ next \in SessionState /\ next.turns = turns /\ next.asks = session.asks
          BY <4>2, <4>3 DEF SessionState, SessionRecord, Questions
        <4> QED
          BY <4>1, <4>4
      <3>6. /\ old.calls <= session.turns /\ asked[run[r].session] <= session.asks
            /\ session.asks + Len(old.batch) <= session.turns
        <4>1. Answered(old) = 0 /\ IsWorking(old)
          BY <2>3 DEF Answered, IsWorking
        <4>2. /\ old.calls <= session.turns /\ asked[run[r].session] <= session.asks + Answered(old)
              /\ session.asks + Due(old) <= session.turns
          BY <1>0, <1>2, <1>3, <3>1, <4>1 DEF Agree
        <4>3. session.asks \in Nat /\ Due(old) = Len(old.batch)
          BY <1>0, <1>3, <1>4, <2>3, QuestionsOf DEF Due
        <4> QED
          BY <1>0, <4>1, <4>2, <4>3
      <3>7. Agree(x, next, asked[run[r].session])
        <4>1. Answered(x) = 0 /\ ~IsAtService(x)
          BY <2>5 DEF Answered, IsAtService
        <4>2. x.calls <= next.turns
          BY <1>4, <2>5, <3>4, <3>5, <3>6
        <4>3. asked[run[r].session] <= next.asks + 0
          BY <1>0, <1>3, <3>5, <3>6, QuestionsOf
        <4>4. next.asks + Due(x) <= next.turns
          <5>1. Due(x) = Len(old.batch) + 1 /\ Len(old.batch) \in Nat /\ session.asks \in Nat
            BY <1>0, <1>3, <1>4, <2>1, <2>5, QuestionsOf DEF Due
          <5> QED
            BY <3>4, <3>5, <3>6, <5>1
        <4> QED
          BY <4>1, <4>2, <4>3, <4>4 DEF Agree
      <3>8. asked' = [asked EXCEPT ![run[r].session] = asked[run[r].session]]
        BY <1>1 DEF SessionInv, SessionTypes
      <3>9. asked[run[r].session] <= Questions(next) /\ UNCHANGED <<setup, made, current>>
        <4>1. asked[run[r].session] <= Questions(session)
          BY <1>0, <1>3, <3>1 DEF SessionInv
        <4>2. next.seeded = session.seeded
          BY <1>0, <1>3, <3>2 DEF SessionState, SessionRecord
        <4> QED
          BY <1>1, <4>1, <4>2 DEF Questions
      <3> QED
        BY <1>0, <1>1, <2>2, <2>5, <3>3, <3>5, <3>7, <3>8, <3>9, StepOfOneRun
    <2> QED
      BY <2>6, <2>7
  <1>7. ASSUME NEW batch \in Batches \cup Candidates, ModelAsksTools(r, batch), ~Ended(r)
        PROVE  SessionInv'
    <2>0. PICK tools : tools = IF setup.mode = "a" THEN old.tools + Len(batch) ELSE old.tools
      OBVIOUS
    <2>1. PICK x : x = [old EXCEPT !.pc = "executing", !.batch = batch, !.asked = batch, !.tools = tools]
      OBVIOUS
    <2>2. run' = [run EXCEPT ![r] = x]
      BY <1>0, <1>2, <1>7, <2>0, <2>1 DEF ModelAsksTools
    <2>3. old.pc = "asking" /\ UNCHANGED state /\ batch \in Seq(Actions)
      BY <1>2, <1>7, BatchesOfActions DEF ModelAsksTools, OnlyRun
    <2>4. tools \in 0 .. MaxModelTurns
      <3>1. setup.mode = "a" => ~(old.tools + Len(batch) > MaxModelTurns)
        BY <1>2, <1>7 DEF ModelAsksTools
      <3>2. Len(batch) \in Nat
        BY <2>3
      <3> QED
        BY <1>4, <2>0, <3>1, <3>2
    <2>5. /\ x \in RunRecord /\ x.session = run[r].session /\ x.pc = "executing"
          /\ x.calls = old.calls /\ x.batch = batch
      BY <1>2, <1>4, <2>1, <2>3, <2>4 DEF RunRecord, Points
    <2>6. Agree(x, session, asked[run[r].session])
      <3>1. /\ Answered(x) = 0 /\ ~IsAtService(x) /\ IsWorking(old)
            /\ Answered(old) = 0
        BY <2>3, <2>5 DEF Answered, IsAtService, IsWorking
      <3>2. setup.mode = "c" => Len(batch) = 1
        <4>1. batch \in IF setup.mode = "a" THEN Batches ELSE Candidates
          BY <1>7 DEF ModelAsksTools
        <4>2. \A b \in Candidates : Len(b) = 1
          BY DEF Candidates
        <4> QED
          BY <4>1, <4>2
      <3>3. Due(old) = Len(old.batch) + 1 /\ Due(x) = Len(batch) /\ Len(old.batch) \in Nat
        BY <1>4, <2>3, <2>5 DEF Due
      <3>4. setup.mode = "c" => session.asks + Due(x) <= session.turns
        <4>1. session.asks \in Nat /\ session.turns \in Nat
          BY <1>0, <1>3, QuestionsOf
        <4>2. setup.mode = "c" => session.asks + Due(old) <= session.turns
          BY <1>0, <1>2, <1>3, <3>1 DEF Agree
        <4> QED
          BY <3>2, <3>3, <4>1, <4>2
      <3> QED
        BY <1>0, <1>2, <1>3, <2>5, <3>1, <3>4 DEF Agree
    <2> QED
      BY <1>0, <1>1, <1>3, <2>2, <2>3, <2>5, <2>6, StepOfRunAlone
  <1>8. CASE Refuse(r)
    <2>1. PICK x : x = [old EXCEPT !.batch = Tail(@)]
      OBVIOUS
    <2>2. run' = [run EXCEPT ![r] = x]
      BY <1>0, <1>2, <1>8, <2>1 DEF Refuse
    <2>3. /\ old.pc = "executing" /\ UNCHANGED state /\ Tail(old.batch) \in Seq(Actions)
          /\ Len(Tail(old.batch)) = Len(old.batch) - 1 /\ Len(old.batch) \in Nat
      BY <1>2, <1>4, <1>8, BatchesOfActions DEF Refuse, OnlyRun
    <2>5. /\ x \in RunRecord /\ x.session = run[r].session /\ x.pc = "executing"
          /\ x.calls = old.calls /\ x.batch = Tail(old.batch)
      BY <1>2, <1>4, <2>1, <2>3 DEF RunRecord
    <2>6. Agree(x, session, asked[run[r].session])
      <3>1. /\ Answered(x) = 0 /\ ~IsAtService(x) /\ IsWorking(old)
            /\ Answered(old) = 0
        BY <2>3, <2>5 DEF Answered, IsAtService, IsWorking
      <3>2. Due(x) = Due(old) - 1 /\ Due(old) \in Nat
        BY <2>3, <2>5 DEF Due
      <3>3. setup.mode = "c" => session.asks + Due(x) <= session.turns
        <4>1. session.asks \in Nat /\ session.turns \in Nat
          BY <1>0, <1>3, QuestionsOf
        <4>2. setup.mode = "c" => session.asks + Due(old) <= session.turns
          BY <1>0, <1>2, <1>3, <3>1 DEF Agree
        <4> QED
          BY <3>2, <4>1, <4>2
      <3> QED
        BY <1>0, <1>2, <1>3, <2>5, <3>1, <3>3 DEF Agree
    <2> QED
      BY <1>0, <1>1, <1>3, <2>2, <2>3, <2>5, <2>6, StepOfRunAlone
  <1>9. CASE SendAction(r)
    <2>0. PICK paid : paid = IF setup.mode = "a" /\ ~IsFreeExit(SessionOf(r), Action(r))
                             THEN Cost[Action(r)] ELSE 0
      OBVIOUS
    <2>1. PICK x : x = [old EXCEPT !.pc = "sending", !.sent = 1, !.paid = paid]
      OBVIOUS
    <2>2. run' = [run EXCEPT ![r] = x]
      BY <1>0, <1>2, <1>9, <2>0, <2>1 DEF SendAction
    <2>3. /\ old.pc = "executing" /\ old.batch # <<>> /\ Action(r) \in Actions
          /\ ~IsRefused(session, Action(r)) /\ Action(r) = Head(old.batch)
      BY <1>2, <1>3, <1>4, <1>9, BatchesOfActions DEF SendAction, SessionOf, Action
    <2>4. paid \in Nat /\ 1 \in 0 .. MaxStatelessAttempts
      BY <2>0, <2>3, BirdAssumption, PortAssumption
    <2>5. /\ x \in RunRecord /\ x.session = run[r].session /\ x.pc = "sending"
          /\ x.calls = old.calls /\ x.batch = old.batch
      BY <1>2, <1>4, <2>1, <2>4 DEF RunRecord, Points
    <2>6. Answered(x) = 0 /\ IsWorking(old) /\ Answered(old) = 0 /\ Due(x) = Due(old)
      BY <2>3, <2>5 DEF Answered, IsWorking, Due
    <2>7. CASE setup.mode = "a"
      <3>1. PICK next : next = Charged(session, Action(r))
        OBVIOUS
      <3>2. state' = [state EXCEPT ![run[r].session] = next]
        BY <1>0, <1>3, <1>9, <2>7, <3>1 DEF SendAction
      <3>3. next \in SessionState
        BY <1>0, <1>3, <2>3, <2>7, <3>1, ChargedTypes
      <3>4. Agree(x, next, asked[run[r].session])
        BY <2>3, <2>5, <2>7 DEF Agree
      <3>5. asked' = [asked EXCEPT ![run[r].session] = asked[run[r].session]]
        BY <1>1 DEF SessionInv, SessionTypes
      <3>6. setup.mode # "c" /\ UNCHANGED <<setup, made, current>>
        BY <1>1, <2>7
      <3> QED
        BY <1>0, <1>1, <2>2, <2>5, <3>2, <3>3, <3>4, <3>5, <3>6, StepOfOneRun
    <2>8. CASE setup.mode # "a"
      <3>1. UNCHANGED state
        BY <1>9, <2>8 DEF SendAction
      <3>2. Action(r) = "ask_user" => session.asks < Questions(session)
        <4>1. session \in SessionState /\ setup.mode = "c"
          BY <1>0, <1>3, <2>8, BirdAssumption DEF SessionInv, SessionTypes, Modes
        <4>2. session.asks + Due(old) <= session.turns /\ Due(old) \in Nat \ {0}
          BY <1>0, <1>2, <1>3, <1>4, <2>3, <2>6, <4>1 DEF Agree, Due
        <4>3. ~session.seeded => session.asks < Questions(session)
          BY <4>1, <4>2, QuestionsOf
        <4>4. session.seeded /\ Action(r) = "ask_user" => session.asks < Questions(session)
          <5>1. session.asks \in Nat /\ MaxTurn \in Nat
            BY <4>1, QuestionsOf, BirdAssumption
          <5>2. session.seeded /\ Action(r) = "ask_user" => ~(session.asks >= MaxTurn)
            BY <2>3, <2>8 DEF IsRefused
          <5> QED
            BY <4>1, <5>1, <5>2, QuestionsOf
        <4> QED
          BY <4>3, <4>4
      <3>3. Agree(x, session, asked[run[r].session])
        BY <1>0, <1>2, <1>3, <2>3, <2>5, <2>6, <3>2 DEF Agree
      <3> QED
        BY <1>0, <1>1, <1>3, <2>2, <2>5, <3>1, <3>3, StepOfRunAlone
    <2> QED
      BY <2>7, <2>8
  <1>10. CASE NextTurn(r) /\ ~Ended(r)
    <2>0. PICK last : last = IF setup.mode = "a" THEN old.asked ELSE <<>>
      OBVIOUS
    <2>1. PICK x : x = [old EXCEPT !.pc = "loop", !.last = last, !.asked = <<>>]
      OBVIOUS
    <2>2. run' = [run EXCEPT ![r] = x]
      BY <1>0, <1>2, <1>10, <2>0, <2>1 DEF NextTurn
    <2>3. old.pc = "executing" /\ UNCHANGED state
      BY <1>2, <1>10 DEF NextTurn, IsBatchDone, OnlyRun
    <2>4. last \in Seq(Actions) /\ <<>> \in Seq(Actions)
      BY <1>0, <1>2, <2>0 DEF RunRecord
    <2>5. /\ x \in RunRecord /\ x.session = run[r].session /\ x.pc = "loop"
          /\ x.calls = old.calls /\ x.batch = old.batch
      BY <1>2, <1>4, <2>1, <2>4 DEF RunRecord, Points
    <2>6. Agree(x, session, asked[run[r].session])
      <3>1. /\ Answered(x) = 0 /\ ~IsAtService(x) /\ IsWorking(old)
            /\ Answered(old) = 0 /\ Due(x) = Due(old)
        BY <2>3, <2>5 DEF Answered, IsAtService, IsWorking, Due
      <3> QED
        BY <1>0, <1>2, <1>3, <2>5, <3>1 DEF Agree
    <2> QED
      BY <1>0, <1>1, <1>3, <2>2, <2>3, <2>5, <2>6, StepOfRunAlone
  <1>11. CASE Ended(r) /\ OnlyRun
    BY <1>5, <1>11 DEF OnlyRun
  <1>12. StopLoop(r) \/ ModelEnds(r) \/ StopRepeated(r) => Ended(r) /\ OnlyRun
    BY DEF StopLoop, ModelEnds, StopRepeated
  <1>13. \A batch : ModelAsksTools(r, batch) => OnlyRun
    BY DEF ModelAsksTools
  <1>14. NextTurn(r) => OnlyRun
    BY DEF NextTurn
  <1> QED
    BY <1>6, <1>7, <1>8, <1>9, <1>10, <1>11, <1>12, <1>13, <1>14

LEMMA AfterToolTypes ==
    ASSUME NEW session \in SessionState, NEW action, NEW reply \in Replies,
           setup.mode = "c" /\ action = "ask_user" => session.asks < Questions(session)
    PROVE  LET next == AfterTool(session, action, reply) IN
           /\ next \in SessionState
           /\ next.turns = session.turns /\ next.budget = session.budget
           /\ next.seeded = session.seeded
           /\ next.asks = IF action = "ask_user" /\ setup.mode = "c" /\ reply = Success
                          THEN session.asks + 1 ELSE session.asks
  <1>1. /\ Submitted(session, reply) \in SessionState
        /\ Submitted(session, reply).turns = session.turns
        /\ Submitted(session, reply).budget = session.budget
        /\ Submitted(session, reply).asks = session.asks
        /\ Submitted(session, reply).seeded = session.seeded
    <2>1. CASE reply.status # "success"
      BY <2>1 DEF Submitted
    <2>2. CASE reply.status = "success" /\ reply.passed = 0
      <3>1. Submitted(session, reply) = [session EXCEPT !.last = "failed"]
        BY <2>2 DEF Submitted
      <3> QED
        BY <3>1 DEF SessionState, SessionRecord, Questions
    <2>3. CASE reply.status = "success" /\ reply.passed # 0
      <3>0. session.phase1 \in BOOLEAN /\ session.phase2 \in BOOLEAN /\ session.done \in BOOLEAN
        BY DEF SessionState, SessionRecord, Questions
      <3>1. PICK phase1, phase2, done :
               /\ phase1 = (session.phase1 \/ reply.passed = 1)
               /\ phase2 = (session.phase2 \/ reply.passed = 2)
               /\ done = (session.done \/ reply.passed = 2 \/ ~reply.followUp)
        OBVIOUS
      <3>2. phase1 \in BOOLEAN /\ phase2 \in BOOLEAN /\ done \in BOOLEAN
        BY <3>1
      <3>3. Submitted(session, reply) =
               [session EXCEPT !.last = "passed", !.phase1 = phase1, !.phase2 = phase2, !.done = done]
        BY <2>3, <3>1 DEF Submitted
      <3> QED
        BY <3>2, <3>3 DEF SessionState, SessionRecord, Questions
    <2> QED
      BY <2>1, <2>2, <2>3
  <1>2. CASE action = "submit_sql"
    <2>1. PICK s : s = Submitted(session, reply)
      OBVIOUS
    <2>2. PICK submitted : submitted = (s.submitted \/ setup.mode = "c")
      OBVIOUS
    <2>3. s \in SessionState /\ submitted \in BOOLEAN
      BY <1>1, <2>1, <2>2 DEF SessionState, SessionRecord, Questions
    <2>4. AfterTool(session, action, reply) = [s EXCEPT !.submitted = submitted]
      BY <1>2, <2>1, <2>2 DEF AfterTool
    <2>5. "submit_sql" # "ask_user"
      OBVIOUS
    <2> QED
      BY <1>1, <1>2, <2>1, <2>3, <2>4, <2>5 DEF SessionState, SessionRecord, Questions
  <1>3. CASE action = "ask_user" /\ setup.mode = "c" /\ reply = Success
    <2>1. PICK asks : asks = session.asks + 1
      OBVIOUS
    <2>2. asks \in 0 .. Questions(session)
      BY <1>3, <2>1, QuestionsOf
    <2>3. AfterTool(session, action, reply) = [session EXCEPT !.asks = asks]
      BY <1>3, <2>1 DEF AfterTool
    <2> QED
      BY <1>3, <2>1, <2>2, <2>3 DEF SessionState, SessionRecord, Questions
  <1>4. CASE action # "submit_sql" /\ ~(action = "ask_user" /\ setup.mode = "c" /\ reply = Success)
    BY <1>4 DEF AfterTool
  <1> QED
    BY <1>2, <1>3, <1>4

\* The service does what it is asked.
LEMMA ExecutedStep ==
    ASSUME SessionInv, NEW r \in Runs, NEW reply \in Replies, ServiceExecutes(r, reply)
    PROVE  SessionInv'
  <1>0. /\ IsWorking(run[r]) /\ IsAtService(run[r])
        /\ UNCHANGED <<setup, made, current, state, lost>> /\ lost' \subseteq Sessions
    BY DEF IsWorking, IsAtService, ServiceExecutes, SessionInv, SessionTypes
  <1>1. /\ run[r] \in RunRecord /\ run \in [Runs -> RunRecord]
        /\ run[r].session \in Sessions
        /\ state \in [Sessions -> SessionState] /\ state[run[r].session] \in SessionState
        /\ Agree(run[r], state[run[r].session], asked[run[r].session])
        /\ asked \in [Sessions -> Nat] /\ asked[run[r].session] \in Nat
    BY <1>0, WorkingSession
  <1>2. PICK old : old = run[r]
    OBVIOUS
  <1>3. PICK session : session = state[run[r].session]
    OBVIOUS
  <1>4. PICK answers : answers = IF Action(r) = "ask_user" THEN asked[run[r].session] + 1 ELSE asked[run[r].session]
    OBVIOUS
  <1>5. PICK x : x = [old EXCEPT !.pc = "replying", !.paid = 0, !.reply = reply]
    OBVIOUS
  <1>6. /\ DOMAIN old = {"pc", "session", "calls", "tools", "batch", "asked", "last", "sent", "paid", "reply"}
        /\ old \in RunRecord /\ old.pc = "sending" /\ Action(r) = Head(old.batch)
    BY <1>1, <1>2, RunFields DEF ServiceExecutes, Action
  <1>7. run' = [run EXCEPT ![r] = x]
    BY <1>1, <1>2, <1>5 DEF ServiceExecutes
  <1>8. /\ x \in RunRecord /\ x.session = run[r].session /\ x.pc = "replying" /\ x.reply = reply
        /\ x.calls = old.calls /\ x.batch = old.batch
    BY <1>2, <1>5, <1>6 DEF RunRecord, Points
  <1>9. answers \in Nat /\ asked' = [asked EXCEPT ![run[r].session] = answers]
    <2>1. answers \in Nat
      BY <1>1, <1>4
    <2>2. asked' = IF Action(r) = "ask_user"
                   THEN [asked EXCEPT ![run[r].session] = @ + 1] ELSE asked
      BY DEF ServiceExecutes
    <2>3. asked' = [asked EXCEPT ![run[r].session] = answers]
      BY <1>1, <1>4, <2>2
    <2> QED
      BY <2>1, <2>3
  <1>10. state' = [state EXCEPT ![run[r].session] = session]
    BY <1>0, <1>1, <1>3
  <1>11. spent' \in [Sessions -> Nat]
    <2>1. spent \in [Sessions -> Nat] /\ run[r].paid \in Nat
      BY <1>1, RunFields DEF SessionInv, SessionTypes
    <2>2. spent[run[r].session] + run[r].paid \in Nat
      BY <1>1, <2>1
    <2> QED
      BY <1>1, <2>1, <2>2 DEF ServiceExecutes
  <1>12. env' \in [phase : 1 .. Over, passedBy : [1 .. 2 -> Sessions \cup {NoSession}]]
    <2>0. env \in [phase : 1 .. Over, passedBy : [1 .. 2 -> Sessions \cup {NoSession}]]
      BY DEF SessionInv, SessionTypes
    <2>1. CASE UNCHANGED env
      BY <2>0, <2>1
    <2>2. CASE env' = [phase |-> IF reply.followUp THEN 2 ELSE Over,
                       passedBy |-> [env.passedBy EXCEPT ![env.phase] = run[r].session]]
      <3>1. PICK phase : phase = IF reply.followUp THEN 2 ELSE Over
        OBVIOUS
      <3>2. PICK passedBy : passedBy = [env.passedBy EXCEPT ![env.phase] = run[r].session]
        OBVIOUS
      <3>3. phase \in 1 .. Over
        BY <3>1 DEF Over
      <3>4. passedBy \in [1 .. 2 -> Sessions \cup {NoSession}]
        BY <1>1, <2>0, <3>2
      <3> QED
        BY <2>2, <3>1, <3>2, <3>3, <3>4
    <2> QED
      BY <2>1, <2>2 DEF ServiceExecutes, EnvExecutes
  <1>13. Action(r) = "ask_user" => reply = Success
    <2>1. "ask_user" # "submit_sql"
      OBVIOUS
    <2> QED
      BY <2>1 DEF ServiceExecutes, EnvExecutes
  <1>14. /\ old.batch # <<>>
         /\ setup.mode = "c" => /\ old.calls <= session.turns /\ asked[run[r].session] <= session.asks
                                /\ session.asks + Due(old) <= session.turns
                                /\ Action(r) = "ask_user" => session.asks < Questions(session)
    <2>1. Answered(old) = 0 /\ IsAtService(old) /\ IsWorking(old)
      BY <1>0, <1>2, <1>6 DEF Answered
    <2>2. session.asks \in Nat
      BY <1>1, <1>3 DEF SessionState, SessionRecord, Questions
    <2> QED
      BY <1>1, <1>2, <1>3, <1>6, <2>1, <2>2 DEF Agree
  <1>15. Answered(x) = IF Action(r) = "ask_user" THEN 1 ELSE 0
    BY <1>6, <1>8, <1>13 DEF Answered
  <1>16. session.asks \in 0 .. Questions(session) /\ Questions(session) \in Nat
    BY <1>1, <1>3, QuestionsOf
  <1>17. Agree(x, session, answers)
    <2>1. setup.mode = "c" => answers <= session.asks + Answered(x)
      BY <1>1, <1>4, <1>14, <1>15, <1>16
    <2>2. Due(x) = Due(old)
      BY <1>6, <1>8 DEF Due
    <2> QED
      BY <1>6, <1>8, <1>14, <2>1, <2>2 DEF Agree
  <1>18. setup.mode = "c" => answers <= Questions(session)
    <2>1. ASSUME setup.mode = "c", Action(r) = "ask_user"
          PROVE  answers <= Questions(session)
      BY <1>1, <1>4, <1>14, <1>16, <2>1
    <2>2. ASSUME setup.mode = "c", Action(r) # "ask_user"
          PROVE  answers <= Questions(session)
      BY <1>1, <1>4, <1>14, <1>16, <2>2
    <2> QED
      BY <2>1, <2>2
  <1>19. session \in SessionState
    BY <1>1, <1>3
  <1> QED
    BY <1>0, <1>7, <1>8, <1>9, <1>10, <1>11, <1>12, <1>17, <1>18, <1>19, StepOfOneRun

\* The service refuses, a request or its reply is lost.
LEMMA UnansweredStep ==
    ASSUME SessionInv, NEW r \in Runs, ServiceRejects(r) \/ ReplyLost(r)
    PROVE  SessionInv'
  <1>0. /\ IsWorking(run[r]) /\ IsAtService(run[r])
        /\ UNCHANGED <<env, setup, made, current, state, spent, asked>>
    BY DEF IsWorking, IsAtService, ServiceRejects, ReplyLost, OnlyRun
  <1>1. /\ run[r] \in RunRecord /\ run \in [Runs -> RunRecord]
        /\ run[r].session \in Sessions
        /\ state[run[r].session] \in SessionState
        /\ Agree(run[r], state[run[r].session], asked[run[r].session])
        /\ asked[run[r].session] \in Nat
    BY <1>0, WorkingSession
  <1>2. lost' \subseteq Sessions
    BY <1>1 DEF ServiceRejects, ReplyLost, OnlyRun, SessionInv, SessionTypes
  <1>3. CASE Ended(r)
    BY <1>0, <1>2, <1>3, EndStep
  <1>4. PICK old : old = run[r]
    OBVIOUS
  <1>5. PICK session : session = state[run[r].session]
    OBVIOUS
  <1>6. /\ DOMAIN old = {"pc", "session", "calls", "tools", "batch", "asked", "last", "sent", "paid", "reply"}
        /\ old \in RunRecord /\ IsWorking(old) /\ IsAtService(old) /\ Action(r) = Head(old.batch)
        /\ old.sent \in 0 .. MaxStatelessAttempts /\ MaxStatelessAttempts \in Nat
        /\ NoReply \in Replies /\ RejectedResult \in Replies
    BY <1>0, <1>1, <1>4, RunFields, ReplyFields, PortAssumption DEF Action
  <1>7. /\ env' \in [phase : 1 .. Over, passedBy : [1 .. 2 -> Sessions \cup {NoSession}]]
        /\ spent' \in [Sessions -> Nat]
    BY <1>0 DEF SessionInv, SessionTypes
  <1>8. RejectedResult # Success
    BY DEF RejectedResult, Success, NoReply
  <1>9. session.asks \in Nat
    BY <1>1, <1>5 DEF SessionState, SessionRecord, Questions
  <1>10. CASE ServiceRejects(r) /\ ~Ended(r)
    <2>1. PICK x : x = [old EXCEPT !.pc = "replying", !.reply = RejectedResult]
      OBVIOUS
    <2>2. run' = [run EXCEPT ![r] = x]
      BY <1>1, <1>4, <1>10, <2>1 DEF ServiceRejects
    <2>3. /\ x \in RunRecord /\ x.session = run[r].session /\ x.pc = "replying"
          /\ x.calls = old.calls /\ x.batch = old.batch /\ x.reply = RejectedResult
      BY <1>4, <1>6, <2>1 DEF RunRecord, Points
    <2>4. Answered(x) = 0 /\ Answered(old) = 0 /\ Due(x) = Due(old)
      BY <1>4, <1>8, <1>10, <2>3 DEF Answered, ServiceRejects, Due
    <2>5. Agree(x, session, asked[run[r].session])
      BY <1>1, <1>4, <1>5, <1>6, <2>3, <2>4 DEF Agree
    <2> QED
      BY <1>0, <1>1, <1>2, <1>5, <1>7, <2>2, <2>3, <2>5, StepOfRunAlone
  <1>11. CASE ReplyLost(r) /\ ~Ended(r)
    <2>0. PICK sent : sent = old.sent + 1
      OBVIOUS
    <2>1. PICK x : x = [old EXCEPT !.pc = "sending", !.sent = sent, !.reply = NoReply]
      OBVIOUS
    <2>2. run' = [run EXCEPT ![r] = x] /\ MayResend(Action(r), old.sent)
      BY <1>1, <1>4, <1>11, <2>0, <2>1 DEF ReplyLost
    <2>3. sent \in 0 .. MaxStatelessAttempts /\ Action(r) # "ask_user"
      BY <1>6, <2>0, <2>2 DEF MayResend, StatefulActions
    <2>4. /\ x \in RunRecord /\ x.session = run[r].session /\ x.pc = "sending"
          /\ x.calls = old.calls /\ x.batch = old.batch
      BY <1>4, <1>6, <2>1, <2>3 DEF RunRecord, Points
    <2>5. Answered(x) = 0 /\ Answered(old) = 0 /\ Due(x) = Due(old)
      BY <1>6, <2>3, <2>4 DEF Answered, Due, IsAtService
    <2>6. Agree(x, session, asked[run[r].session])
      BY <1>1, <1>4, <1>5, <1>6, <2>3, <2>4, <2>5 DEF Agree
    <2> QED
      BY <1>0, <1>1, <1>2, <1>5, <1>7, <2>2, <2>4, <2>6, StepOfRunAlone
  <1> QED
    BY <1>3, <1>10, <1>11

LEMMA ArrivedStep ==
    ASSUME SessionInv, NEW r \in Runs, ReplyArrives(r)
    PROVE  SessionInv'
  <1>0. /\ IsWorking(run[r]) /\ IsAtService(run[r])
        /\ UNCHANGED <<env, setup, made, current, spent, asked, lost>>
    BY DEF IsWorking, IsAtService, ReplyArrives
  <1>1. /\ run[r] \in RunRecord /\ run \in [Runs -> RunRecord]
        /\ run[r].session \in Sessions
        /\ state \in [Sessions -> SessionState] /\ state[run[r].session] \in SessionState
        /\ Agree(run[r], state[run[r].session], asked[run[r].session])
        /\ asked \in [Sessions -> Nat] /\ asked[run[r].session] \in Nat
    BY <1>0, WorkingSession
  <1>2. PICK old : old = run[r]
    OBVIOUS
  <1>3. PICK session : session = state[run[r].session]
    OBVIOUS
  <1>4. PICK answers : answers = asked[run[r].session]
    OBVIOUS
  <1>5. /\ DOMAIN old = {"pc", "session", "calls", "tools", "batch", "asked", "last", "sent", "paid", "reply"}
        /\ old \in RunRecord /\ old.pc = "replying" /\ Action(r) = Head(old.batch)
        /\ old.reply \in Replies /\ NoReply \in Replies /\ 0 \in 0 .. MaxStatelessAttempts
        /\ old.batch \in Seq(Actions)
    BY <1>1, <1>2, RunFields, ReplyFields, PortAssumption DEF ReplyArrives, Action
  <1>6. IsWorking(old) /\ IsAtService(old) /\ old.batch # <<>> /\ session \in SessionState
    BY <1>0, <1>1, <1>2, <1>3 DEF Agree
  <1>7. setup.mode = "c" =>
           /\ old.calls <= session.turns /\ answers <= session.asks + Answered(old)
           /\ session.asks + Due(old) <= session.turns
           /\ Action(r) = "ask_user" => session.asks < Questions(session)
    BY <1>1, <1>2, <1>3, <1>4, <1>5, <1>6 DEF Agree
  <1>8. PICK next : next = AfterTool(session, Action(r), old.reply)
    OBVIOUS
  <1>9. /\ next \in SessionState /\ next.turns = session.turns /\ next.seeded = session.seeded
        /\ next.asks = IF Action(r) = "ask_user" /\ setup.mode = "c" /\ old.reply = Success
                       THEN session.asks + 1 ELSE session.asks
    BY <1>5, <1>6, <1>7, <1>8, AfterToolTypes
  <1>10. PICK rest : rest = Tail(old.batch)
    OBVIOUS
  <1>11. /\ rest \in Seq(Actions) /\ Len(rest) = Len(old.batch) - 1 /\ Len(old.batch) \in Nat
    BY <1>5, <1>6, <1>10, BatchesOfActions
  <1>12. PICK x : x = [old EXCEPT !.pc = "executing", !.batch = rest, !.sent = 0, !.reply = NoReply]
    OBVIOUS
  <1>13. run' = [run EXCEPT ![r] = x]
    BY <1>1, <1>2, <1>10, <1>12 DEF ReplyArrives
  <1>14. /\ x \in RunRecord /\ x.session = run[r].session /\ x.pc = "executing"
         /\ x.calls = old.calls /\ x.batch = rest
    BY <1>2, <1>5, <1>11, <1>12 DEF RunRecord, Points
  <1>15. state' = [state EXCEPT ![run[r].session] = next]
    BY <1>1, <1>2, <1>3, <1>8 DEF ReplyArrives
  <1>16. answers \in Nat /\ asked' = [asked EXCEPT ![run[r].session] = answers]
    BY <1>0, <1>1, <1>4
  <1>17. Answered(old) = IF Action(r) = "ask_user" /\ old.reply = Success THEN 1 ELSE 0
    BY <1>5 DEF Answered
  <1>18. Agree(x, next, answers)
    <2>1. Answered(x) = 0 /\ ~IsAtService(x)
      BY <1>14 DEF Answered, IsAtService
    <2>2. session.asks \in Nat
      BY <1>6 DEF SessionState, SessionRecord, Questions
    <2>3. setup.mode = "c" => answers <= next.asks + 0
      BY <1>7, <1>9, <1>16, <1>17, <2>2
    <2>4. Due(x) = Due(old) - 1 /\ Due(old) \in Nat
      BY <1>5, <1>11, <1>14 DEF Due
    <2>5. setup.mode = "c" => next.asks + Due(x) <= next.turns
      <3>1. session.turns \in Nat
        BY <1>6, QuestionsOf
      <3> QED
        BY <1>7, <1>9, <2>2, <2>4, <3>1
    <2> QED
      BY <1>7, <1>9, <1>14, <2>1, <2>3, <2>5 DEF Agree
  <1>19. setup.mode = "c" => answers <= Questions(next)
    <2>1. setup.mode = "c" => answers <= Questions(session)
      BY <1>1, <1>3, <1>4 DEF SessionInv
    <2> QED
      BY <1>9, <2>1 DEF Questions
  <1>20. /\ env' \in [phase : 1 .. Over, passedBy : [1 .. 2 -> Sessions \cup {NoSession}]]
         /\ spent' \in [Sessions -> Nat] /\ lost' \subseteq Sessions
    BY <1>0 DEF SessionInv, SessionTypes
  <1> QED
    BY <1>0, <1>9, <1>13, <1>14, <1>15, <1>16, <1>18, <1>19, <1>20, StepOfOneRun

\* A session is made, and a run of c-interact begins alone.
LEMMA BeginSteps ==
    ASSUME SerialC, SessionInv, InitSession \/ \E r \in Runs : RunSession(r)
    PROVE  SessionInv'
  <1>0. /\ MaxSessions \in Nat \ {0} /\ CoinBudget \in Nat /\ MaxTurn \in Nat /\ MaxModelTurns \in Nat
        /\ made \in 0 .. MaxSessions /\ current \in 0 .. made
        /\ state \in [Sessions -> SessionState] /\ run \in [Runs -> RunRecord]
        /\ asked \in [Sessions -> Nat] /\ setup \in Setups
    BY BirdAssumption DEF SessionInv, SessionTypes
  <1>1. CASE InitSession
    <2>1. made + 1 \in Sessions /\ made' = made + 1 /\ current' = made + 1
      BY <1>0, <1>1 DEF InitSession, Sessions
    <2>2. PICK fresh : fresh = NewState(CoinBudget, TRUE)
      OBVIOUS
    <2>3. fresh \in SessionState
      BY <1>0, <2>2 DEF NewState, Unseeded, SessionState, SessionRecord, Questions
    <2>4. state' = [state EXCEPT ![made + 1] = fresh] /\ UNCHANGED <<env, setup, run, spent, asked, lost>>
      BY <1>1, <2>1, <2>2 DEF InitSession
    <2>5. SessionTypes'
      BY <1>0, <2>1, <2>3, <2>4 DEF SessionInv, SessionTypes, Sessions
    <2>6. ASSUME NEW r \in Runs, IsWorking(run[r])
          PROVE  /\ run[r].session \in 1 .. made' /\ state'[run[r].session] = state[run[r].session]
                 /\ Agree(run[r], state[run[r].session], asked[run[r].session])
      <3>1. /\ run[r].session \in 1 .. made
            /\ Agree(run[r], state[run[r].session], asked[run[r].session])
        BY <2>6 DEF SessionInv
      <3> QED
        BY <1>0, <2>1, <2>4, <3>1
    <2>7. \A r \in Runs : Agree(run[r], state'[run[r].session], asked[run[r].session]) =>
                          Agree(run[r], state[run[r].session], asked[run[r].session])'
      BY <2>4 DEF Agree, IsWorking, IsAtService, Answered, Due, Questions
    <2>8. \A s \in Sessions : s > made' => asked[s] = 0
      <3>1. \A s \in Sessions : s > made' => s > made
        BY <1>0, <2>1 DEF Sessions
      <3> QED
        BY <3>1 DEF SessionInv
    <2>9. setup.mode = "c" => \A s \in Sessions : asked[s] <= Questions(state'[s])
      <3>1. asked[made + 1] = 0 /\ state'[made + 1] = fresh
        BY <1>0, <2>1, <2>4 DEF SessionInv
      <3>2. Questions(fresh) \in Nat
        BY <2>3, QuestionsOf
      <3>3. \A s \in Sessions : s # made + 1 => state'[s] = state[s]
        BY <1>0, <2>1, <2>4
      <3> QED
        BY <3>1, <3>2, <3>3 DEF SessionInv
    <2>10. \A s \in Sessions : Questions(state'[s]) = Questions(state[s])'
      BY DEF Questions
    <2> QED
      BY <2>4, <2>5, <2>6, <2>7, <2>8, <2>9, <2>10 DEF SessionInv, IsWorking
  <1>2. ASSUME NEW r \in Runs, RunSession(r)
        PROVE  SessionInv'
    <2>1. PICK s : s = IF current = NoSession THEN made + 1 ELSE current
      OBVIOUS
    <2>2. /\ s \in Sessions /\ current' = s /\ made' = (IF s > made THEN s ELSE made)
          /\ state' = [state EXCEPT ![s] = Entered(@)] /\ asked' = [asked EXCEPT ![s] = 0]
          /\ run[r].pc = "idle" /\ (setup.overlap \/ InFlight = {})
          /\ UNCHANGED <<env, setup, spent, lost>>
      BY <1>2, <2>1 DEF RunSession
    <2>3. s \in 1 .. made' /\ made <= made' /\ made' \in 0 .. MaxSessions
      BY <1>0, <2>1, <2>2 DEF NoSession, Sessions
    <2>4. PICK pc : pc = IF setup.mode = "c" /\ setup.ablation /\ state[s].last = "failed"
                         THEN "ended" ELSE "loop"
      OBVIOUS
    <2>5. PICK old : old = run[r]
      OBVIOUS
    <2>6. PICK x : x = [old EXCEPT !.session = s, !.pc = pc]
      OBVIOUS
    <2>7. run' = [run EXCEPT ![r] = x]
      BY <1>0, <1>2, <2>1, <2>4, <2>5, <2>6 DEF RunSession
    <2>8. /\ x \in RunRecord /\ x.session = s /\ x.pc = pc /\ pc \in {"ended", "loop"}
          /\ x.calls = old.calls /\ x.batch = old.batch
      BY <1>0, <2>2, <2>4, <2>5, <2>6, ZenonT(60) DEF RunRecord, Points
    <2>20. old.calls = 0 /\ old.batch = <<>>
      BY <2>2, <2>5, Fields DEF SessionInv, NewRun
    <2>9. PICK next : next = Entered(state[s])
      OBVIOUS
    <2>10. /\ next \in SessionState /\ next.turns = state[s].turns
           /\ setup.mode = "c" => next.asks = 0
           /\ setup.mode # "c" => next = state[s]
      <3>1. state[s] \in SessionState /\ 0 \in 0 .. Questions(state[s])
        BY <1>0, <2>2, QuestionsOf
      <3>2. CASE setup.mode # "c"
        BY <2>9, <3>1, <3>2 DEF Entered
      <3>3. CASE setup.mode = "c"
        <4>1. PICK y : y = state[s]
          OBVIOUS
        <4>2. next = [y EXCEPT !.submitted = FALSE, !.asks = 0] /\ y \in SessionRecord
          BY <2>9, <3>1, <3>3, <4>1 DEF Entered, SessionState
        <4>3. /\ next \in SessionRecord /\ next.asks = 0 /\ next.turns = y.turns
              /\ next.seeded = y.seeded
          BY <4>2 DEF SessionRecord
        <4>4. Questions(next) = Questions(state[s]) /\ Questions(state[s]) \in Nat
          BY <3>1, <4>1, <4>3, QuestionsOf DEF Questions
        <4> QED
          BY <3>3, <4>1, <4>3, <4>4 DEF SessionState
      <3> QED
        BY <3>2, <3>3
    <2>11. state' = [state EXCEPT ![s] = next]
      BY <1>0, <2>2, <2>9
    <2>12. /\ run' \in [Runs -> RunRecord] /\ state' \in [Sessions -> SessionState]
           /\ asked' \in [Sessions -> Nat] /\ current' \in 0 .. made'
      BY <1>0, <2>2, <2>3, <2>7, <2>8, <2>10, <2>11
    <2>13. SessionTypes'
      BY <2>2, <2>3, <2>12 DEF SessionInv, SessionTypes
    <2>14. /\ \A q \in Runs : run'[q] = IF q = r THEN x ELSE run[q]
           /\ asked'[s] = 0 /\ state'[s] = next
           /\ \A q \in Sessions : q # s => asked'[q] = asked[q] /\ state'[q] = state[q]
      BY <1>0, <2>2, <2>7, <2>11
    <2>15. setup.mode = "c" => \A q \in Runs : ~IsWorking(run[q])
      BY <1>0, <2>2 DEF SerialC, InFlight, IsWorking
    <2>16. ASSUME NEW q \in Runs, IsWorking(run'[q])
           PROVE  /\ run'[q].session \in 1 .. made'
                  /\ Agree(run'[q], state'[run'[q].session], asked'[run'[q].session])
      <3>1. CASE q = r
        <4>1. run'[q] = x /\ x.pc = "loop" /\ run'[q].session = s
          BY <2>8, <2>14, <2>16, <3>1 DEF IsWorking
        <4>2. ~IsAtService(x) /\ Answered(x) = 0 /\ Due(x) = 0
          BY <2>8, <2>20, <4>1 DEF IsAtService, Answered, Due
        <4>3. setup.mode = "c" => x.calls <= next.turns /\ next.asks + Due(x) <= next.turns
          <5>1. next.turns \in Nat
            BY <2>10, QuestionsOf
          <5> QED
            BY <2>8, <2>10, <2>20, <4>2, <5>1
        <4> QED
          BY <2>3, <2>10, <2>14, <4>1, <4>2, <4>3 DEF Agree
      <3>2. CASE q # r
        <4>1. run'[q] = run[q] /\ IsWorking(run[q]) /\ setup.mode # "c"
          BY <2>14, <2>15, <2>16, <3>2
        <4>2. run[q].session \in 1 .. made /\ Agree(run[q], state[run[q].session], asked[run[q].session])
          BY <4>1 DEF SessionInv
        <4> QED
          BY <1>0, <2>3, <4>1, <4>2 DEF Agree
      <3> QED
        BY <3>1, <3>2
    <2>17. \A q \in Runs : Agree(run'[q], state'[run'[q].session], asked'[run'[q].session]) =>
                          Agree(run[q], state[run[q].session], asked[run[q].session])'
      BY <2>2 DEF Agree, IsWorking, IsAtService, Answered, Due, Questions
    <2>18. setup.mode = "c" =>
             /\ \A p, q \in Runs : IsWorking(run'[p]) /\ IsWorking(run'[q]) => p = q
             /\ \A q \in Sessions : asked'[q] <= Questions(state'[q])
      <3>1. ASSUME setup.mode = "c"
            PROVE  /\ \A q \in Runs : IsWorking(run'[q]) => q = r
                   /\ \A q \in Sessions : asked'[q] <= Questions(state'[q])
        <4>1. Questions(next) \in Nat
          BY <2>10, QuestionsOf
        <4> QED
          BY <1>0, <2>14, <2>15, <3>1, <4>1 DEF SessionInv
      <3> QED
        BY <3>1
    <2>21. \A q \in Sessions : q > made' => asked'[q] = 0
      <3>1. \A q \in Sessions : q > made' => q > made /\ q # s
        BY <1>0, <2>3 DEF Sessions
      <3> QED
        BY <2>14, <3>1 DEF SessionInv
    <2>22. \A q \in Sessions : Questions(state'[q]) = Questions(state[q])'
      BY DEF Questions
    <2>19. \A q \in Runs : run'[q].pc = "idle" => run'[q] = NewRun
      BY <2>8, <2>14 DEF SessionInv
    <2> QED
      BY <2>2, <2>13, <2>16, <2>17, <2>18, <2>19, <2>21, <2>22 DEF SessionInv, IsWorking
  <1> QED
    BY <1>1, <1>2

LEMMA RestartStep ==
    ASSUME SessionInv, ServerRestarts
    PROVE  SessionInv'
  <1>1. /\ UNCHANGED <<env, setup, state, made, spent, asked>> /\ current' = NoSession
        /\ run \in [Runs -> RunRecord] /\ made \in 0 .. MaxSessions /\ MaxSessions \in Nat
    BY BirdAssumption DEF ServerRestarts, SessionInv, SessionTypes
  <1>2. ASSUME NEW r \in Runs
        PROVE  /\ run[r].pc \in {"idle", "ended"} => run'[r] = run[r]
               /\ run[r].pc \notin {"idle", "ended"} =>
                     run'[r] = [NewRun EXCEPT !.pc = "ended", !.session = run[r].session]
    BY DEF ServerRestarts, InFlight
  <1>3. \A r \in Runs : run[r].session \in Sessions \cup {NoSession}
    BY <1>1, RunFields
  <1>4. ASSUME NEW r \in Runs
        PROVE  run'[r] \in RunRecord /\ ~IsWorking(run'[r])
               /\ (run'[r].pc = "idle" => run'[r] = NewRun)
    <2>1. CASE run[r].pc \in {"idle", "ended"}
      BY <1>1, <1>2, <2>1 DEF IsWorking, SessionInv
    <2>2. CASE run[r].pc \notin {"idle", "ended"}
      <3>1. /\ run'[r] \in RunRecord /\ run'[r].pc = "ended"
        <4>1. PICK s : s = run[r].session
          OBVIOUS
        <4>2. s \in Sessions \cup {NoSession}
          BY <1>3, <4>1
        <4>3. run'[r] = [NewRun EXCEPT !.pc = "ended", !.session = s]
          BY <1>2, <2>2, <4>1
        <4> QED
          BY <4>2, <4>3, NewRunType
      <3> QED
        BY <3>1 DEF IsWorking
    <2> QED
      BY <2>1, <2>2
  <1>5. run' \in [Runs -> RunRecord]
    <2>1. run' = [r \in Runs |-> run'[r]]
      BY DEF ServerRestarts
    <2> QED
      BY <1>4, <2>1
  <1>6. lost' \subseteq Sessions
    <2>1. \A r \in InFlight : run[r].session \in Sessions
      <3>1. \A r \in InFlight : r \in Runs /\ IsWorking(run[r])
        BY DEF InFlight, IsWorking
      <3> QED
        BY <3>1, WorkingSession
    <2> QED
      BY <2>1, ZenonT(60) DEF ServerRestarts, SessionInv, SessionTypes
  <1>7. SessionTypes'
    BY <1>1, <1>5, <1>6 DEF SessionInv, SessionTypes, NoSession
  <1>8. \A s \in Sessions : Questions(state'[s]) = Questions(state[s])'
    BY DEF Questions
  <1> QED
    BY <1>1, <1>4, <1>7, <1>8 DEF SessionInv, IsWorking

LEMMA SessionInit == Init => SessionInv
  <1>. SUFFICES ASSUME Init PROVE SessionInv
    OBVIOUS
  <1>0. /\ MaxSessions \in Nat \ {0} /\ CoinBudget \in Nat /\ MaxTurn \in Nat /\ MaxModelTurns \in Nat
        /\ made = 0 /\ current = 0 /\ setup \in Setups /\ lost = {}
        /\ run = [r \in Runs |-> NewRun]
        /\ state = [s \in Sessions |-> Unseeded]
        /\ spent = [s \in Sessions |-> 0] /\ asked = [s \in Sessions |-> 0]
    BY BirdAssumption DEF Init, NoSession
  <1>1. Unseeded \in SessionState /\ Questions(Unseeded) \in Nat
    BY <1>0 DEF NewState, Unseeded, SessionState, SessionRecord, Questions
  <1>2. env \in [phase : 1 .. Over, passedBy : [1 .. 2 -> Sessions \cup {NoSession}]]
    BY DEF Init, EnvInit, Over
  <1>3. \A r \in Runs : run[r] = NewRun /\ ~IsWorking(run[r])
    BY <1>0, Fields DEF IsWorking
  <1>4. SessionTypes
    <2>1. state \in [Sessions -> SessionState]
      BY <1>0, <1>1
    <2>2. run \in [Runs -> RunRecord]
      BY <1>0, NewRunType
    <2>3. spent \in [Sessions -> Nat] /\ asked \in [Sessions -> Nat]
      BY <1>0
    <2>4. /\ setup \in Setups /\ made \in 0 .. MaxSessions /\ current \in 0 .. made
          /\ lost \subseteq Sessions
      BY <1>0
    <2> QED
      BY <1>2, <2>1, <2>2, <2>3, <2>4 DEF SessionTypes
  <1>5. \A s \in Sessions : Questions(state[s]) = Questions(Unseeded)
    BY <1>0
  <1> QED
    BY <1>0, <1>1, <1>3, <1>4, <1>5 DEF SessionInv

LEMMA SessionSteady == SessionInv /\ UNCHANGED vars => SessionInv'
  <1>. SUFFICES ASSUME SessionInv, UNCHANGED vars PROVE SessionInv'
    OBVIOUS
  <1>1. \A q \in Runs : Agree(run[q], state[run[q].session], asked[run[q].session]) =>
                        Agree(run[q], state[run[q].session], asked[run[q].session])'
    BY DEF vars, Agree, IsWorking, IsAtService, Answered, Due, Questions
  <1>4. \A s \in Sessions : Questions(state'[s]) = Questions(state[s])'
    BY DEF Questions
  <1>2. UNCHANGED <<env, setup, state, made, current, run, spent, asked, lost>>
    BY DEF vars
  <1>3. SessionTypes'
    BY <1>2 DEF SessionInv, SessionTypes
  <1> QED
    BY <1>1, <1>2, <1>3, <1>4 DEF SessionInv, IsWorking

LEMMA SessionInvariance == SerialC /\ SessionInv /\ [Next]_vars => SessionInv'
  <1>. SUFFICES ASSUME SerialC, SessionInv, [Next]_vars PROVE SessionInv'
    OBVIOUS
  <1>1. CASE UNCHANGED vars
    BY <1>1, SessionSteady
  <1>2. CASE InitSession \/ \E r \in Runs : RunSession(r)
    BY <1>2, BeginSteps
  <1>3. CASE ServerRestarts
    BY <1>3, RestartStep
  <1>4. ASSUME NEW r \in Runs, RunStep(r)
        PROVE  SessionInv'
    <2>1. CASE \E reply \in Replies : ServiceExecutes(r, reply)
      BY <2>1, ExecutedStep
    <2>2. CASE ServiceRejects(r) \/ ReplyLost(r)
      BY <2>2, UnansweredStep
    <2>3. CASE ReplyArrives(r)
      BY <2>3, ArrivedStep
    <2>4. CASE \/ AskModel(r) \/ \E batch \in Batches \cup Candidates : ModelAsksTools(r, batch)
               \/ Refuse(r) \/ SendAction(r) \/ NextTurn(r)
               \/ StopLoop(r) \/ ModelEnds(r) \/ StopRepeated(r)
      BY <2>4, WorkingSteps
    <2> QED
      BY <1>4, <2>1, <2>2, <2>3, <2>4 DEF RunStep
  <1> QED
    BY <1>1, <1>2, <1>3, <1>4 DEF Next

-----------------------------------------------------------------------------
(* Sums over the runs *)

\* The POSTs can be numbered.
Numbered(rank) ==
    /\ rank \in [Runs -> Nat]
    /\ \A q, r \in Runs : rank[q] = rank[r] => q = r

Countable == \E rank \in [Runs -> Nat] : \A q, r \in Runs : rank[q] = rank[r] => q = r

\* What the runs were charged adds up to at most room: due[r] bounds the sum
\* over the runs up to r.
Covers(rank, due, paid, room) ==
    /\ due \in [Runs -> Nat]
    /\ \A r \in Runs : paid[r] <= due[r] /\ due[r] <= room
    /\ \A q, r \in Runs : rank[q] < rank[r] => due[q] + paid[r] <= due[r]

Fits(rank, paid, room) == \E due \in [Runs -> Nat] : Covers(rank, due, paid, room)

LEMMA FitsNone ==
    ASSUME NEW rank, NEW paid \in [Runs -> Nat], NEW room \in Nat,
           \A r \in Runs : paid[r] = 0
    PROVE  Fits(rank, paid, room)
  <1>1. PICK due : due = [r \in Runs |-> 0]
    OBVIOUS
  <1>2. Covers(rank, due, paid, room)
    BY <1>1 DEF Covers
  <1> QED
    BY <1>2 DEF Fits, Covers

LEMMA FitsLess ==
    ASSUME NEW rank, NEW paid \in [Runs -> Nat], NEW less \in [Runs -> Nat],
           NEW room \in Nat, NEW more \in Nat, room <= more,
           \A r \in Runs : less[r] <= paid[r],
           Fits(rank, paid, room)
    PROVE  Fits(rank, less, more)
  <1>1. PICK due \in [Runs -> Nat] : Covers(rank, due, paid, room)
    BY DEF Fits
  <1>2. Covers(rank, due, less, more)
    <2>1. ASSUME NEW r \in Runs
          PROVE  less[r] <= due[r] /\ due[r] <= more
      <3>1. paid[r] \in Nat /\ less[r] \in Nat /\ due[r] \in Nat /\ less[r] <= paid[r]
        OBVIOUS
      <3>2. paid[r] <= due[r] /\ due[r] <= room
        BY <1>1 DEF Covers
      <3> QED
        BY <3>1, <3>2
    <2>2. ASSUME NEW q \in Runs, NEW r \in Runs, rank[q] < rank[r]
          PROVE  due[q] + less[r] <= due[r]
      <3>1. paid[r] \in Nat /\ less[r] \in Nat /\ due[r] \in Nat /\ due[q] \in Nat /\ less[r] <= paid[r]
        OBVIOUS
      <3>2. due[q] + paid[r] <= due[r]
        BY <1>1, <2>2 DEF Covers
      <3> QED
        BY <3>1, <3>2
    <2> QED
      BY <2>1, <2>2 DEF Covers
  <1> QED
    BY <1>2 DEF Fits

\* A run is charged v.
LEMMA FitsMore ==
    ASSUME NEW rank, Numbered(rank), NEW paid \in [Runs -> Nat], NEW room \in Nat,
           NEW r \in Runs, NEW v \in Nat, Fits(rank, paid, room)
    PROVE  Fits(rank, [paid EXCEPT ![r] = v], room + v)
  <1>1. PICK due \in [Runs -> Nat] : Covers(rank, due, paid, room)
    BY DEF Fits
  <1>2. PICK next : next = [q \in Runs |-> IF rank[q] < rank[r] THEN due[q] ELSE due[q] + v]
    OBVIOUS
  <1>3. PICK charged : charged = [paid EXCEPT ![r] = v]
    OBVIOUS
  <1>4. /\ next \in [Runs -> Nat]
        /\ \A q \in Runs : /\ rank[q] < rank[r] => next[q] = due[q]
                           /\ ~(rank[q] < rank[r]) => next[q] = due[q] + v
    BY <1>2
  <1>5. \A q \in Runs : charged[q] = IF q = r THEN v ELSE paid[q]
    BY <1>3
  <1>6. ASSUME NEW q \in Runs
        PROVE  charged[q] <= next[q] /\ next[q] <= room + v
    <2>1. paid[q] \in Nat /\ due[q] \in Nat /\ paid[q] <= due[q] /\ due[q] <= room
      BY <1>1 DEF Covers
    <2>2. next[q] \in {due[q], due[q] + v} /\ (q = r => next[q] = due[q] + v)
      BY <1>4 DEF Numbered
    <2> QED
      BY <1>5, <2>1, <2>2
  <1>7. ASSUME NEW p \in Runs, NEW q \in Runs, rank[p] < rank[q]
        PROVE  next[p] + charged[q] <= next[q]
    <2>1. /\ paid[q] \in Nat /\ due[q] \in Nat /\ due[p] \in Nat
          /\ rank[p] \in Nat /\ rank[q] \in Nat /\ rank[r] \in Nat
          /\ due[p] + paid[q] <= due[q]
      BY <1>1, <1>7 DEF Covers, Numbered
    <2>2. CASE q = r
      <3>1. next[p] = due[p] /\ next[q] = due[q] + v /\ charged[q] = v
        BY <1>4, <1>5, <1>7, <2>1, <2>2
      <3> QED
        BY <2>1, <3>1
    <2>3. CASE q # r
      <3>1. charged[q] = paid[q]
        BY <1>5, <2>3
      <3>2. \/ next[p] = due[p] /\ next[q] \in {due[q], due[q] + v}
            \/ next[p] = due[p] + v /\ next[q] = due[q] + v
        BY <1>4, <1>7, <2>1
      <3> QED
        BY <2>1, <3>1, <3>2
    <2> QED
      BY <2>2, <2>3
  <1>8. Covers(rank, next, charged, room + v)
    BY <1>4, <1>6, <1>7 DEF Covers
  <1> QED
    BY <1>3, <1>4, <1>8 DEF Fits

\* A service does what a run was charged for.
LEMMA FitsDone ==
    ASSUME NEW rank, Numbered(rank), NEW paid \in [Runs -> Nat], NEW room \in Nat,
           NEW r \in Runs, Fits(rank, paid, room)
    PROVE  /\ paid[r] <= room
           /\ Fits(rank, [paid EXCEPT ![r] = 0], room - paid[r])
  <1>1. PICK due \in [Runs -> Nat] : Covers(rank, due, paid, room)
    BY DEF Fits
  <1>2. PICK v : v = paid[r]
    OBVIOUS
  <1>3. v \in Nat /\ due[r] \in Nat /\ v <= due[r] /\ due[r] <= room
    BY <1>1, <1>2 DEF Covers
  <1>4. \A q \in Runs : /\ rank[q] \in Nat /\ rank[r] \in Nat
                        /\ due[q] \in Nat /\ paid[q] \in Nat
                        /\ q # r => rank[q] < rank[r] \/ rank[r] < rank[q]
    <2>1. \A q \in Runs : rank[q] \in Nat /\ due[q] \in Nat /\ paid[q] \in Nat
      BY DEF Numbered
    <2>2. \A q \in Runs : q # r => rank[q] # rank[r]
      BY DEF Numbered
    <2> QED
      BY <2>1, <2>2
  <1>5. ASSUME NEW q \in Runs
        PROVE  /\ rank[q] < rank[r] => due[q] + v <= due[r]
               /\ ~(rank[q] < rank[r]) => due[q] >= v + (IF q = r THEN 0 ELSE paid[q]) /\ due[q] >= due[r]
    <2>1. CASE rank[q] < rank[r]
      BY <1>1, <1>2, <2>1 DEF Covers
    <2>2. CASE q = r
      BY <1>3, <1>4, <2>2
    <2>3. CASE rank[r] < rank[q] /\ q # r
      <3>1. due[r] + paid[q] <= due[q]
        BY <1>1, <2>3 DEF Covers
      <3> QED
        BY <1>3, <1>4, <2>3, <3>1
    <2> QED
      BY <1>4, <2>1, <2>2, <2>3
  <1>6. PICK next : next = [q \in Runs |-> IF rank[q] < rank[r] THEN due[q] ELSE due[q] - v]
    OBVIOUS
  <1>7. PICK left : left = [paid EXCEPT ![r] = 0]
    OBVIOUS
  <1>8. \A q \in Runs : /\ left[q] = IF q = r THEN 0 ELSE paid[q]
                        /\ rank[q] < rank[r] => next[q] = due[q]
                        /\ ~(rank[q] < rank[r]) => next[q] = due[q] - v
    BY <1>6, <1>7
  <1>9. ASSUME NEW q \in Runs
        PROVE  next[q] \in Nat /\ left[q] <= next[q] /\ next[q] <= room - v
    <2>1. paid[q] <= due[q] /\ due[q] <= room
      BY <1>1 DEF Covers
    <2>2. CASE rank[q] < rank[r]
      <3>1. q # r
        BY <1>4, <2>2
      <3> QED
        BY <1>3, <1>4, <1>5, <1>8, <2>1, <2>2, <3>1
    <2>3. CASE ~(rank[q] < rank[r])
      <3>1. next[q] = due[q] - v /\ due[q] >= v + left[q] /\ left[q] \in Nat
        BY <1>4, <1>5, <1>8, <2>3
      <3> QED
        BY <1>3, <1>4, <2>1, <3>1
    <2> QED
      BY <2>2, <2>3
  <1>10. ASSUME NEW p \in Runs, NEW q \in Runs, rank[p] < rank[q]
         PROVE  next[p] + left[q] <= next[q]
    <2>1. due[p] + paid[q] <= due[q] /\ due[p] \in Nat /\ due[q] \in Nat /\ paid[q] \in Nat
      BY <1>1, <1>4, <1>10 DEF Covers
    <2>2. left[q] \in Nat /\ left[q] <= paid[q] /\ (q = r => left[q] = 0)
      BY <1>8, <2>1
    <2>3. CASE rank[q] < rank[r]
      <3>1. rank[p] < rank[r]
        BY <1>4, <1>10, <2>3
      <3>2. next[p] = due[p] /\ next[q] = due[q]
        BY <1>8, <2>3, <3>1
      <3> QED
        BY <2>1, <2>2, <3>2
    <2>4. CASE ~(rank[p] < rank[r])
      <3>1. ~(rank[q] < rank[r])
        BY <1>4, <1>10, <2>4
      <3>2. next[p] = due[p] - v /\ next[q] = due[q] - v
        BY <1>8, <2>4, <3>1
      <3> QED
        BY <1>3, <2>1, <2>2, <3>2
    <2>5. CASE rank[p] < rank[r] /\ ~(rank[q] < rank[r])
      <3>1. next[p] = due[p] /\ next[q] = due[q] - v /\ due[p] + v <= due[r]
        BY <1>5, <1>8, <2>5
      <3>2. CASE q = r
        BY <1>3, <2>1, <2>2, <3>1, <3>2
      <3>3. CASE q # r
        <4>1. rank[r] < rank[q]
          BY <1>4, <2>5, <3>3
        <4>2. due[r] + paid[q] <= due[q]
          BY <1>1, <4>1 DEF Covers
        <4> QED
          BY <1>3, <2>1, <2>2, <3>1, <4>2
      <3> QED
        BY <3>2, <3>3
    <2> QED
      BY <2>3, <2>4, <2>5
  <1>11. next \in [Runs -> Nat]
    <2>1. next = [q \in Runs |-> next[q]]
      BY <1>6
    <2> QED
      BY <1>9, <2>1
  <1>12. Covers(rank, next, left, room - v)
    BY <1>9, <1>10, <1>11 DEF Covers
  <1> QED
    BY <1>2, <1>3, <1>7, <1>11, <1>12 DEF Fits

-----------------------------------------------------------------------------
(* The coins of a session *)

Kept(s) == IF state[s].budget < 0 THEN 0 ELSE state[s].budget
PaidFor(s) == [r \in Runs |-> IF run[r].session = s THEN run[r].paid ELSE 0]

\* What was done for a session, what its runs paid for and what it has left
\* are together the orchestrator's seed, or less.
CoinsOf(s, rank) ==
    /\ spent[s] + Kept(s) <= CoinBudget
    /\ s > made => spent[s] = 0
    /\ Fits(rank, PaidFor(s), CoinBudget - (spent[s] + Kept(s)))

CoinInv(rank) ==
    /\ \A r \in Runs : IsWorking(run[r]) \/ run[r].paid = 0
    /\ \A s \in Sessions : CoinsOf(s, rank)

CoinTypes == \A s \in Sessions :
    /\ Kept(s) \in Nat /\ spent[s] \in Nat /\ PaidFor(s) \in [Runs -> Nat]
    /\ made \in Nat /\ s \in Nat /\ CoinBudget \in Nat
    /\ state[s].budget \in -1 .. CoinBudget
    /\ \A r \in Runs : run[r].paid \in Nat

LEMMA CoinsHaveTypes == SessionInv => CoinTypes
  <1>. SUFFICES ASSUME SessionInv PROVE CoinTypes
    OBVIOUS
  <1>. SUFFICES ASSUME NEW s \in Sessions
                PROVE  /\ Kept(s) \in Nat /\ spent[s] \in Nat /\ PaidFor(s) \in [Runs -> Nat]
                       /\ made \in Nat /\ s \in Nat /\ CoinBudget \in Nat
                       /\ state[s].budget \in -1 .. CoinBudget
                       /\ \A r \in Runs : run[r].paid \in Nat
    BY DEF CoinTypes
  <1>1. state[s] \in SessionState /\ CoinBudget \in Nat /\ spent[s] \in Nat /\ made \in Nat /\ s \in Nat
    BY BirdAssumption DEF SessionInv, SessionTypes, Sessions
  <1>2. state[s].budget \in -1 .. CoinBudget
    BY <1>1 DEF SessionState, SessionRecord, Questions
  <1>3. \A r \in Runs : run[r].paid \in Nat
    BY RunFields DEF SessionInv, SessionTypes
  <1>4. PaidFor(s) \in [Runs -> Nat]
    BY <1>3 DEF PaidFor
  <1>5. Kept(s) \in Nat
    BY <1>1, <1>2 DEF Kept
  <1> QED
    BY <1>1, <1>2, <1>3, <1>4, <1>5

\* A step that charges nothing for a session and does nothing for it.
LEMMA CoinsStay ==
    ASSUME SessionInv, SessionInv', NEW rank, NEW s \in Sessions, CoinsOf(s, rank),
           spent'[s] = spent[s], made' >= made, state'[s].budget <= state[s].budget,
           \A r \in Runs : \/ run'[r].session = s => run[r].session = s /\ run'[r].paid = run[r].paid
                           \/ run'[r].paid = 0
    PROVE  CoinsOf(s, rank)'
  <1>1. /\ Kept(s) \in Nat /\ spent[s] \in Nat /\ PaidFor(s) \in [Runs -> Nat]
        /\ made \in Nat /\ s \in Nat /\ CoinBudget \in Nat
        /\ state[s].budget \in -1 .. CoinBudget /\ \A r \in Runs : run[r].paid \in Nat
    BY CoinsHaveTypes DEF CoinTypes
  <1>2. /\ Kept(s)' \in Nat /\ PaidFor(s)' \in [Runs -> Nat] /\ made' \in Nat
        /\ state'[s].budget \in -1 .. CoinBudget /\ \A r \in Runs : run'[r].paid \in Nat
    <2>1. CoinTypes'
      BY CoinsHaveTypes, PTL
    <2> QED
      BY <2>1 DEF CoinTypes
  <1>3. Kept(s)' <= Kept(s)
    BY <1>1, <1>2 DEF Kept
  <1>4. PICK room, more : /\ room = CoinBudget - (spent[s] + Kept(s))
                          /\ more = CoinBudget - (spent'[s] + Kept(s)')
    OBVIOUS
  <1>5. /\ room \in Nat /\ more \in Nat /\ room <= more
        /\ spent'[s] + Kept(s)' <= CoinBudget
        /\ s > made' => spent'[s] = 0
    BY <1>1, <1>2, <1>3, <1>4 DEF CoinsOf
  <1>6. \A r \in Runs : PaidFor(s)'[r] <= PaidFor(s)[r]
    BY <1>1, <1>2 DEF PaidFor
  <1>7. Fits(rank, PaidFor(s), room)
    BY <1>4 DEF CoinsOf
  <1>8. Fits(rank, PaidFor(s)', more)
    BY <1>1, <1>2, <1>5, <1>6, <1>7, FitsLess
  <1> QED
    BY <1>4, <1>5, <1>8 DEF CoinsOf, Fits, Covers

\* Steps that neither charge nor do anything.
LEMMA CoinsOfOthers ==
    ASSUME SessionInv, NEW r \in Runs,
           \/ StopLoop(r) \/ AskModel(r) \/ ModelEnds(r)
           \/ \E batch \in Batches \cup Candidates : ModelAsksTools(r, batch)
           \/ Refuse(r) \/ NextTurn(r) \/ StopRepeated(r)
           \/ ServiceRejects(r) \/ ReplyLost(r) \/ ReplyArrives(r)
    PROVE  /\ UNCHANGED <<spent, made>> /\ IsWorking(run[r])
           /\ \A s \in Sessions : state'[s].budget = state[s].budget
           /\ \A q \in Runs : \/ run'[q].session = run[q].session /\ run'[q].paid = run[q].paid
                              \/ run'[q].paid = 0
           /\ \A q \in Runs : q # r => run'[q] = run[q]
           /\ IsWorking(run'[r]) \/ run'[r].paid = 0
  <1>0. /\ UNCHANGED <<spent, made>> /\ IsWorking(run[r])
        /\ state \in [Sessions -> SessionState] /\ run \in [Runs -> RunRecord]
        /\ \A q \in Runs : DOMAIN run[q] = {"pc", "session", "calls", "tools", "batch", "asked", "last", "sent", "paid", "reply"}
    BY RunFields, ZenonT(60) DEF SessionInv, SessionTypes, IsWorking, OnlyRun, IsBatchDone, StopLoop, AskModel, ModelEnds,
           ModelAsksTools, Refuse, NextTurn, StopRepeated, ServiceRejects, ReplyLost, ReplyArrives
  <1>1. \A s \in Sessions : state'[s].budget = state[s].budget
    <2>1. CASE UNCHANGED state
      BY <2>1
    <2>2. CASE AskModel(r) /\ ~UNCHANGED state
      <3>1. state' = [state EXCEPT ![run[r].session].turns = @ + 1]
        BY <2>2 DEF AskModel
      <3>2. \A s \in Sessions : DOMAIN state[s] = {"seeded", "budget", "asks", "turns", "submitted", "last", "phase1", "phase2", "done"}
        BY <1>0 DEF SessionState, SessionRecord, Questions
      <3>3. ASSUME NEW s \in Sessions PROVE state'[s].budget = state[s].budget
        <4>1. state'[s] = state[s] \/ state'[s] = [state[s] EXCEPT !.turns = @ + 1]
          BY <1>0, <3>1
        <4> QED
          BY <3>2, <4>1
      <3> QED
        BY <3>3
    <2>3. CASE ReplyArrives(r)
      <3>1. PICK next : next = AfterTool(state[run[r].session], Action(r), run[r].reply)
        OBVIOUS
      <3>2. state' = [state EXCEPT ![run[r].session] = next]
        BY <1>0, <2>3, <3>1 DEF ReplyArrives
      <3>3. /\ state[run[r].session] \in SessionState /\ run[r].reply \in Replies
            /\ setup.mode = "c" /\ Action(r) = "ask_user" => state[run[r].session].asks < Questions(state[run[r].session])
        <4>1. run[r].reply \in Replies
          BY <1>0, RunFields
        <4>2. /\ Agree(run[r], state[run[r].session], asked[run[r].session])
              /\ state[run[r].session] \in SessionState
          BY <1>0, WorkingSession
        <4>3. IsAtService(run[r])
          BY <2>3 DEF ReplyArrives, IsAtService
        <4> QED
          BY <1>0, <4>1, <4>2, <4>3 DEF Agree, Action
      <3>4. next.budget = state[run[r].session].budget
        BY <3>1, <3>3, AfterToolTypes
      <3> QED
        BY <1>0, <3>2, <3>4
    <2> QED
      BY <2>1, <2>2, <2>3 DEF OnlyRun, StopLoop, AskModel, ModelEnds, ModelAsksTools, Refuse, NextTurn,
             StopRepeated, ServiceRejects, ReplyLost, ReplyArrives
  <1>2. \A q \in Runs : q # r => run'[q] = run[q]
    BY <1>0 DEF Ended, StopLoop, AskModel, ModelEnds, ModelAsksTools, Refuse, NextTurn,
           StopRepeated, ServiceRejects, ReplyLost, ReplyArrives
  <1>3. CASE Ended(r)
    <2>1. run'[r] = [NewRun EXCEPT !.pc = "ended", !.session = run[r].session]
      BY <1>0, <1>3 DEF Ended
    <2>2. run[r].session \in Sessions \cup {NoSession}
      BY <1>0, RunFields
    <2>3. run'[r].paid = 0
      BY <2>1, <2>2, NewRunType
    <2> QED
      BY <1>0, <1>1, <1>2, <2>3
  <1>4. ASSUME ~Ended(r)
        PROVE  run'[r].session = run[r].session /\ run'[r].paid = run[r].paid /\ IsWorking(run'[r])
    <2>0. r \in DOMAIN run
      BY <1>0
    <2>1. CASE AskModel(r)
      BY <1>0, <2>0, <2>1 DEF AskModel, IsWorking
    <2>2. CASE \E batch \in Batches \cup Candidates : ModelAsksTools(r, batch)
      <3>1. PICK batch \in Batches \cup Candidates : ModelAsksTools(r, batch)
        BY <2>2
      <3>2. PICK tools : tools = IF setup.mode = "a" THEN run[r].tools + Len(batch) ELSE run[r].tools
        OBVIOUS
      <3>3. run' = [run EXCEPT ![r].pc = "executing", ![r].batch = batch, ![r].asked = batch,
                               ![r].tools = tools]
        BY <1>0, <1>4, <3>1, <3>2 DEF ModelAsksTools
      <3>4. run'[r] = [run[r] EXCEPT !.pc = "executing", !.batch = batch, !.asked = batch, !.tools = tools]
        BY <1>0, <2>0, <3>3
      <3> QED
        BY <1>0, <3>4 DEF IsWorking
    <2>3. CASE Refuse(r)
      BY <1>0, <2>0, <2>3 DEF Refuse, IsWorking
    <2>4. CASE NextTurn(r)
      BY <1>0, <1>4, <2>0, <2>4 DEF NextTurn, IsWorking
    <2>5. CASE ServiceRejects(r)
      BY <1>0, <1>4, <2>0, <2>5 DEF ServiceRejects, IsWorking
    <2>6. CASE ReplyLost(r)
      BY <1>0, <1>4, <2>0, <2>6 DEF ReplyLost, IsWorking
    <2>7. CASE ReplyArrives(r)
      BY <1>0, <2>0, <2>7 DEF ReplyArrives, IsWorking
    <2> QED
      BY <1>4, <2>1, <2>2, <2>3, <2>4, <2>5, <2>6, <2>7 DEF StopLoop, ModelEnds, StopRepeated
  <1> QED
    BY <1>0, <1>1, <1>2, <1>3, <1>4

LEMMA CoinsAtBegin ==
    ASSUME SessionInv, SessionInv', NEW rank, CoinInv(rank),
           InitSession \/ \E r \in Runs : RunSession(r)
    PROVE  CoinInv(rank)'
  <1>0. /\ MaxSessions \in Nat \ {0} /\ CoinBudget \in Nat /\ made \in 0 .. MaxSessions
        /\ current \in 0 .. made /\ CoinTypes
        /\ state \in [Sessions -> SessionState] /\ run \in [Runs -> RunRecord]
        /\ \A q \in Runs : DOMAIN run[q] = {"pc", "session", "calls", "tools", "batch", "asked", "last", "sent", "paid", "reply"}
    BY BirdAssumption, CoinsHaveTypes, RunFields DEF SessionInv, SessionTypes
  <1>1. CASE InitSession
    <2>1. /\ made' = made + 1 /\ UNCHANGED <<run, spent>>
          /\ state' = [state EXCEPT ![made + 1] = NewState(CoinBudget, TRUE)]
          /\ made + 1 \in Sessions
      BY <1>0, <1>1 DEF InitSession, Sessions
    <2>2. ASSUME NEW s \in Sessions, s # made + 1
          PROVE  CoinsOf(s, rank)'
      <3>1. /\ spent'[s] = spent[s] /\ made' >= made /\ state'[s].budget <= state[s].budget
            /\ \A r \in Runs : run'[r].session = run[r].session /\ run'[r].paid = run[r].paid
        BY <1>0, <2>1, <2>2 DEF CoinTypes
      <3> QED
        BY <3>1, CoinsStay DEF CoinInv
    <2>3. ASSUME NEW s \in Sessions, s = made + 1
          PROVE  CoinsOf(s, rank)'
      <3>1. s = made + 1
        BY <2>3
      <3>2. /\ s \in Sessions /\ spent'[s] = 0 /\ ~(s > made')
        BY <1>0, <2>1, <3>1 DEF CoinInv, CoinsOf, CoinTypes
      <3>3. state'[s].budget = CoinBudget /\ Kept(s)' = CoinBudget
        BY <1>0, <2>1, <3>1 DEF NewState, Unseeded, Kept
      <3>4. \A r \in Runs : run'[r].session = s => run'[r].paid = 0
        <4>1. \A r \in Runs : run[r].session = s => ~IsWorking(run[r])
          BY <1>0, <3>1 DEF SessionInv
        <4> QED
          BY <2>1, <4>1 DEF CoinInv
      <3>5. PICK paid : paid = PaidFor(s)'
        OBVIOUS
      <3>6. paid \in [Runs -> Nat] /\ \A r \in Runs : paid[r] = 0
        BY <3>4, <3>5 DEF PaidFor
      <3>7. Fits(rank, paid, 0)
        BY <3>6, FitsNone
      <3>8. CoinBudget - (spent'[s] + Kept(s)') = 0 /\ spent'[s] + Kept(s)' <= CoinBudget
        BY <1>0, <3>2, <3>3
      <3> QED
        BY <3>2, <3>5, <3>7, <3>8 DEF CoinsOf, Fits, Covers
    <2>4. (\A s \in Sessions : CoinsOf(s, rank))'
      BY <2>1, <2>2, <2>3
    <2> QED
      BY <2>1, <2>4 DEF CoinInv, IsWorking
  <1>2. ASSUME NEW r \in Runs, RunSession(r)
        PROVE  CoinInv(rank)'
    <2>1. PICK s : s = IF current = NoSession THEN made + 1 ELSE current
      OBVIOUS
    <2>2. /\ s \in Sessions /\ made' = (IF s > made THEN s ELSE made)
          /\ state' = [state EXCEPT ![s] = Entered(@)] /\ UNCHANGED spent
          /\ run[r].pc = "idle"
      BY <1>2, <2>1 DEF RunSession
    <2>3. made' >= made
      BY <1>0, <2>2 DEF Sessions
    <2>4. \A q \in Sessions : state'[q].budget = state[q].budget
      <3>1. \A q \in Sessions : DOMAIN state[q] = {"seeded", "budget", "asks", "turns", "submitted", "last", "phase1", "phase2", "done"}
        BY <1>0 DEF SessionState, SessionRecord, Questions
      <3>2. Entered(state[s]).budget = state[s].budget
        BY <2>2, <3>1 DEF Entered
      <3> QED
        BY <1>0, <2>2, <3>2
    <2>5. PICK pc : pc = IF setup.mode = "c" /\ setup.ablation /\ state[s].last = "failed"
                         THEN "ended" ELSE "loop"
      OBVIOUS
    <2>6. run'[r] = [run[r] EXCEPT !.session = s, !.pc = pc]
      BY <1>0, <1>2, <2>1, <2>5 DEF RunSession
    <2>7. run'[r].paid = 0
      <3>1. run[r].paid = 0
        BY <2>2 DEF CoinInv, IsWorking
      <3> QED
        BY <1>0, <2>6, <3>1
    <2>8. \A q \in Runs : q # r => run'[q] = run[q]
      BY <1>0, <1>2 DEF RunSession
    <2>9. ASSUME NEW q \in Sessions
          PROVE  CoinsOf(q, rank)'
      <3>1. spent'[q] = spent[q] /\ state'[q].budget <= state[q].budget
        BY <1>0, <2>2, <2>4 DEF CoinTypes
      <3> QED
        BY <2>3, <2>7, <2>8, <3>1, CoinsStay DEF CoinInv
    <2>10. (\A q \in Sessions : CoinsOf(q, rank))'
      BY <2>9
    <2>11. \A q \in Runs : IsWorking(run'[q]) \/ run'[q].paid = 0
      BY <2>7, <2>8 DEF CoinInv
    <2> QED
      BY <2>10, <2>11 DEF CoinInv, IsWorking
  <1> QED
    BY <1>1, <1>2

LEMMA CoinsAtRestart ==
    ASSUME SessionInv, SessionInv', NEW rank, CoinInv(rank), ServerRestarts
    PROVE  CoinInv(rank)'
  <1>1. /\ UNCHANGED <<state, made, spent>> /\ run \in [Runs -> RunRecord] /\ CoinTypes
    BY CoinsHaveTypes DEF ServerRestarts, SessionInv, SessionTypes
  <1>2. ASSUME NEW r \in Runs
        PROVE  run'[r] = run[r] \/ run'[r].paid = 0
    <2>1. PICK s : s = run[r].session
      OBVIOUS
    <2>2. run'[r] = run[r] \/ run'[r] = [NewRun EXCEPT !.pc = "ended", !.session = s]
      BY <2>1 DEF ServerRestarts
    <2>3. s \in Sessions \cup {NoSession}
      BY <1>1, <2>1, RunFields
    <2> QED
      BY <2>2, <2>3, NewRunType
  <1>3. ASSUME NEW s \in Sessions
        PROVE  CoinsOf(s, rank)'
    <2>1. spent'[s] = spent[s] /\ made' >= made /\ state'[s].budget <= state[s].budget
      BY <1>1 DEF CoinTypes
    <2> QED
      BY <1>2, <2>1, CoinsStay DEF CoinInv
  <1>4. (\A s \in Sessions : CoinsOf(s, rank))'
    BY <1>3
  <1>5. \A r \in Runs : IsWorking(run'[r]) \/ run'[r].paid = 0
    BY <1>2 DEF CoinInv
  <1> QED
    BY <1>4, <1>5 DEF CoinInv, IsWorking

LEMMA CoinsAtRest ==
    ASSUME SessionInv, SessionInv', NEW rank, CoinInv(rank), NEW r \in Runs,
           \/ StopLoop(r) \/ AskModel(r) \/ ModelEnds(r)
           \/ \E batch \in Batches \cup Candidates : ModelAsksTools(r, batch)
           \/ Refuse(r) \/ NextTurn(r) \/ StopRepeated(r)
           \/ ServiceRejects(r) \/ ReplyLost(r) \/ ReplyArrives(r)
    PROVE  CoinInv(rank)'
  <1>1. /\ UNCHANGED <<spent, made>> /\ IsWorking(run[r])
        /\ \A s \in Sessions : state'[s].budget = state[s].budget
        /\ \A q \in Runs : \/ run'[q].session = run[q].session /\ run'[q].paid = run[q].paid
                           \/ run'[q].paid = 0
        /\ \A q \in Runs : q # r => run'[q] = run[q]
        /\ IsWorking(run'[r]) \/ run'[r].paid = 0
    BY CoinsOfOthers
  <1>2. CoinTypes
    BY CoinsHaveTypes
  <1>3. ASSUME NEW s \in Sessions
        PROVE  CoinsOf(s, rank)'
    <2>1. spent'[s] = spent[s] /\ made' >= made /\ state'[s].budget <= state[s].budget
      BY <1>1, <1>2 DEF CoinTypes
    <2> QED
      BY <1>1, <2>1, CoinsStay DEF CoinInv
  <1>4. (\A s \in Sessions : CoinsOf(s, rank))'
    BY <1>3
  <1>5. \A q \in Runs : IsWorking(run'[q]) \/ run'[q].paid = 0
    BY <1>1 DEF CoinInv
  <1> QED
    BY <1>4, <1>5 DEF CoinInv, IsWorking

LEMMA CoinsAtSend ==
    ASSUME SessionInv, SessionInv', NEW rank, Numbered(rank), CoinInv(rank), NEW r \in Runs, SendAction(r)
    PROVE  CoinInv(rank)'
  <1>0. /\ IsWorking(run[r]) /\ UNCHANGED <<spent, made>> /\ CoinTypes
        /\ run[r].pc = "executing" /\ run[r].batch # <<>> /\ ~IsRefused(SessionOf(r), Action(r))
    BY CoinsHaveTypes DEF SendAction, IsWorking
  <1>1. /\ run[r] \in RunRecord /\ run \in [Runs -> RunRecord]
        /\ run[r].session \in Sessions
        /\ state \in [Sessions -> SessionState] /\ SessionOf(r) \in SessionState
    BY <1>0, WorkingSession DEF SessionOf
  <1>2. Action(r) \in Actions
    BY <1>0, <1>1, RunFields, BatchesOfActions DEF Action
  <1>3. PICK v : v = IF setup.mode = "a" /\ ~IsFreeExit(SessionOf(r), Action(r))
                     THEN Cost[Action(r)] ELSE 0
    OBVIOUS
  <1>4. v \in Nat
    BY <1>2, <1>3, BirdAssumption
  <1>5. run'[r] = [run[r] EXCEPT !.pc = "sending", !.sent = 1, !.paid = v]
    BY <1>1, <1>3 DEF SendAction
  <1>6. /\ run'[r].session = run[r].session /\ run'[r].paid = v /\ IsWorking(run'[r])
        /\ \A q \in Runs : q # r => run'[q] = run[q]
    <2>1. DOMAIN run[r] = {"pc", "session", "calls", "tools", "batch", "asked", "last", "sent", "paid", "reply"}
      BY <1>1, RunFields
    <2>2. \A q \in Runs : q # r => run'[q] = run[q]
      BY <1>1 DEF SendAction
    <2> QED
      BY <1>5, <2>1, <2>2 DEF IsWorking
  <1>7. PICK s \in Sessions : s = run[r].session
    BY <1>1
  <1>8. \A q \in Sessions : q # s => state'[q] = state[q]
    BY <1>1, <1>7 DEF SendAction
  <1>9. ASSUME NEW q \in Sessions, q # s
        PROVE  CoinsOf(q, rank)'
    <2>1. spent'[q] = spent[q] /\ made' >= made /\ state'[q].budget <= state[q].budget
      BY <1>0, <1>8, <1>9 DEF CoinTypes
    <2>2. \A p \in Runs : run'[p].session = q => run[p].session = q /\ run'[p].paid = run[p].paid
      BY <1>6, <1>7, <1>9
    <2> QED
      BY <2>1, <2>2, CoinsStay DEF CoinInv
  <1>10. Kept(s)' + v <= Kept(s) /\ Kept(s)' \in Nat
    <2>1. state[s].budget \in -1 .. CoinBudget /\ CoinBudget \in Nat
      BY <1>0 DEF CoinTypes
    <2>2. CASE setup.mode = "a"
      <3>1. PICK next : next = Charged(SessionOf(r), Action(r))
        OBVIOUS
      <3>2. state'[s] = next /\ SessionOf(r) = state[s]
        BY <1>1, <1>7, <2>2, <3>1 DEF SendAction, SessionOf
      <3>3. CASE IsFreeExit(SessionOf(r), Action(r))
        <4>1. next.budget = -1 /\ v = 0
          BY <1>0, <1>1, <1>2, <1>3, <2>2, <3>1, <3>3, ChargedTypes
        <4> QED
          BY <2>1, <3>2, <4>1 DEF Kept
      <3>4. CASE ~IsFreeExit(SessionOf(r), Action(r))
        <4>1. v = Cost[Action(r)] /\ Cost[Action(r)] \in Nat
          BY <1>2, <1>3, <2>2, <3>4, BirdAssumption
        <4>2. /\ next.budget \in {-1, SessionOf(r).budget - Cost[Action(r)]}
              /\ SessionOf(r).budget >= Cost[Action(r)]
          BY <1>0, <1>1, <1>2, <2>2, <3>1, <3>4, ChargedTypes
        <4>3. next.budget \in {-1, state[s].budget - v} /\ state[s].budget >= v
          BY <3>2, <4>1, <4>2
        <4> QED
          BY <1>4, <2>1, <3>2, <4>3 DEF Kept
      <3> QED
        BY <3>3, <3>4
    <2>3. CASE setup.mode # "a"
      <3>1. state' = state /\ v = 0
        BY <1>3, <2>3 DEF SendAction
      <3> QED
        BY <2>1, <3>1 DEF Kept
    <2> QED
      BY <2>2, <2>3
  <1>11. CoinsOf(s, rank)'
    <2>1. PICK room, more : /\ room = CoinBudget - (spent[s] + Kept(s))
                            /\ more = CoinBudget - (spent'[s] + Kept(s)')
      OBVIOUS
    <2>2. PICK paid, charged : paid = PaidFor(s) /\ charged = PaidFor(s)'
      OBVIOUS
    <2>3. /\ spent[s] \in Nat /\ Kept(s) \in Nat /\ CoinBudget \in Nat /\ paid \in [Runs -> Nat]
          /\ spent[s] + Kept(s) <= CoinBudget /\ Fits(rank, paid, room)
          /\ s > made => spent[s] = 0
      BY <1>0, <2>1, <2>2 DEF CoinTypes, CoinInv, CoinsOf
    <2>4. /\ room \in Nat /\ more \in Nat /\ room + v <= more /\ room + v \in Nat
          /\ spent'[s] = spent[s] /\ spent'[s] + Kept(s)' <= CoinBudget
      <3>1. spent'[s] = spent[s]
        BY <1>0
      <3>2. PICK done, kept, rest : done = spent[s] /\ kept = Kept(s) /\ rest = Kept(s)'
        OBVIOUS
      <3>3. /\ done \in Nat /\ kept \in Nat /\ rest \in Nat /\ v \in Nat /\ CoinBudget \in Nat
            /\ rest + v <= kept /\ done + kept <= CoinBudget
            /\ room = CoinBudget - (done + kept) /\ more = CoinBudget - (done + rest)
        BY <1>4, <1>10, <2>1, <2>3, <3>1, <3>2
      <3>4. room \in Nat /\ more \in Nat /\ room + v <= more /\ room + v \in Nat /\ done + rest <= CoinBudget
        BY <3>3
      <3> QED
        BY <3>1, <3>2, <3>4
    <2>5. charged = [paid EXCEPT ![r] = v]
      BY <1>6, <1>7, <2>2 DEF PaidFor
    <2>6. charged \in [Runs -> Nat]
      BY <1>4, <2>3, <2>5
    <2>7. Fits(rank, charged, room + v)
      BY <1>4, <2>3, <2>4, <2>5, FitsMore
    <2>8. \A q \in Runs : charged[q] <= charged[q]
      <3>1. \A q \in Runs : charged[q] \in Nat
        BY <2>6
      <3> QED
        BY <3>1
    <2>9. Fits(rank, charged, more)
      BY <2>4, <2>6, <2>7, <2>8, FitsLess
    <2> QED
      BY <1>0, <2>1, <2>2, <2>3, <2>4, <2>9 DEF CoinsOf, Fits, Covers
  <1>12. (\A q \in Sessions : CoinsOf(q, rank))'
    BY <1>9, <1>11
  <1>13. \A q \in Runs : IsWorking(run'[q]) \/ run'[q].paid = 0
    BY <1>6 DEF CoinInv
  <1> QED
    BY <1>12, <1>13 DEF CoinInv, IsWorking

LEMMA CoinsAtService ==
    ASSUME SessionInv, SessionInv', NEW rank, Numbered(rank), CoinInv(rank), NEW r \in Runs,
           NEW reply \in Replies, ServiceExecutes(r, reply)
    PROVE  CoinInv(rank)'
  <1>0. IsWorking(run[r]) /\ UNCHANGED <<state, made>> /\ CoinTypes /\ spent \in [Sessions -> Nat]
    BY CoinsHaveTypes DEF ServiceExecutes, IsWorking, SessionInv, SessionTypes
  <1>1. /\ run[r] \in RunRecord /\ run \in [Runs -> RunRecord] /\ run[r].session \in Sessions
    BY <1>0, WorkingSession
  <1>2. run'[r] = [run[r] EXCEPT !.pc = "replying", !.paid = 0, !.reply = reply]
    BY <1>1 DEF ServiceExecutes
  <1>3. /\ run'[r].session = run[r].session /\ run'[r].paid = 0
        /\ \A q \in Runs : q # r => run'[q] = run[q]
    <2>1. DOMAIN run[r] = {"pc", "session", "calls", "tools", "batch", "asked", "last", "sent", "paid", "reply"}
      BY <1>1, RunFields
    <2>2. \A q \in Runs : q # r => run'[q] = run[q]
      BY <1>1 DEF ServiceExecutes
    <2> QED
      BY <1>2, <2>1, <2>2
  <1>4. PICK s \in Sessions : s = run[r].session
    BY <1>1
  <1>5. PICK v : v = run[r].paid
    OBVIOUS
  <1>6. /\ v \in Nat /\ spent'[s] = spent[s] + v
        /\ \A q \in Sessions : q # s => spent'[q] = spent[q]
    BY <1>0, <1>4, <1>5 DEF ServiceExecutes, CoinTypes
  <1>7. ASSUME NEW q \in Sessions, q # s
        PROVE  CoinsOf(q, rank)'
    <2>1. /\ spent'[q] = spent[q] /\ made' >= made /\ state'[q].budget <= state[q].budget
          /\ \A p \in Runs : \/ run'[p].session = q => run[p].session = q /\ run'[p].paid = run[p].paid
                             \/ run'[p].paid = 0
      BY <1>0, <1>3, <1>6, <1>7 DEF CoinTypes
    <2> QED
      BY <2>1, CoinsStay DEF CoinInv
  <1>8. CoinsOf(s, rank)'
    <2>1. PICK room, more : /\ room = CoinBudget - (spent[s] + Kept(s))
                            /\ more = CoinBudget - (spent'[s] + Kept(s)')
      OBVIOUS
    <2>2. PICK paid, left : paid = PaidFor(s) /\ left = PaidFor(s)'
      OBVIOUS
    <2>3. /\ spent[s] \in Nat /\ Kept(s) \in Nat /\ CoinBudget \in Nat /\ paid \in [Runs -> Nat]
          /\ spent[s] + Kept(s) <= CoinBudget /\ Fits(rank, paid, room)
      BY <1>0, <2>1, <2>2 DEF CoinTypes, CoinInv, CoinsOf
    <2>4. room \in Nat
      BY <2>1, <2>3
    <2>5. paid[r] = v /\ left = [paid EXCEPT ![r] = 0]
      BY <1>3, <1>4, <1>5, <2>2 DEF PaidFor
    <2>6. v <= room /\ Fits(rank, left, room - v)
      BY <2>3, <2>4, <2>5, FitsDone
    <2>7. Kept(s)' = Kept(s)
      BY <1>0 DEF Kept
    <2>8. more = room - v /\ spent'[s] + Kept(s)' <= CoinBudget
      BY <1>6, <2>1, <2>3, <2>6, <2>7
    <2>9. ~(s > made')
      <3>1. s \in 1 .. made
        BY <1>0, <1>4, WorkingSession
      <3> QED
        BY <1>0, <3>1 DEF CoinTypes
    <2> QED
      BY <2>1, <2>2, <2>6, <2>8, <2>9 DEF CoinsOf, Fits, Covers
  <1>9. (\A q \in Sessions : CoinsOf(q, rank))'
    BY <1>7, <1>8
  <1>10. \A q \in Runs : IsWorking(run'[q]) \/ run'[q].paid = 0
    BY <1>3 DEF CoinInv
  <1> QED
    BY <1>9, <1>10 DEF CoinInv, IsWorking

LEMMA CoinSteps ==
    ASSUME SessionInv, SessionInv', [Next]_vars, NEW rank, Numbered(rank), CoinInv(rank)
    PROVE  CoinInv(rank)'
  <1>1. CASE UNCHANGED vars
    BY <1>1 DEF vars, CoinInv, CoinsOf, Kept, PaidFor, IsWorking
  <1>2. CASE InitSession \/ \E r \in Runs : RunSession(r)
    BY <1>2, CoinsAtBegin
  <1>3. CASE ServerRestarts
    BY <1>3, CoinsAtRestart
  <1>4. ASSUME NEW r \in Runs, RunStep(r)
        PROVE  CoinInv(rank)'
    <2>1. CASE \E reply \in Replies : ServiceExecutes(r, reply)
      BY <2>1, CoinsAtService
    <2>2. CASE SendAction(r)
      BY <2>2, CoinsAtSend
    <2>3. CASE \/ StopLoop(r) \/ AskModel(r) \/ ModelEnds(r)
               \/ \E batch \in Batches \cup Candidates : ModelAsksTools(r, batch)
               \/ Refuse(r) \/ NextTurn(r) \/ StopRepeated(r)
               \/ ServiceRejects(r) \/ ReplyLost(r) \/ ReplyArrives(r)
      BY <2>3, CoinsAtRest
    <2> QED
      BY <1>4, <2>1, <2>2, <2>3 DEF RunStep
  <1> QED
    BY <1>1, <1>2, <1>3, <1>4 DEF Next

LEMMA CoinInit ==
    ASSUME Init, NEW rank
    PROVE  CoinInv(rank)
  <1>1. /\ run = [r \in Runs |-> NewRun] /\ state = [s \in Sessions |-> Unseeded]
        /\ spent = [s \in Sessions |-> 0] /\ CoinBudget \in Nat
    BY BirdAssumption DEF Init
  <1>2. \A r \in Runs : run[r].paid = 0
    BY <1>1 DEF NewRun
  <1>3. ASSUME NEW s \in Sessions
        PROVE  CoinsOf(s, rank)
    <2>1. Kept(s) = 0 /\ spent[s] = 0
      BY <1>1 DEF Kept, NewState, Unseeded
    <2>2. PICK paid : paid = PaidFor(s)
      OBVIOUS
    <2>3. paid \in [Runs -> Nat] /\ \A r \in Runs : paid[r] = 0
      BY <1>2, <2>2 DEF PaidFor
    <2>4. PICK room : room = CoinBudget - (spent[s] + Kept(s))
      OBVIOUS
    <2>5. room \in Nat /\ spent[s] + Kept(s) <= CoinBudget
      BY <1>1, <2>1, <2>4
    <2>6. Fits(rank, paid, room)
      BY <2>3, <2>5, FitsNone
    <2> QED
      BY <2>1, <2>2, <2>4, <2>5, <2>6 DEF CoinsOf
  <1> QED
    BY <1>2, <1>3 DEF CoinInv

LEMMA SessionInvImplies == SessionInv => TypeOK
  <1>. SUFFICES ASSUME SessionInv PROVE TypeOK
    OBVIOUS
  <1>1. \A r \in Runs : /\ run[r].pc \in Points
                       /\ run[r].session \in Sessions \cup {NoSession}
                       /\ run[r].calls \in 0 .. MaxModelTurns
                       /\ run[r].tools \in 0 .. MaxModelTurns
                       /\ run[r].sent \in 0 .. MaxStatelessAttempts
                       /\ run[r].reply \in Replies
    BY RunFields DEF SessionInv, SessionTypes
  <1>2. env.phase \in 1 .. Over /\ env.passedBy \in [1 .. 2 -> Sessions \cup {NoSession}]
    BY DEF SessionInv, SessionTypes
  <1> QED
    BY <1>1, <1>2 DEF SessionInv, SessionTypes, TypeOK

LEMMA BudgetsImplied ==
    ASSUME SessionInv, NEW rank, CoinInv(rank)
    PROVE  BudgetsAreKept
  <1>1. ASSUME NEW s \in Sessions
        PROVE  spent[s] <= CoinBudget
    <2>1. spent[s] \in Nat /\ Kept(s) \in Nat /\ CoinBudget \in Nat
      BY CoinsHaveTypes DEF CoinTypes
    <2>2. spent[s] + Kept(s) <= CoinBudget
      BY DEF CoinInv, CoinsOf
    <2> QED
      BY <2>1, <2>2
  <1>2. setup.mode = "c" => \A s \in Sessions : asked[s] <= Questions(state[s])
    BY DEF SessionInv
  <1> QED
    BY <1>1, <1>2 DEF BudgetsAreKept

-----------------------------------------------------------------------------
(* The theorem *)

LEMMA FlagsInit == Init => FlagsInv
  <1>. SUFFICES ASSUME Init PROVE FlagsInv
    OBVIOUS
  <1>1. /\ made = 0 /\ current = 0 /\ MaxSessions \in Nat \ {0}
        /\ state = [s \in Sessions |-> Unseeded] /\ run = [r \in Runs |-> NewRun]
        /\ env = [phase |-> 1, passedBy |-> [p \in Phases |-> NoSession]]
    BY BirdAssumption, Fields DEF Init, EnvInit, Phases
  <1>2. \A r \in Runs : run[r].pc = "idle" /\ IsRun(run[r], {0})
    BY <1>1, Fields, ReplyFields DEF IsRun
  <1>3. 0 .. made = {0} /\ NoSession = 0
    BY <1>1, Fields
  <1>4. Shape
    BY <1>1, <1>2, <1>3, Fields DEF Shape, Numbers
  <1>5. RepliesAreTrue /\ PhasesAreOpen
    BY <1>1, <1>2, Fields DEF RepliesAreTrue, PhasesAreOpen, Tells, Phases
  <1>6. \A s \in Sessions : s # NoSession /\ ~state[s].phase1 /\ ~state[s].phase2 /\ ~state[s].done
    BY <1>1, <1>3 DEF NewState, Unseeded, Sessions
  <1>7. FlagsAreKnown
    BY <1>1, <1>6 DEF FlagsAreKnown, Flag
  <1> QED
    BY <1>4, <1>5, <1>7 DEF FlagsInv

LEMMA FlagsSteps == FlagsInv /\ [Next]_vars => FlagsInv'
  <1>. SUFFICES ASSUME FlagsInv, [Next]_vars PROVE FlagsInv'
    OBVIOUS
  <1>1. CASE InitSession \/ \E r \in Runs : RunSession(r)
    BY <1>1, SessionSteps
  <1>2. CASE ServerRestarts \/ \E r \in Runs : ReplyLost(r)
    BY <1>2, LossSteps
  <1>3. ASSUME NEW r \in Runs,
               \/ StopLoop(r) \/ AskModel(r) \/ ModelEnds(r)
               \/ \E batch \in Batches \cup Candidates : ModelAsksTools(r, batch)
               \/ Refuse(r) \/ SendAction(r) \/ NextTurn(r) \/ StopRepeated(r)
        PROVE  FlagsInv'
    BY <1>3, SilentSteps
  <1>4. ASSUME NEW r \in Runs, ServiceRejects(r)
        PROVE  FlagsInv'
    BY <1>4, SilentReplies
  <1>5. ASSUME NEW r \in Runs, NEW reply \in Replies, ServiceExecutes(r, reply)
        PROVE  FlagsInv'
    <2>1. CASE reply = Success /\ UNCHANGED env
      BY <1>5, <2>1, SilentReplies
    <2>2. CASE ~(reply = Success /\ UNCHANGED env)
      <3>1. /\ Action(r) = "submit_sql" /\ env.phase # Over /\ reply = Passed(env.phase)
            /\ env' = [phase |-> IF reply.followUp THEN 2 ELSE Over,
                       passedBy |-> [env.passedBy EXCEPT ![env.phase] = run[r].session]]
        BY <1>5, <2>2 DEF ServiceExecutes, EnvExecutes
      <3> QED
        BY <1>5, <3>1, PassingStep
    <2> QED
      BY <2>1, <2>2
  <1>6. ASSUME NEW r \in Runs, ReplyArrives(r)
        PROVE  FlagsInv'
    BY <1>6, ReplyStep
  <1>7. CASE UNCHANGED vars
    BY <1>7 DEF vars, FlagsInv, Shape, Numbers, RepliesAreTrue, PhasesAreOpen, FlagsAreKnown,
                Flag, Tells, Action
  <1> QED
    BY <1>1, <1>2, <1>3, <1>4, <1>5, <1>6, <1>7 DEF Next, RunStep

LEMMA FlagsInvImplies == FlagsInv => FlagsFollowEnvironment
  <1>. SUFFICES ASSUME FlagsInv PROVE FlagsFollowEnvironment
    OBVIOUS
  <1>1. ASSUME NEW s \in Sessions, NEW p \in Phases
        PROVE  /\ <<state[s].phase1, state[s].phase2>>[p] <=> Flag(s, p)
               /\ (\E r \in Runs : run[r].session = s /\ Tells(r, p)) => InSubmission(s)
    BY DEF Phases, Flag, Tells, InSubmission, InFlight
  <1>2. ASSUME NEW s \in Sessions, NEW p \in Phases
        PROVE  /\ <<state[s].phase1, state[s].phase2>>[p] => env.passedBy[p] = s
               /\ env.passedBy[p] = s =>
                     <<state[s].phase1, state[s].phase2>>[p] \/ s \in lost \/ InSubmission(s)
    BY <1>1 DEF FlagsInv, FlagsAreKnown
  <1>3. \A s \in Sessions : state[s].done => env.phase = Over
    BY DEF FlagsInv, FlagsAreKnown
  <1> QED
    BY <1>2, <1>3 DEF FlagsFollowEnvironment, Phases

\* The phase flags from which the orchestrator scores an episode say of the
\* environment only what is so, and all of it unless a reply to a submission
\* was lost or has not come yet, however many runs of a session overlap and
\* wherever the server restarts: _apply_submit_state takes the phase from the
\* reply, never from what the session already knows.
THEOREM FlagsFollowEnvironmentAlways == Spec => []FlagsFollowEnvironment
  <1>1. Init => FlagsInv
    BY FlagsInit
  <1>2. FlagsInv /\ [Next]_vars => FlagsInv'
    BY FlagsSteps
  <1>3. FlagsInv => FlagsFollowEnvironment
    BY FlagsInvImplies
  <1> QED
    BY <1>1, <1>2, <1>3, PTL DEF Spec

\* Sessions, runs, the environment and the counters keep their types; the
\* bounds say that no run outlives its model and tool turns, no read is sent
\* more often than the port allows, no session has a budget below the mark of a
\* spent one, and none has asked more questions in a phase than its max_turn,
\* or than the turns it may take when it has none.  A run of
\* c-interact is alone on its session: the orchestrator starts it when the
\* one before it ended.
THEOREM TypesAlways ==
    ASSUME SerialC
    PROVE  Spec => []TypeOK
  <1>1. Init => SessionInv
    BY SessionInit
  <1>2. SessionInv /\ [Next]_vars => SessionInv'
    BY SessionInvariance
  <1>3. SessionInv => TypeOK
    BY SessionInvImplies
  <1> QED
    BY <1>1, <1>2, <1>3, PTL DEF Spec

\* What the services did for a session is within the coins and the questions
\* that init_session seeded, and without a seed within no coins and the turns
\* of the session, however many runs of it overlap in a-interact,
\* whatever the batches ask for and wherever replies are lost or the server
\* restarts: _gate_budget charges a call before the request leaves.
THEOREM BudgetsAreKeptAlways ==
    ASSUME SerialC, Countable
    PROVE  Spec => []BudgetsAreKept
  <1>0. PICK rank \in [Runs -> Nat] : Numbered(rank)
    BY DEF Countable, Numbered
  <1>1. Init => SessionInv /\ CoinInv(rank)
    BY SessionInit, CoinInit
  <1>2. SessionInv /\ CoinInv(rank) /\ [Next]_vars => SessionInv' /\ CoinInv(rank)'
    BY <1>0, SessionInvariance, CoinSteps
  <1>3. SessionInv /\ CoinInv(rank) => BudgetsAreKept
    BY BudgetsImplied
  <1> QED
    BY <1>1, <1>2, <1>3, PTL DEF Spec
=============================================================================
