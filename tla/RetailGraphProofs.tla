--------------------------- MODULE RetailGraphProofs ---------------------------
(* Theorems about RetailGraph, for any wirings, plans, queries, answers of    *)
(* the database, proposals, limits and numbers of runs.                       *)
EXTENDS RetailGraph, WellFoundedInduction, TLAPS

-----------------------------------------------------------------------------
(* QueryEngine: no statement that AstPolicy admits shows an identity, however *)
(* many derived tables it takes its columns through.                          *)

\* Every non-empty set of numbers has a least element.
LEMMA LeastElement ==
    ASSUME NEW T, T \subseteq Nat, T # {}
    PROVE  \E x \in T : \A y \in T : x <= y
  <1>. DEFINE Less == OpToRel(<, Nat)
  <1>1. IsWellFoundedOn(Less, Nat)
    BY NatLessThanWellFounded
  <1>. HIDE DEF Less
  <1>2. PICK x \in T : \A y \in T : ~(<<y, x>> \in Less)
    BY <1>1, WFMin
  <1>3. \A y \in T : ~(y < x)
    BY <1>2 DEF Less, OpToRel
  <1> QED
    BY <1>3

\* A scope shows an identity only through a derived table: a leaf that shows
\* one of a table under its own name is one the policy refuses.
LEMMA ScopeShowsNothing ==
    ASSUME NEW s, IsWellFormed(s), KeepsNames(s), NEW i \in DOMAIN s.scopes, Validates(s, s.scopes[i]),
           NEW shown, \A j \in 1 .. i - 1 : shown[j] = {}
    PROVE  ShownBy(shown, s.scopes[i]) = {}
  <1>. DEFINE scope == s.scopes[i]
  <1>. SUFFICES ASSUME NEW p \in scope.projections, NEW leaf \in p.leaves,
                       "COUNT" \notin Kinds(leaf.path), IsShown(shown, scope, leaf)
                PROVE  FALSE
    BY DEF ShownBy
  <1>1. PICK a \in DOMAIN scope.sources :
               /\ leaf.table \in {a, NoTable}
               /\ IF IsStar(leaf) THEN Raw(shown, scope.sources[a]) # {}
                                  ELSE ColumnOf(scope.sources[a], leaf.column) \in Raw(shown, scope.sources[a])
    BY DEF IsShown
  <1>. DEFINE source == scope.sources[a]
  <1>2. source.kind = "table"
    <2>1. CASE source.kind # "table"
      <3>1. source.scope \in 1 .. i - 1
        BY <2>1 DEF IsWellFormed
      <3>2. Raw(shown, source) = {}
        BY <2>1, <3>1 DEF Raw
      <3> QED
        BY <1>1, <3>2
    <2> QED
      BY <2>1
  <1>3. /\ Raw(shown, source) = SourceColumns(s, source) \cap Identities
        /\ ColumnOf(source, leaf.column) = leaf.column
    BY <1>2 DEF Raw, SourceColumns, KeepsNames, ColumnOf
  <1>4. ~LeaksIdentity(p) /\ ~WrapsStar(p) /\ ~StarLeaksIdentity(s, scope, p)
    BY DEF Validates, HidesIdentities
  <1>5. CASE ~IsStar(leaf)
    BY <1>1, <1>3, <1>4, <1>5 DEF LeaksIdentity
  <1>6. CASE IsStar(leaf) /\ IsDirect(leaf)
    <2>1. a \in Expanded(scope, leaf)
      BY <1>1 DEF Expanded
    <2>2. SourceColumns(s, source) \cap Identities # {}
      BY <1>1, <1>3, <1>6
    <2> QED
      BY <1>4, <1>6, <2>1, <2>2 DEF StarLeaksIdentity
  <1>7. CASE IsStar(leaf) /\ ~IsDirect(leaf)
    <2>1. leaf.path[Len(leaf.path)] = "COUNT"
      BY <1>4, <1>7 DEF WrapsStar
    <2>2. leaf.path \in Seq(Kinds(leaf.path)) /\ leaf.path # <<>>
      BY <1>7 DEF IsWellFormed, IsDirect
    <2>3. Len(leaf.path) \in DOMAIN leaf.path
      BY <2>2
    <2> QED
      BY <2>1, <2>3 DEF Kinds
  <1> QED
    BY <1>5, <1>6, <1>7

\* What the policy admits of statements that give no table a column list shows
\* nothing: the function that shows nothing solves the equation of Shows, and
\* so does no other.
THEOREM AdmittedShowsNothing ==
    ASSUME NEW s, IsWellFormed(s), KeepsNames(s), Admits(s)
    PROVE  Shows(s) = {}
  <1>. DEFINE D == DOMAIN s.scopes
              Solves(shown) == shown = [i \in D |-> ShownBy(shown, s.scopes[i])]
              nothing == [i \in D |-> {}]
              f == CHOOSE shown : Solves(shown)
  <1>0. D \subseteq Nat /\ Len(s.scopes) \in D /\ \A i \in D : 1 .. i - 1 \subseteq D
    BY DEF IsWellFormed
  <1>1. \A i \in D : Validates(s, s.scopes[i])
    BY DEF Admits
  <1>2. Solves(nothing)
    <2>1. ASSUME NEW i \in D
          PROVE  ShownBy(nothing, s.scopes[i]) = {}
      <3>1. \A j \in 1 .. i - 1 : nothing[j] = {}
        BY <1>0
      <3> HIDE DEF nothing
      <3> QED
        BY <1>1, <3>1, ScopeShowsNothing
    <2> QED
      BY <2>1
  <1>3. Solves(f)
    <2>. HIDE DEF nothing, Solves
    <2> QED
      BY <1>2
  <1>4. \A i \in D : f[i] = {}
    <2>. DEFINE T == { i \in D : f[i] # {} }
    <2>. SUFFICES ASSUME T # {}
                  PROVE  FALSE
      OBVIOUS
    <2>. HIDE DEF f
    <2>1. PICK i \in T : \A j \in T : i <= j
      BY <1>0, LeastElement
    <2>2. \A j \in 1 .. i - 1 : f[j] = {}
      BY <1>0, <2>1
    <2>3. ShownBy(f, s.scopes[i]) = {}
      BY <1>1, <2>2, ScopeShowsNothing
    <2>4. f[i] = ShownBy(f, s.scopes[i])
      BY <1>3
    <2> QED
      BY <2>3, <2>4
  <1>5. Shows(s) = f[Len(s.scopes)]
    BY DEF Shows
  <1> QED
    BY <1>0, <1>4, <1>5

-----------------------------------------------------------------------------
(* The invariant *)

Deciding == setup.graph = "decide"

Shape ==
    /\ setup.graph \in Graphs
    /\ DOMAIN checkpoint = DOMAIN InitialState
    /\ DOMAIN call = DOMAIN NoCall
    /\ DOMAIN proposals = Keys
    /\ turns \in [Sequences -> Turn]
    /\ clock \in Nat

\* Where a run can be for what its checkpoint says.  A node graph waits for
\* the model at call_model, with no batch left over, and what it was told is
\* an answer to that step; a proposal is made when nothing else is pending.
PositionsFit ==
    /\ run # "asking" => call = NoCall
    /\ run = "proposed" => checkpoint.node = "create_proposal"
    /\ run \in {"finishing", "deleted"} => checkpoint.node = "finalize"
    /\ checkpoint.node = "complete" => run = "idle"
    /\ checkpoint.node = "create_proposal" =>
         /\ ~Deciding
         /\ setup.engine /\ checkpoint.pending = <<>> /\ checkpoint.reconciled
    /\ Deciding =>
         /\ run \notin {"proposed", "finishing"}
         /\ run = "asking" => checkpoint.node = "call_model"
         /\ checkpoint.node \in {"prepare_context", "call_model"} => checkpoint.batch = NoAnswer
         /\ call.pc \in {"saving", "returned"} => call.answer \in DecideAnswers

\* A saved outcome leads to the end of the attempt, and nothing else does.
EndsWithOutcome ==
    /\ IsOver =>
         /\ ~Deciding => /\ run \in {"idle", "finishing", "deleted"}
                         /\ checkpoint.node \in {"finalize", "complete"}
         /\ Deciding => \/ checkpoint.node \in {"finalize", "complete"}
                        \/ checkpoint.node = "route_output" /\ checkpoint.batch = NoAnswer
    /\ checkpoint.node \in {"finalize", "complete"} => IsOver
    /\ Deciding /\ checkpoint.node = "route_output" /\ checkpoint.batch = NoAnswer => IsOver
    /\ returned \subseteq {checkpoint.outcome}
    /\ returned # {} => checkpoint.node = "complete"

\* A proposal of the attempt is referred to, or is the one being made.
ProposalsAreKnown ==
    /\ \A k \in Keys : proposals[k] # NoCommand =>
         \/ k \in checkpoint.refs
         \/ checkpoint.node = "create_proposal" /\ checkpoint.batch.key = k
    /\ checkpoint.outcome.status = "completed" => checkpoint.refs \subseteq checkpoint.outcome.declared

\* Turns are destroyed once there is an outcome, and none is saved later.
TurnsEnd ==
    /\ (\E s \in Sequences : turns[s].status = "terminal") => IsOver
    /\ run = "deleted" \/ checkpoint.cleaned => LiveTurns = {}
    /\ checkpoint.cleaned <=> checkpoint.node = "complete"

GraphInv == Shape /\ PositionsFit /\ EndsWithOutcome /\ ProposalsAreKnown /\ TurnsEnd

\* The step property of OutcomeIsFinal.
FinalStep ==
    checkpoint.outcome # NoOutcome =>
        /\ checkpoint'.outcome = checkpoint.outcome
        /\ checkpoint'.calls = checkpoint.calls /\ checkpoint'.tools = checkpoint.tools
        /\ proposals' = proposals
        /\ call' = NoCall
        /\ returned' \subseteq {checkpoint.outcome}

-----------------------------------------------------------------------------
(* Facts about the data *)

LEMMA Fields ==
    DOMAIN InitialState = {"node", "calls", "tools", "outcome", "cleaned", "batch", "history",
                           "request", "digest", "plan", "pending", "candidate", "failed", "repairs",
                           "evidence", "reconciled", "refs"}
  BY DEF InitialState

LEMMA CallFields ==
    /\ DOMAIN NoCall = {"pc", "sequence", "history", "resolved", "attempt", "answer", "error"}
    /\ NoCall.pc = "idle"
  BY DEF NoCall

LEMMA FirstState ==
    /\ InitialState.node = "prepare_context" /\ InitialState.outcome = NoOutcome
    /\ InitialState.batch = NoAnswer /\ InitialState.refs = {} /\ InitialState.cleaned = FALSE
  BY DEF InitialState

LEMMA Start == Init => GraphInv
  BY RetailAssumption, FirstState
  DEF Init, GatewayInit, GraphInv, Shape, PositionsFit, EndsWithOutcome, ProposalsAreKnown, TurnsEnd,
      Deciding, IsOver, NoCheckpoint, NoCall, NoTurn, Turn, LiveTurns, IsLive, NoOutcome

\* delete_attempt leaves no live turn.
AllDeleted ==
    /\ turns' \in [Sequences -> Turn]
    /\ \A s \in Sequences : turns'[s].status # "live"

LEMMA Deleting ==
    ASSUME turns \in [Sequences -> Turn], turns' = AttemptDeleted
    PROVE  AllDeleted
  BY DEF AttemptDeleted, Turn, AllDeleted, IsLive

LEMMA OutcomeKinds ==
    /\ NoOutcome.status = "none"
    /\ \A reason : Stopped(reason) # NoOutcome /\ Stopped(reason).status = "stopped"
    /\ \A type : AnswerOutcome(type).status # "completed"
    /\ \A type \in {"final", "length", "content_filter"} : AnswerOutcome(type) # NoOutcome
    /\ \A type \in {"tools", "unregistered"} : AnswerOutcome(type) = NoOutcome
  BY DEF NoOutcome, Stopped, AnswerOutcome

LEMMA AnswerKinds ==
    \A answer \in DecideAnswers :
        /\ answer.type \in {"tools", "unregistered", "final", "length", "content_filter"}
        /\ answer # NoAnswer
  BY DEF DecideAnswers, NoAnswer

-----------------------------------------------------------------------------
(* The node graph *)

LEMMA DecideSteps == GraphInv /\ DecideStep => GraphInv' /\ FinalStep
  <1>. SUFFICES ASSUME GraphInv, DecideStep
                PROVE  GraphInv' /\ FinalStep
    OBVIOUS
  <1>. USE Fields DEF GraphInv, Shape, PositionsFit, EndsWithOutcome, ProposalsAreKnown, TurnsEnd, FinalStep,
                      Deciding, IsOver, AtNode, Goto, Write, Raise, gatewayVars, LiveTurns, IsLive
  <1>1. CASE PrepareContext
    <2>1. CASE Raise
      BY <1>1, <2>1, CallFields DEF PrepareContext
    <2>2. CASE Goto([checkpoint EXCEPT !.node = "call_model", !.request = Trimmed(checkpoint.history)])
      <3>1. /\ checkpoint'.node = "call_model" /\ checkpoint'.outcome = checkpoint.outcome
            /\ checkpoint'.batch = checkpoint.batch /\ checkpoint'.refs = checkpoint.refs
            /\ checkpoint'.cleaned = checkpoint.cleaned /\ checkpoint'.calls = checkpoint.calls
            /\ checkpoint'.tools = checkpoint.tools /\ DOMAIN checkpoint' = DOMAIN checkpoint
        BY <2>2
      <3>2. /\ run' = "ready" /\ UNCHANGED <<turns, call, clock, setup, proposals, returned>>
            /\ Deciding /\ run = "ready" /\ checkpoint.node = "prepare_context"
        BY <1>1, <2>2 DEF PrepareContext
      <3> QED
        BY <3>1, <3>2
    <2> QED
      BY <1>1, <2>1, <2>2 DEF PrepareContext
  <1>2. CASE CallModelLimit
    BY <1>2, OutcomeKinds DEF CallModelLimit
  <1>3. CASE CallModel
    BY <1>3, CallFields DEF CallModel, BeginCall
  <1>4. CASE ModelAnswered
    <2>1. call.answer \in DecideAnswers
      BY <1>4 DEF ModelAnswered
    <2>2. Deciding /\ ~IsOver /\ checkpoint.node = "call_model" /\ returned = {} /\ ~checkpoint.cleaned
      BY <1>4 DEF ModelAnswered
    <2>3. /\ checkpoint'.node = "route_output" /\ checkpoint'.refs = checkpoint.refs
          /\ checkpoint'.outcome = AnswerOutcome(call.answer.type)
          /\ checkpoint'.batch = IF call.answer.type \in {"tools", "unregistered"}
                                 THEN call.answer ELSE NoAnswer
          /\ checkpoint'.cleaned = checkpoint.cleaned
          /\ DOMAIN checkpoint' = DOMAIN checkpoint
      BY <1>4 DEF ModelAnswered
    <2>4. run' = "ready" /\ call' = NoCall /\ UNCHANGED <<turns, clock, setup, proposals, returned>>
      BY <1>4 DEF ModelAnswered
    <2>5. Shape' /\ PositionsFit'
      BY <2>1, <2>2, <2>3, <2>4, OutcomeKinds, AnswerKinds, CallFields
    <2>6. EndsWithOutcome' /\ FinalStep
      BY <2>1, <2>2, <2>3, <2>4, OutcomeKinds, AnswerKinds, CallFields
    <2>7. ProposalsAreKnown'
      BY <2>1, <2>2, <2>3, <2>4, OutcomeKinds, AnswerKinds, CallFields
    <2>8. TurnsEnd'
      BY <2>1, <2>2, <2>3, <2>4, OutcomeKinds, AnswerKinds, CallFields
    <2> QED
      BY <2>5, <2>6, <2>7, <2>8
  <1>5. CASE ModelFailed
    <2>1. Deciding /\ ~IsOver /\ checkpoint.node = "call_model" /\ returned = {} /\ ~checkpoint.cleaned
      BY <1>5 DEF ModelFailed
    <2>2. /\ checkpoint'.node = "route_output" /\ checkpoint'.refs = checkpoint.refs
          /\ checkpoint'.outcome = Stopped(call.error)
          /\ checkpoint'.batch = checkpoint.batch
          /\ checkpoint'.cleaned = checkpoint.cleaned
          /\ DOMAIN checkpoint' = DOMAIN checkpoint
      BY <1>5 DEF ModelFailed
    <2>3. run' = "ready" /\ call' = NoCall /\ UNCHANGED <<turns, clock, setup, proposals, returned>>
      BY <1>5 DEF ModelFailed
    <2>4. Shape' /\ PositionsFit'
      BY <2>1, <2>2, <2>3, OutcomeKinds, CallFields
    <2>5. EndsWithOutcome' /\ FinalStep
      BY <2>1, <2>2, <2>3, OutcomeKinds, CallFields
    <2>6. ProposalsAreKnown'
      BY <2>1, <2>2, <2>3, OutcomeKinds, CallFields
    <2>7. TurnsEnd'
      BY <2>1, <2>2, <2>3, OutcomeKinds, CallFields
    <2> QED
      BY <2>4, <2>5, <2>6, <2>7
  <1>6. CASE RouteOutput
    BY <1>6 DEF RouteOutput
  <1>7. CASE ValidateTools
    <2>1. ~IsOver /\ returned = {} /\ ~checkpoint.cleaned /\ Stopped("tool_call_limit") # NoOutcome
      BY <1>7, OutcomeKinds DEF ValidateTools
    <2>2. CASE Raise
      BY <2>1, <2>2, CallFields
    <2>3. CASE Goto([checkpoint EXCEPT !.node = "finalize", !.outcome = Stopped("tool_call_limit")])
      BY <1>7, <2>1, <2>3, OutcomeKinds DEF ValidateTools
    <2>4. CASE Goto([checkpoint EXCEPT !.node = "execute_tools"])
      BY <1>7, <2>1, <2>4 DEF ValidateTools
    <2> QED
      BY <1>7, <2>2, <2>3, <2>4 DEF ValidateTools
  <1>8. ASSUME NEW results \in Results, ExecuteTools(results)
        PROVE  GraphInv' /\ FinalStep
    <2>. DEFINE digest == [i \in DOMAIN checkpoint.batch.batch |->
                             <<checkpoint.batch.batch[i], results[i]>>]
                done == [checkpoint EXCEPT !.tools = @ + Len(checkpoint.batch.batch), !.digest = digest]
    <2>1. ~IsOver /\ returned = {} /\ ~checkpoint.cleaned /\ Stopped("repeated_evidence") # NoOutcome
      BY <1>8, OutcomeKinds DEF ExecuteTools
    <2>2. CASE Goto([done EXCEPT !.node = "finalize", !.outcome = Stopped("repeated_evidence")])
      BY <1>8, <2>1, <2>2, OutcomeKinds DEF ExecuteTools
    <2>3. CASE Goto([done EXCEPT !.node = "close_exchange"])
      BY <1>8, <2>1, <2>3 DEF ExecuteTools
    <2> QED
      BY <1>8, <2>2, <2>3 DEF ExecuteTools
  <1>9. CASE CloseExchange
    BY <1>9 DEF CloseExchange
  <1>10. CASE Finalize
    <2>1. AllDeleted
      BY <1>10, Deleting DEF Finalize
    <2> QED
      BY <1>10, <2>1 DEF Finalize, AllDeleted
  <1> QED
    BY <1>1, <1>2, <1>3, <1>4, <1>5, <1>6, <1>7, <1>8, <1>9, <1>10 DEF DecideStep

-----------------------------------------------------------------------------
(* The investigation loop *)

\* _cache_and_finish with a state of the investigation.
LEMMA Caching ==
    ASSUME GraphInv, ~Deciding, run \in {"ready", "asking"}, ~IsOver,
           \A k \in Keys : proposals[k] # NoCommand => k \in checkpoint.refs,
           NEW state, DOMAIN state = DOMAIN InitialState, state.refs = checkpoint.refs,
           NEW outcome, outcome # NoOutcome,
           outcome.status = "completed" => checkpoint.refs \subseteq outcome.declared,
           CacheAndFinish(state, outcome),
           call' = NoCall, UNCHANGED <<turns, clock, proposals>>
    PROVE  GraphInv' /\ FinalStep
  <1>1. /\ checkpoint'.node = "finalize" /\ checkpoint'.outcome = outcome
        /\ checkpoint'.refs = checkpoint.refs /\ ~checkpoint'.cleaned
        /\ DOMAIN checkpoint' = DOMAIN InitialState
        /\ run' = "finishing" /\ UNCHANGED <<setup, returned>>
    BY Fields DEF CacheAndFinish, Write
  <1>2. returned = {}
    BY DEF GraphInv, EndsWithOutcome, IsOver
  <1> QED
    BY <1>1, <1>2, CallFields
    DEF GraphInv, Shape, PositionsFit, EndsWithOutcome, ProposalsAreKnown, TurnsEnd, FinalStep,
        Deciding, IsOver, LiveTurns, IsLive

\* _save_day4_state: the loop goes on.
LEMMA Saving ==
    ASSUME GraphInv, ~Deciding, run \in {"ready", "asking", "proposed"}, ~IsOver,
           NEW state, DOMAIN state = DOMAIN InitialState,
           state.outcome = NoOutcome, state.cleaned = FALSE,
           state.node \notin {"finalize", "complete"},
           state.node = "create_proposal" =>
              setup.engine /\ state.pending = <<>> /\ state.reconciled,
           \A k \in Keys : proposals[k] # NoCommand => k \in state.refs,
           Save(state), call' = NoCall, UNCHANGED <<turns, clock, proposals>>
    PROVE  GraphInv' /\ FinalStep
  <1>1. checkpoint' = state /\ run' = "ready" /\ UNCHANGED <<setup, returned>>
    BY DEF Save, Write
  <1>2. returned = {}
    BY DEF GraphInv, EndsWithOutcome, IsOver
  <1> QED
    BY <1>1, <1>2, CallFields, OutcomeKinds
    DEF GraphInv, Shape, PositionsFit, EndsWithOutcome, ProposalsAreKnown, TurnsEnd, FinalStep,
        Deciding, IsOver, LiveTurns, IsLive

\* A run that ends with an exception, anywhere.
LEMMA Raising == GraphInv /\ Raise => GraphInv' /\ FinalStep
  BY CallFields
  DEF Raise, GraphInv, Shape, PositionsFit, EndsWithOutcome, ProposalsAreKnown, TurnsEnd, FinalStep,
      Deciding, IsOver, LiveTurns, IsLive

LEMMA InvestigateSteps == GraphInv /\ InvestigateStep => GraphInv' /\ FinalStep
  <1>. SUFFICES ASSUME GraphInv, InvestigateStep
                PROVE  GraphInv' /\ FinalStep
    OBVIOUS
  <1>. DEFINE Quiet == call' = NoCall /\ UNCHANGED <<turns, clock, proposals>>
              Known == \A k \in Keys : proposals[k] # NoCommand => k \in checkpoint.refs
  <1>0. /\ setup.graph = "investigate" => ~Deciding
        /\ run \in {"ready", "asking", "proposed"} /\ ~Deciding => ~IsOver
        /\ ~IsOver => checkpoint.outcome = NoOutcome /\ checkpoint.cleaned = FALSE
        /\ DOMAIN checkpoint = DOMAIN InitialState
        /\ checkpoint.node # "create_proposal" => Known
        /\ run = "ready" => call = NoCall
    BY DEF GraphInv, Shape, PositionsFit, EndsWithOutcome, ProposalsAreKnown, TurnsEnd, Deciding, IsOver
  <1>. USE Fields, FirstState, OutcomeKinds DEF Investigating, Taken, gatewayVars
  <1>1. CASE StopUnavailable
    <2>1. checkpoint.node # "create_proposal"
      BY <1>1 DEF StopUnavailable, GraphInv, PositionsFit
    <2> QED
      BY <1>0, <1>1, <2>1, Caching DEF StopUnavailable, GraphInv, Shape
  <1>2. CASE AskLimit
    <2>1. checkpoint.node # "create_proposal"
      BY <1>2 DEF AskLimit, NeedsModel, GraphInv, PositionsFit
    <2> QED
      BY <1>0, <1>2, <2>1, Caching DEF AskLimit, GraphInv, Shape
  <1>3. ASSUME NEW step \in {"decide", "sql", "report"}, Ask(step)
        PROVE  GraphInv' /\ FinalStep
    <2>1. /\ run' = "asking" /\ UNCHANGED <<setup, checkpoint, proposals, returned, turns, clock>>
          /\ DOMAIN call' = DOMAIN NoCall
      BY <1>3, CallFields DEF Ask, BeginCall
    <2>2. checkpoint.node \notin {"finalize", "complete", "create_proposal"} \/ ~IsOver
      BY <1>0, <1>3 DEF Ask
    <2> QED
      BY <1>0, <1>3, <2>1, <2>2
      DEF Ask, GraphInv, Shape, PositionsFit, EndsWithOutcome, ProposalsAreKnown, TurnsEnd, FinalStep,
          Deciding, IsOver, LiveTurns, IsLive
  <1>4. CASE AskFailed \/ QueryRaises \/ ProposeConflicts \/ ReportMismatch
    BY <1>4, Raising DEF AskFailed, QueryRaises, ProposeConflicts, ReportMismatch
  <1>5. CASE TakeClarification
    <2>. DEFINE outcome == [status |-> "needs_input", reason |-> "none", declared |-> {}]
    <2>1. outcome # NoOutcome /\ outcome.status # "completed"
      BY DEF NoOutcome
    <2>2. /\ ~Deciding /\ run = "asking" /\ Quiet
          /\ checkpoint.refs = {} /\ checkpoint.node = "none"
          /\ CacheAndFinish([InitialState EXCEPT !.calls = 1, !.tools = 1], outcome)
      BY <1>0, <1>5 DEF TakeClarification, Answered, NeedsModel, NoCheckpoint
    <2> QED
      BY <1>0, <2>1, <2>2, Caching
  <1>6. CASE TakePlan
    <2>1. /\ ~Deciding /\ run = "asking" /\ Quiet
          /\ checkpoint.refs = {} /\ checkpoint.node = "none"
      BY <1>0, <1>6 DEF TakePlan, Answered, NeedsModel, NoCheckpoint
    <2> QED
      BY <1>0, <1>6, <2>1, Saving DEF TakePlan
  <1>7. CASE TakeCandidate
    <2>. DEFINE asked == [checkpoint EXCEPT !.calls = @ + 1]
    <2>1. /\ ~Deciding /\ run = "asking" /\ ~IsOver /\ Quiet
          /\ checkpoint.node # "create_proposal" /\ Known
      BY <1>0, <1>7 DEF TakeCandidate, Answered, NeedsModel, GraphInv, PositionsFit
    <2>2. CASE CacheAndFinish(asked, Stopped("sql_no_progress"))
      <3>1. DOMAIN asked = DOMAIN InitialState /\ asked.refs = checkpoint.refs
        BY <1>0
      <3> QED
        BY <2>1, <2>2, <3>1, Caching
    <2>3. ASSUME NEW candidate,
                 Save([asked EXCEPT !.node = "execute_query", !.candidate = candidate])
          PROVE  GraphInv' /\ FinalStep
      <3>. DEFINE state == [asked EXCEPT !.node = "execute_query", !.candidate = candidate]
      <3>1. /\ DOMAIN state = DOMAIN InitialState /\ state.refs = checkpoint.refs
            /\ state.outcome = NoOutcome /\ state.cleaned = FALSE /\ state.node = "execute_query"
        BY <1>0, <2>1
      <3> HIDE DEF state
      <3> QED
        BY <2>1, <2>3, <3>1, Saving DEF state
    <2> QED
      BY <1>7, <2>2, <2>3 DEF TakeCandidate
  <1>8. CASE QuerySucceeds
    <2>1. /\ ~Deciding /\ run = "ready" /\ ~IsOver /\ Quiet
          /\ checkpoint.node = "execute_query" /\ Known
      BY <1>0, <1>8 DEF QuerySucceeds, Executing
    <2>2. ASSUME NEW evidence, NEW tools, NEW pending,
                 Save([checkpoint EXCEPT !.node = "prepare_plan_step", !.tools = tools,
                                         !.evidence = evidence, !.pending = pending,
                                         !.candidate = NoCandidate, !.failed = FALSE])
          PROVE  GraphInv' /\ FinalStep
      <3>. DEFINE state == [checkpoint EXCEPT !.node = "prepare_plan_step", !.tools = tools,
                                              !.evidence = evidence, !.pending = pending,
                                              !.candidate = NoCandidate, !.failed = FALSE]
      <3>1. /\ DOMAIN state = DOMAIN InitialState /\ state.refs = checkpoint.refs
            /\ state.outcome = NoOutcome /\ state.cleaned = FALSE /\ state.node = "prepare_plan_step"
        BY <1>0, <2>1
      <3> HIDE DEF state
      <3> QED
        BY <2>1, <2>2, <3>1, Saving DEF state
    <2> QED
      BY <1>8, <2>2 DEF QuerySucceeds
  <1>9. CASE QueryFails
    <2>. DEFINE failed == [checkpoint EXCEPT !.tools = @ + 1]
    <2>1. /\ ~Deciding /\ run = "ready" /\ ~IsOver /\ Quiet
          /\ checkpoint.node = "execute_query" /\ Known
      BY <1>0, <1>9 DEF QueryFails, Executing
    <2>2. CASE CacheAndFinish(failed, Stopped("sql_repair_limit"))
      <3>1. DOMAIN failed = DOMAIN InitialState /\ failed.refs = checkpoint.refs
        BY <1>0
      <3> QED
        BY <2>1, <2>2, <3>1, Caching
    <2>3. CASE Save([failed EXCEPT !.node = "sql_reason", !.repairs = @ + 1, !.failed = TRUE])
      <3>. DEFINE state == [failed EXCEPT !.node = "sql_reason", !.repairs = @ + 1, !.failed = TRUE]
      <3>1. /\ DOMAIN state = DOMAIN InitialState /\ state.refs = checkpoint.refs
            /\ state.outcome = NoOutcome /\ state.cleaned = FALSE /\ state.node = "sql_reason"
        BY <1>0, <2>1
      <3> HIDE DEF state
      <3> QED
        BY <2>1, <2>3, <3>1, Saving DEF state
    <2> QED
      BY <1>9, <2>2, <2>3 DEF QueryFails
  <1>10. CASE Reconcile
    <2>. DEFINE state == [checkpoint EXCEPT !.node = "prepare_report", !.reconciled = TRUE]
    <2>1. /\ ~Deciding /\ run = "ready" /\ ~IsOver /\ Quiet
          /\ checkpoint.node # "create_proposal" /\ Known /\ Save(state)
      BY <1>0, <1>10 DEF Reconcile, GraphInv, PositionsFit
    <2>2. /\ DOMAIN state = DOMAIN InitialState /\ state.refs = checkpoint.refs
          /\ state.outcome = NoOutcome /\ state.cleaned = FALSE /\ state.node = "prepare_report"
      BY <1>0, <2>1
    <2> HIDE DEF state
    <2> QED
      BY <2>1, <2>2, Saving
  <1>11. CASE TakeProposal
    <2>. DEFINE asked == [checkpoint EXCEPT !.calls = @ + 1, !.tools = @ + 1]
                state == [asked EXCEPT !.node = "create_proposal", !.batch = call.answer]
    <2>1. /\ ~Deciding /\ run = "asking" /\ ~IsOver /\ Quiet
          /\ checkpoint.node # "create_proposal" /\ Known
          /\ setup.engine /\ checkpoint.pending = <<>> /\ checkpoint.reconciled
      BY <1>0, <1>11 DEF TakeProposal, Answered, NeedsModel
    <2>2. /\ DOMAIN asked = DOMAIN InitialState /\ asked.refs = checkpoint.refs
          /\ DOMAIN state = DOMAIN InitialState /\ state.refs = checkpoint.refs
          /\ state.outcome = NoOutcome /\ state.cleaned = FALSE
          /\ state.pending = checkpoint.pending /\ state.reconciled = checkpoint.reconciled
          /\ state.node = "create_proposal"
      BY <1>0, <2>1
    <2>3. Save(state) \/ CacheAndFinish(asked, Stopped("operation_workflow_unavailable"))
      BY <1>11 DEF TakeProposal
    <2> HIDE DEF state, asked
    <2> QED
      BY <2>1, <2>2, <2>3, Caching, Saving
  <1>12. CASE Propose
    <2>1. /\ ~Deciding /\ ~IsOver /\ run = "ready" /\ checkpoint.node = "create_proposal"
      BY <1>0, <1>12 DEF Propose, Proposing
    <2>2. \A k \in Keys : k # checkpoint.batch.key => proposals'[k] = proposals[k]
      BY <1>12 DEF Propose, GraphInv, Shape
    <2> QED
      BY <1>0, <1>12, <2>1, <2>2
      DEF Propose, GraphInv, Shape, PositionsFit, EndsWithOutcome, ProposalsAreKnown, TurnsEnd, FinalStep,
          Deciding, IsOver, LiveTurns, IsLive
  <1>13. CASE SaveRef
    <2>. DEFINE state == [checkpoint EXCEPT !.node = "prepare_report", !.batch = NoAnswer,
                                            !.refs = @ \cup {checkpoint.batch.key}]
    <2>1. ~Deciding /\ run = "proposed" /\ ~IsOver /\ Quiet /\ Save(state)
      BY <1>0, <1>13 DEF SaveRef, GraphInv, PositionsFit
    <2>2. \A k \in Keys : proposals[k] # NoCommand => k \in checkpoint.refs \cup {checkpoint.batch.key}
      BY <1>13 DEF SaveRef, GraphInv, ProposalsAreKnown
    <2>3. /\ DOMAIN state = DOMAIN InitialState
          /\ state.refs = checkpoint.refs \cup {checkpoint.batch.key}
          /\ state.outcome = NoOutcome /\ state.cleaned = FALSE /\ state.node = "prepare_report"
      BY <1>0, <2>1
    <2> HIDE DEF state
    <2> QED
      BY <2>1, <2>2, <2>3, Saving
  <1>14. CASE TakeReport
    <2>. DEFINE outcome == [status |-> "completed", reason |-> "none", declared |-> call.answer.declared]
    <2>1. outcome # NoOutcome
      BY DEF NoOutcome
    <2>2. /\ ~Deciding /\ run = "asking" /\ Quiet /\ checkpoint.node # "create_proposal"
          /\ checkpoint.refs \subseteq outcome.declared
          /\ CacheAndFinish([checkpoint EXCEPT !.calls = @ + 1, !.tools = @ + 1], outcome)
      BY <1>0, <1>14 DEF TakeReport, Answered, NeedsModel
    <2> QED
      BY <1>0, <2>1, <2>2, Caching DEF GraphInv, Shape
  <1>15. CASE FinishDelete \/ FinishFails
    <2>1. /\ IsOver /\ checkpoint.node = "finalize" /\ ~Deciding /\ call = NoCall
          /\ UNCHANGED <<call, clock, setup, checkpoint, proposals, returned>>
      BY <1>15 DEF FinishDelete, FinishFails, GraphInv, PositionsFit, EndsWithOutcome
    <2>2. \/ run' = "deleted" /\ turns' = AttemptDeleted
          \/ run' = "idle" /\ turns' \in {turns, AttemptDeleted}
      BY <1>15 DEF FinishDelete, FinishFails
    <2>3. \/ run' = "idle" /\ turns' = turns
          \/ run' \in {"idle", "deleted"} /\ AllDeleted
      BY <2>2, Deleting DEF GraphInv, Shape
    <2> QED
      BY <2>1, <2>3
      DEF AllDeleted, GraphInv, Shape, PositionsFit, EndsWithOutcome, ProposalsAreKnown, TurnsEnd, FinalStep,
          Deciding, IsOver, LiveTurns, IsLive
  <1> QED
    BY <1>1, <1>2, <1>3, <1>4, <1>5, <1>6, <1>7, <1>8, <1>9, <1>10, <1>11, <1>12, <1>13, <1>14, <1>15
    DEF InvestigateStep

-----------------------------------------------------------------------------
(* The gateway, and where runs start and end *)

\* Only a run that asks has a call under way, and it has no outcome yet.
LEMMA GatewaySteps == GraphInv /\ Gateway => GraphInv' /\ FinalStep
  <1>. SUFFICES ASSUME GraphInv, Gateway
                PROVE  GraphInv' /\ FinalStep
    OBVIOUS
  <1>1. call.pc \in {"encoding", "saving"}
    BY DEF Gateway, GatewayStep, Resolve, ResolveFails, Send, SaveTurn, SaveRefused, SaveFails
  <1>2. run = "asking" /\ ~IsOver /\ ~checkpoint.cleaned /\ checkpoint.node \notin {"finalize", "complete"}
    BY <1>1, CallFields DEF GraphInv, PositionsFit, EndsWithOutcome, TurnsEnd, Deciding
  <1>3. UNCHANGED graphVars
    BY DEF Gateway
  <1>4. /\ turns' \in [Sequences -> Turn] /\ clock' \in Nat
        /\ \A t \in Sequences : turns'[t].status # "terminal"
    <2>1. \A s \in Sequences : turns[s].status # "terminal"
      BY <1>2 DEF GraphInv, TurnsEnd
    <2>2. clock' = clock /\ turns \in [Sequences -> Turn] /\ clock \in Nat
      BY DEF GraphInv, Shape, Gateway, GatewayStep, Resolve, ResolveFails, Send, SaveTurn, SaveRefused,
             SaveFails
    <2>3. ASSUME NEW s, turns' = Saved(s)
          PROVE  turns' \in [Sequences -> Turn] /\ \A t \in Sequences : turns'[t].status # "terminal"
      BY <2>1, <2>2, <2>3 DEF Saved, Turn
    <2>4. ASSUME NEW s, turns' = Renewed(s)
          PROVE  turns' \in [Sequences -> Turn] /\ \A t \in Sequences : turns'[t].status # "terminal"
      BY <2>1, <2>2, <2>4 DEF Renewed, Turn
    <2>5. turns' = turns \/ (\E s : turns' = Saved(s)) \/ (\E s : turns' = Renewed(s))
      BY DEF Gateway, GatewayStep, Resolve, ResolveFails, Send, SaveTurn, SaveRefused, SaveFails
    <2> QED
      BY <2>1, <2>2, <2>3, <2>4, <2>5
  <1>5. DOMAIN call' = DOMAIN NoCall
    BY CallFields DEF GraphInv, Shape, Gateway, GatewayStep, Resolve, ResolveFails, Send, SaveTurn,
                      SaveRefused, SaveFails, Raised
  <1>6. ASSUME Deciding, call'.pc \in {"saving", "returned"}
        PROVE  call'.answer \in DecideAnswers
    <2>1. call.pc \in {"saving", "returned"} => call.answer \in DecideAnswers
      BY <1>6 DEF GraphInv, PositionsFit
    <2>2. CASE \E a \in DecideAnswers : Send("answer", a)
      BY <1>6, <2>2, CallFields DEF Send, GraphInv, Shape
    <2>3. CASE \E o \in Outcomes \ {"answer"} : Send(o, NoAnswer)
      BY <1>1, <1>6, <2>3, CallFields DEF Send, GraphInv, Shape, Raised
    <2>4. CASE SaveTurn
      BY <2>1, <2>4, CallFields DEF SaveTurn, GraphInv, Shape
    <2>5. CASE Resolve \/ ResolveFails \/ SaveRefused \/ SaveFails
      BY <1>6, <2>5, CallFields DEF Resolve, ResolveFails, SaveRefused, SaveFails, Raised, GraphInv, Shape
    <2> QED
      BY <1>6, <2>2, <2>3, <2>4, <2>5 DEF Gateway, GatewayStep, Offered, Deciding
  <1> QED
    BY <1>2, <1>3, <1>4, <1>5, <1>6
    DEF graphVars, GraphInv, Shape, PositionsFit, EndsWithOutcome, ProposalsAreKnown, TurnsEnd, FinalStep,
        Deciding, IsOver, LiveTurns, IsLive

LEMMA StartSteps == GraphInv /\ StartRun => GraphInv' /\ FinalStep
  <1>. SUFFICES ASSUME GraphInv, StartRun
                PROVE  GraphInv' /\ FinalStep
    OBVIOUS
  <1>0. run = "idle" /\ call = NoCall /\ UNCHANGED <<turns, call, clock, setup, proposals>>
    BY DEF StartRun, GraphInv, PositionsFit, gatewayVars
  <1>1. CASE /\ checkpoint.node = "complete"
             /\ Return(checkpoint.outcome)
             /\ UNCHANGED <<checkpoint, run>>
    BY <1>0, <1>1
    DEF Return, GraphInv, Shape, PositionsFit, EndsWithOutcome, ProposalsAreKnown, TurnsEnd, FinalStep,
        Deciding, IsOver, LiveTurns, IsLive
  <1>2. CASE /\ checkpoint.node # "complete"
             /\ run' = Entry
             /\ checkpoint' = Restored
             /\ UNCHANGED returned
    <2>1. CASE Deciding /\ checkpoint = NoCheckpoint
      <3>1. checkpoint.outcome = NoOutcome /\ checkpoint.refs = {} /\ checkpoint.node = "none"
        BY <2>1, FirstState, Fields DEF NoCheckpoint
      <3>2. checkpoint' = InitialState /\ run' = "ready" /\ returned' = {}
        BY <1>2, <2>1, <3>1 DEF Entry, Restored, Deciding, GraphInv, EndsWithOutcome
      <3> QED
        BY <1>0, <2>1, <3>1, <3>2, FirstState, CallFields, OutcomeKinds
        DEF GraphInv, Shape, PositionsFit, EndsWithOutcome, ProposalsAreKnown, TurnsEnd, FinalStep,
            Deciding, IsOver, LiveTurns, IsLive
    <2>2. CASE ~(Deciding /\ checkpoint = NoCheckpoint)
      <3>1. checkpoint' = checkpoint /\ UNCHANGED returned
        BY <1>2, <2>2 DEF Restored, Deciding
      <3>2. run' = IF ~Deciding /\ IsOver THEN "finishing" ELSE "ready"
        BY <1>2 DEF Entry, Deciding, GraphInv, Shape, Graphs
      <3> QED
        BY <1>0, <1>2, <3>1, <3>2, CallFields
        DEF GraphInv, Shape, PositionsFit, EndsWithOutcome, ProposalsAreKnown, TurnsEnd, FinalStep,
            Deciding, IsOver, LiveTurns, IsLive
    <2> QED
      BY <2>1, <2>2
  <1> QED
    BY <1>1, <1>2 DEF StartRun

LEMMA EndSteps == GraphInv /\ SaveComplete => GraphInv' /\ FinalStep
  <1>. SUFFICES ASSUME GraphInv, SaveComplete
                PROVE  GraphInv' /\ FinalStep
    OBVIOUS
  <1>1. checkpoint.node = "finalize" /\ IsOver /\ returned = {} /\ call = NoCall /\ LiveTurns = {}
    BY DEF SaveComplete, GraphInv, PositionsFit, EndsWithOutcome, TurnsEnd
  <1>2. /\ checkpoint'.node = "complete" /\ DOMAIN checkpoint' = DOMAIN InitialState
        /\ checkpoint'.outcome = checkpoint.outcome /\ checkpoint'.refs = checkpoint.refs
        /\ checkpoint'.calls = checkpoint.calls /\ checkpoint'.tools = checkpoint.tools
        /\ checkpoint'.cleaned
    BY Fields DEF SaveComplete, GraphInv, Shape
  <1>3. /\ returned' = returned \cup {checkpoint.outcome} /\ run' = "idle"
        /\ UNCHANGED <<turns, call, clock, setup, proposals>>
    BY DEF SaveComplete, Return, gatewayVars
  <1> QED
    BY <1>1, <1>2, <1>3, CallFields
    DEF GraphInv, Shape, PositionsFit, EndsWithOutcome, ProposalsAreKnown, TurnsEnd, FinalStep,
        Deciding, IsOver, LiveTurns, IsLive

-----------------------------------------------------------------------------
(* Theorems *)

LEMMA GraphSteps == GraphInv /\ [Next]_vars => GraphInv' /\ [FinalStep]_vars
  <1>. SUFFICES ASSUME GraphInv, [Next]_vars
                PROVE  GraphInv' /\ [FinalStep]_vars
    OBVIOUS
  <1>1. CASE UNCHANGED vars
    BY <1>1
    DEF vars, gatewayVars, graphVars, GraphInv, Shape, PositionsFit, EndsWithOutcome, ProposalsAreKnown,
        TurnsEnd, Deciding, IsOver, LiveTurns, IsLive
  <1>2. CASE Tick /\ UNCHANGED graphVars
    <2>1. clock' \in Nat /\ UNCHANGED <<turns, call>>
      BY <1>2 DEF Tick, GraphInv, Shape
    <2> QED
      BY <1>2, <2>1, CallFields
      DEF graphVars, GraphInv, Shape, PositionsFit, EndsWithOutcome, ProposalsAreKnown, TurnsEnd, FinalStep,
          Deciding, IsOver, LiveTurns, IsLive
  <1>3. CASE RunFails
    BY <1>3, Raising DEF RunFails
  <1>4. CASE RunStep
    BY <1>4, GatewaySteps, DecideSteps, InvestigateSteps, EndSteps DEF RunStep
  <1> QED
    BY <1>1, <1>2, <1>3, <1>4, StartSteps DEF Next

LEMMA Invariance == Spec => []GraphInv
  <1> QED
    BY Start, GraphSteps, PTL DEF Spec

\* Once an outcome is saved, no run makes a call, a query or a proposal any
\* more, and every run that returns an outcome returns that one.
THEOREM OutcomeIsFinalAlways == Spec => OutcomeIsFinal
  <1> QED
    BY Invariance, GraphSteps, PTL DEF Spec, OutcomeIsFinal, FinalStep

\* A completed investigation declares every proposal the attempt has made,
\* wherever its runs ended.
THEOREM ReportCoversProposalsAlways == Spec => []ReportCoversProposals
  <1>1. GraphInv => ReportCoversProposals
    BY OutcomeKinds
    DEF GraphInv, PositionsFit, EndsWithOutcome, ProposalsAreKnown, IsOver, Deciding, ReportCoversProposals
  <1> QED
    BY <1>1, Invariance, PTL

-----------------------------------------------------------------------------
(* The evidence of an investigation *)

PlanSteps == UNION { { plan[i] : i \in DOMAIN plan } : plan \in Plans }
ReadCandidates == { sql \in Candidates : IsReadOnly(Trees[sql]) }
EvidenceRecord == [step : PlanSteps, of : PlanSteps, sql : ReadCandidates]

\* The plan is the steps of the evidence and the pending ones.
CoversPlan(plan, evidence, pending) ==
    /\ plan \in Seq(PlanSteps) /\ evidence \in Seq(EvidenceRecord) /\ pending \in Seq(PlanSteps)
    /\ Len(plan) = Len(evidence) + Len(pending)
    /\ \A i \in 1 .. Len(evidence) : plan[i] = evidence[i].step
    /\ \A i \in 1 .. Len(pending) : plan[Len(evidence) + i] = pending[i]

\* Evidence is of admitted queries written for its step, and so is a query
\* about to be executed.
EvidenceInv ==
    /\ CoversPlan(checkpoint.plan, checkpoint.evidence, checkpoint.pending)
    /\ \A i \in DOMAIN checkpoint.evidence :
          /\ checkpoint.evidence[i].of = checkpoint.evidence[i].step
          /\ Admits(Trees[checkpoint.evidence[i].sql])
    /\ checkpoint.node = "execute_query" =>
          /\ checkpoint.pending # <<>>
          /\ checkpoint.candidate.step = Head(checkpoint.pending)
          /\ checkpoint.candidate.sql \in ReadCandidates
    /\ checkpoint.outcome.status = "completed" => checkpoint.pending = <<>> /\ checkpoint.reconciled
    /\ call.pc \in {"saving", "returned"} => call.answer \in AllAnswers

LEMMA AnswersByType ==
    \A answer \in AllAnswers :
        /\ answer.type = "plan" => answer.plan \in Plans
        /\ answer.type = "sql" => answer.sql \in Candidates
  BY DEF AllAnswers, DecideAnswers, PlanAnswers, SqlAnswers, ReportAnswers

LEMMA NextStepOfPlan ==
    ASSUME NEW plan, NEW evidence, NEW pending, CoversPlan(plan, evidence, pending),
           pending # <<>>,
           NEW record \in EvidenceRecord, record.step = Head(pending)
    PROVE  CoversPlan(plan, Append(evidence, record), Tail(pending))
  BY DEF CoversPlan

LEMMA WholePlan ==
    ASSUME NEW plan, NEW evidence, NEW pending, CoversPlan(plan, evidence, pending)
    PROVE  plan = [i \in DOMAIN evidence |-> evidence[i].step] \o pending
  <1>. DEFINE steps == [i \in DOMAIN evidence |-> evidence[i].step]
  <1>1. evidence \in Seq(EvidenceRecord) /\ \A i \in DOMAIN evidence : evidence[i].step \in PlanSteps
    <2>1. \A i \in DOMAIN evidence : evidence[i] \in EvidenceRecord
      BY DEF CoversPlan
    <2> QED
      BY <2>1 DEF CoversPlan, EvidenceRecord
  <1>2. steps \in Seq(PlanSteps) /\ Len(steps) = Len(evidence)
    BY <1>1
  <1>3. \A i \in 1 .. Len(evidence) : steps[i] = evidence[i].step
    BY <1>1
  <1>. HIDE DEF steps
  <1>4. steps \o pending \in Seq(PlanSteps) /\ Len(steps \o pending) = Len(plan)
    BY <1>2 DEF CoversPlan
  <1>5. ASSUME NEW i \in 1 .. Len(plan)
        PROVE  plan[i] = (steps \o pending)[i]
    <2>1. CASE i <= Len(evidence)
      BY <1>2, <1>3, <2>1 DEF CoversPlan
    <2>2. CASE i > Len(evidence)
      <3>1. (i - Len(evidence)) \in 1 .. Len(pending) /\ Len(evidence) + (i - Len(evidence)) = i
        BY <1>1, <2>2 DEF CoversPlan
      <3>2. plan[i] = pending[i - Len(evidence)]
        BY <3>1 DEF CoversPlan
      <3> QED
        BY <1>2, <2>2, <3>1, <3>2 DEF CoversPlan
    <2>3. i <= Len(evidence) \/ i > Len(evidence)
      BY <1>1 DEF CoversPlan
    <2> QED
      BY <2>1, <2>2, <2>3
  <1>6. plan = steps \o pending
    <2>. DEFINE whole == steps \o pending
    <2>. HIDE DEF whole
    <2>1. plan \in Seq(PlanSteps) /\ whole \in Seq(PlanSteps) /\ Len(plan) = Len(whole)
      BY <1>4 DEF CoversPlan, whole
    <2>2. \A i \in 1 .. Len(plan) : plan[i] = whole[i]
      BY <1>5 DEF whole
    <2>3. plan = whole
      BY <2>1, <2>2
    <2> QED
      BY <2>3 DEF whole
  <1> QED
    BY <1>6 DEF steps

\* A step that leaves plan, evidence and pending steps as they are.
LEMMA SameEvidence ==
    ASSUME EvidenceInv,
           checkpoint'.plan = checkpoint.plan, checkpoint'.evidence = checkpoint.evidence,
           checkpoint'.pending = checkpoint.pending,
           checkpoint'.node = "execute_query" =>
              /\ checkpoint.pending # <<>>
              /\ checkpoint'.candidate.step = Head(checkpoint.pending)
              /\ checkpoint'.candidate.sql \in ReadCandidates,
           checkpoint'.outcome.status = "completed" =>
              checkpoint.pending = <<>> /\ checkpoint'.reconciled,
           call'.pc \in {"saving", "returned"} => call'.answer \in AllAnswers
    PROVE  EvidenceInv'
  BY DEF EvidenceInv

LEMMA NoEvidence ==
    /\ InitialState.evidence = <<>> /\ InitialState.plan = <<>> /\ InitialState.pending = <<>>
    /\ CoversPlan(<<>>, <<>>, <<>>)
  <1>1. InitialState.evidence = <<>> /\ InitialState.plan = <<>> /\ InitialState.pending = <<>>
    BY DEF InitialState
  <1>2. CoversPlan(<<>>, <<>>, <<>>)
    BY DEF CoversPlan
  <1> QED
    BY <1>1, <1>2

LEMMA NewPlan ==
    ASSUME NEW plan \in Seq(PlanSteps)
    PROVE  CoversPlan(plan, <<>>, plan)
  BY DEF CoversPlan

LEMMA EvidenceStart == Init => EvidenceInv
  BY NoEvidence, CallFields, FirstState, Fields, OutcomeKinds
  DEF Init, GatewayInit, NoCheckpoint, EvidenceInv

\* In particular one that leaves the checkpoint alone.
LEMMA SameCheckpoint ==
    ASSUME EvidenceInv, checkpoint' = checkpoint, call'.pc \notin {"saving", "returned"}
    PROVE  EvidenceInv'
  BY SameEvidence DEF EvidenceInv

LEMMA DecideKeepsEvidence ==
    ASSUME GraphInv, EvidenceInv, DecideStep
    PROVE  EvidenceInv'
  <1>. DEFINE Same == /\ checkpoint'.plan = checkpoint.plan /\ checkpoint'.evidence = checkpoint.evidence
                      /\ checkpoint'.pending = checkpoint.pending
                      /\ checkpoint'.reconciled = checkpoint.reconciled
                      /\ checkpoint'.node # "execute_query"
                      /\ \/ checkpoint'.outcome = checkpoint.outcome
                         \/ checkpoint'.outcome.status # "completed"
                      /\ call' = NoCall
  <1>0. /\ DOMAIN checkpoint = DOMAIN InitialState
        /\ run = "ready" => call = NoCall
    BY DEF GraphInv, Shape, PositionsFit
  <1>. USE Fields, OutcomeKinds DEF AtNode, Goto, Write, Raise, gatewayVars
  <1>1. CASE CallModel
    <2>1. checkpoint' = checkpoint /\ call'.pc \in {"encoding", "raised"}
      BY <1>1, CallFields DEF CallModel, BeginCall
    <2> QED
      BY <2>1, SameCheckpoint
  <1>2. CASE PrepareContext
    <2>1. Same \/ (checkpoint' = checkpoint /\ call' = NoCall)
      BY <1>0, <1>2, ZenonT(60) DEF PrepareContext
    <2> QED
      BY <2>1, SameEvidence, SameCheckpoint, CallFields DEF EvidenceInv
  <1>3. CASE CallModelLimit \/ RouteOutput \/ CloseExchange
    <2>1. Same
      BY <1>0, <1>3, ZenonT(60) DEF CallModelLimit, RouteOutput, CloseExchange
    <2> QED
      BY <2>1, SameEvidence, CallFields DEF EvidenceInv
  <1>4. CASE ModelAnswered \/ ModelFailed
    <2>1. ASSUME ModelAnswered
          PROVE  Same
      BY <1>0, <2>1 DEF ModelAnswered
    <2>2. ASSUME ModelFailed
          PROVE  Same
      BY <1>0, <2>2 DEF ModelFailed
    <2> QED
      BY <1>4, <2>1, <2>2, SameEvidence, CallFields DEF EvidenceInv
  <1>5. CASE ValidateTools
    <2>1. \/ Raise
          \/ Goto([checkpoint EXCEPT !.node = "finalize", !.outcome = Stopped("tool_call_limit")])
          \/ Goto([checkpoint EXCEPT !.node = "execute_tools"])
      BY <1>5 DEF ValidateTools
    <2>2. run = "ready"
      BY <1>5 DEF ValidateTools
    <2>3. ASSUME Goto([checkpoint EXCEPT !.node = "finalize", !.outcome = Stopped("tool_call_limit")])
          PROVE  Same
      BY <1>0, <2>2, <2>3
    <2>4. ASSUME Goto([checkpoint EXCEPT !.node = "execute_tools"])
          PROVE  Same
      BY <1>0, <2>2, <2>4
    <2>5. Same \/ (checkpoint' = checkpoint /\ call' = NoCall)
      BY <2>1, <2>3, <2>4
    <2> QED
      BY <2>5, SameEvidence, SameCheckpoint, CallFields DEF EvidenceInv
  <1>6. ASSUME NEW results \in Results, ExecuteTools(results)
        PROVE  EvidenceInv'
    <2>1. Same
      BY <1>0, <1>6, ZenonT(60) DEF ExecuteTools
    <2> QED
      BY <2>1, SameEvidence, CallFields DEF EvidenceInv
  <1>7. CASE Finalize
    <2>1. checkpoint' = checkpoint /\ call' = NoCall
      BY <1>0, <1>7 DEF Finalize
    <2> QED
      BY <2>1, SameCheckpoint, CallFields
  <1> QED
    BY <1>1, <1>2, <1>3, <1>4, <1>5, <1>6, <1>7 DEF DecideStep

LEMMA InvestigateKeepsEvidence ==
    ASSUME GraphInv, EvidenceInv, InvestigateStep
    PROVE  EvidenceInv'
  <1>. DEFINE Kept == /\ checkpoint'.plan = checkpoint.plan /\ checkpoint'.evidence = checkpoint.evidence
                      /\ checkpoint'.pending = checkpoint.pending
                      /\ checkpoint'.reconciled = checkpoint.reconciled
                      /\ checkpoint'.node # "execute_query"
                      /\ call' = NoCall
              Same == Kept /\ \/ checkpoint'.outcome = checkpoint.outcome
                              \/ checkpoint'.outcome.status # "completed"
  <1>0. /\ DOMAIN checkpoint = DOMAIN InitialState
        /\ run \in {"ready", "proposed", "finishing"} => call = NoCall
        /\ Same => EvidenceInv'
    <2>1. Same => EvidenceInv'
      BY SameEvidence, CallFields DEF EvidenceInv
    <2> QED
      BY <2>1 DEF GraphInv, Shape, PositionsFit
  <1>. USE Fields, FirstState, OutcomeKinds DEF Investigating, Taken, gatewayVars, Write, Save, CacheAndFinish
  <1>1. CASE StopUnavailable \/ AskLimit
    <2>1. ASSUME NEW reason, CacheAndFinish(checkpoint, Stopped(reason)), call' = NoCall
          PROVE  Same
      BY <1>0, <2>1
    <2> QED
      BY <1>0, <1>1, <2>1, ZenonT(60) DEF StopUnavailable, AskLimit
  <1>2. ASSUME NEW step \in {"decide", "sql", "report"}, Ask(step)
        PROVE  EvidenceInv'
    <2>1. checkpoint' = checkpoint /\ call'.pc \in {"encoding", "raised"}
      BY <1>2, CallFields DEF Ask, BeginCall
    <2> QED
      BY <2>1, SameCheckpoint
  <1>3. CASE AskFailed \/ QueryRaises \/ ProposeConflicts \/ ReportMismatch
    <2>1. checkpoint' = checkpoint /\ call' = NoCall
      BY <1>3 DEF AskFailed, QueryRaises, ProposeConflicts, ReportMismatch, Raise
    <2> QED
      BY <2>1, SameCheckpoint, CallFields
  <1>4. CASE TakeClarification
    <2>. DEFINE outcome == [status |-> "needs_input", reason |-> "none", declared |-> {}]
    <2>1. checkpoint = NoCheckpoint /\ call' = NoCall
      BY <1>4 DEF TakeClarification, Answered, NeedsModel
    <2>2. checkpoint' = [[InitialState EXCEPT !.calls = 1, !.tools = 1]
                           EXCEPT !.node = "finalize", !.outcome = outcome, !.cleaned = FALSE]
      BY <1>4 DEF TakeClarification
    <2>3. Kept /\ checkpoint'.outcome = outcome
      BY <2>1, <2>2 DEF NoCheckpoint
    <2> QED
      BY <1>0, <2>3
  <1>5. CASE TakePlan
    <2>1. call.answer \in AllAnswers /\ call.answer.type = "plan" /\ call' = NoCall
      BY <1>5 DEF TakePlan, Answered, EvidenceInv
    <2>2. /\ checkpoint'.plan = call.answer.plan /\ checkpoint'.pending = call.answer.plan
          /\ checkpoint'.evidence = <<>> /\ checkpoint'.node = "prepare_plan_step"
          /\ checkpoint'.outcome = NoOutcome
      BY <1>5, NoEvidence DEF TakePlan
    <2>3. CoversPlan(call.answer.plan, <<>>, call.answer.plan)
      <3>. DEFINE plan == call.answer.plan
      <3>1. plan \in Plans
        BY <2>1, AnswersByType
      <3>2. plan \in Seq(PlanSteps)
        <4>1. plan \in Seq({ plan[i] : i \in DOMAIN plan })
          BY <3>1, RetailAssumption
        <4>2. { plan[i] : i \in DOMAIN plan } \subseteq PlanSteps
          BY <3>1 DEF PlanSteps
        <4>. HIDE DEF plan
        <4> QED
          BY <4>1, <4>2
      <3> QED
        BY <3>2, NewPlan
    <2> QED
      BY <2>1, <2>2, <2>3, CallFields DEF EvidenceInv
  <1>6. CASE TakeCandidate
    <2>1. /\ call.answer \in AllAnswers /\ call.answer.type = "sql" /\ call' = NoCall
          /\ checkpoint.pending # <<>>
      BY <1>6 DEF TakeCandidate, Answered, NeedsModel, EvidenceInv
    <2>2. call.answer.sql \in ReadCandidates
      BY <1>6, <2>1, AnswersByType DEF TakeCandidate, ReadCandidates
    <2>. DEFINE asked == [checkpoint EXCEPT !.calls = @ + 1]
    <2>3. ASSUME CacheAndFinish(asked, Stopped("sql_no_progress"))
          PROVE  Same
      BY <1>0, <2>1, <2>3
    <2>4. ASSUME NEW repair,
                 Save([asked EXCEPT !.node = "execute_query",
                                    !.candidate = [sql |-> call.answer.sql, step |-> Head(checkpoint.pending),
                                                   repair |-> repair]])
          PROVE  EvidenceInv'
      <3>1. /\ checkpoint'.plan = checkpoint.plan /\ checkpoint'.evidence = checkpoint.evidence
            /\ checkpoint'.pending = checkpoint.pending /\ checkpoint'.reconciled = checkpoint.reconciled
            /\ checkpoint'.outcome = checkpoint.outcome
            /\ checkpoint'.candidate.step = Head(checkpoint.pending)
            /\ checkpoint'.candidate.sql = call.answer.sql
        BY <1>0, <2>4
      <3> QED
        BY <2>1, <2>2, <3>1, CallFields, SameEvidence DEF EvidenceInv
    <2> QED
      BY <1>0, <1>6, <2>3, <2>4, ZenonT(60) DEF TakeCandidate
  <1>7. CASE QuerySucceeds
    <2>1. /\ checkpoint.pending # <<>> /\ checkpoint.node = "execute_query" /\ call' = NoCall
          /\ Admits(Trees[checkpoint.candidate.sql])
      BY <1>0, <1>7 DEF QuerySucceeds, Executing, Admitted
    <2>2. /\ checkpoint.candidate.step = Head(checkpoint.pending)
          /\ checkpoint.candidate.sql \in ReadCandidates
          /\ CoversPlan(checkpoint.plan, checkpoint.evidence, checkpoint.pending)
      BY <2>1 DEF EvidenceInv
    <2>3. /\ checkpoint'.plan = checkpoint.plan
          /\ checkpoint'.evidence = Append(checkpoint.evidence, Evidence)
          /\ checkpoint'.pending = Tail(checkpoint.pending)
          /\ checkpoint'.outcome = checkpoint.outcome
          /\ checkpoint'.node = "prepare_plan_step"
      BY <1>0, <1>7 DEF QuerySucceeds
    <2>4. /\ Evidence \in EvidenceRecord /\ Evidence.step = Head(checkpoint.pending)
          /\ Evidence.of = Evidence.step /\ Evidence.sql = checkpoint.candidate.sql
      <3>1. Head(checkpoint.pending) \in PlanSteps
        BY <2>1, <2>2 DEF CoversPlan
      <3> QED
        BY <2>2, <3>1 DEF Evidence, EvidenceRecord
    <2>5. CoversPlan(checkpoint'.plan, checkpoint'.evidence, checkpoint'.pending)
      BY <2>1, <2>2, <2>3, <2>4, NextStepOfPlan
    <2>6. checkpoint.outcome.status # "completed"
      BY <2>1 DEF EvidenceInv
    <2>7. \A i \in DOMAIN checkpoint'.evidence :
             \/ checkpoint'.evidence[i] = Evidence
             \/ /\ i \in DOMAIN checkpoint.evidence
                /\ checkpoint'.evidence[i] = checkpoint.evidence[i]
      <3>. DEFINE evidence == checkpoint.evidence
      <3>1. evidence \in Seq(EvidenceRecord)
        BY <2>2 DEF CoversPlan
      <3>2. ASSUME NEW record, NEW i \in DOMAIN Append(evidence, record)
            PROVE  \/ Append(evidence, record)[i] = record
                   \/ i \in DOMAIN evidence /\ Append(evidence, record)[i] = evidence[i]
        BY <3>1
      <3> QED
        BY <2>3, <3>2
    <2>8. \A i \in DOMAIN checkpoint'.evidence :
             /\ checkpoint'.evidence[i].of = checkpoint'.evidence[i].step
             /\ Admits(Trees[checkpoint'.evidence[i].sql])
      BY <2>1, <2>4, <2>7 DEF EvidenceInv
    <2> QED
      BY <2>1, <2>3, <2>5, <2>6, <2>8, CallFields DEF EvidenceInv
  <1>8. CASE QueryFails
    <2>. DEFINE failed == [checkpoint EXCEPT !.tools = @ + 1]
    <2>1. ASSUME call' = NoCall, Save([failed EXCEPT !.node = "sql_reason", !.repairs = @ + 1, !.failed = TRUE])
          PROVE  Same
      BY <1>0, <2>1
    <2>2. ASSUME call' = NoCall, CacheAndFinish(failed, Stopped("sql_repair_limit"))
          PROVE  Same
      BY <1>0, <2>2
    <2> QED
      BY <1>0, <1>8, <2>1, <2>2 DEF QueryFails, Executing
  <1>9. CASE Reconcile
    <2>1. /\ checkpoint'.plan = checkpoint.plan /\ checkpoint'.evidence = checkpoint.evidence
          /\ checkpoint'.pending = checkpoint.pending /\ checkpoint'.outcome = checkpoint.outcome
          /\ checkpoint'.reconciled /\ checkpoint'.node = "prepare_report" /\ call' = NoCall
      BY <1>0, <1>9 DEF Reconcile
    <2> QED
      BY <2>1, SameEvidence, CallFields DEF EvidenceInv
  <1>10. CASE TakeProposal
    <2>. DEFINE asked == [checkpoint EXCEPT !.calls = @ + 1, !.tools = @ + 1]
    <2>1. ASSUME call' = NoCall, Save([asked EXCEPT !.node = "create_proposal", !.batch = call.answer])
          PROVE  Same
      BY <1>0, <2>1
    <2>2. ASSUME call' = NoCall, CacheAndFinish(asked, Stopped("operation_workflow_unavailable"))
          PROVE  Same
      BY <1>0, <2>2
    <2> QED
      BY <1>0, <1>10, <2>1, <2>2 DEF TakeProposal
  <1>11. CASE Propose \/ FinishDelete \/ FinishFails
    <2>1. checkpoint' = checkpoint /\ call' = NoCall
      BY <1>0, <1>11 DEF Propose, Proposing, FinishDelete, FinishFails
    <2> QED
      BY <2>1, SameCheckpoint, CallFields
  <1>12. CASE SaveRef
    <2>1. Same
      BY <1>0, <1>12 DEF SaveRef
    <2> QED
      BY <1>0, <2>1
  <1>13. CASE TakeReport
    <2>1. checkpoint.pending = <<>> /\ checkpoint.reconciled
      BY <1>13 DEF TakeReport, Answered, NeedsModel
    <2>2. Kept
      BY <1>0, <1>13 DEF TakeReport
    <2> QED
      BY <2>1, <2>2, SameEvidence, CallFields
  <1> QED
    BY <1>1, <1>2, <1>3, <1>4, <1>5, <1>6, <1>7, <1>8, <1>9, <1>10, <1>11, <1>12, <1>13
    DEF InvestigateStep

LEMMA EvidenceSteps == GraphInv /\ EvidenceInv /\ [Next]_vars => EvidenceInv'
  <1>. SUFFICES ASSUME GraphInv, EvidenceInv, [Next]_vars
                PROVE  EvidenceInv'
    OBVIOUS
  <1>1. CASE UNCHANGED vars \/ (Tick /\ UNCHANGED graphVars)
    BY <1>1 DEF vars, gatewayVars, graphVars, Tick, EvidenceInv
  <1>2. CASE StartRun
    <2>1. call' = NoCall
      BY <1>2 DEF StartRun, gatewayVars, GraphInv, PositionsFit
    <2>2. CASE checkpoint' = checkpoint
      BY <2>1, <2>2, SameCheckpoint, CallFields
    <2>3. CASE checkpoint = NoCheckpoint /\ checkpoint' = InitialState
      <3>1. /\ checkpoint.plan = InitialState.plan /\ checkpoint.pending = InitialState.pending
            /\ checkpoint.evidence = InitialState.evidence
        BY <2>3, Fields DEF NoCheckpoint
      <3> QED
        BY <2>1, <2>3, <3>1, FirstState, OutcomeKinds, SameEvidence, CallFields
    <2> QED
      BY <1>2, <2>2, <2>3 DEF StartRun, Restored
  <1>3. CASE RunFails
    <2>1. checkpoint' = checkpoint /\ call' = NoCall
      BY <1>3 DEF RunFails, Raise
    <2> QED
      BY <2>1, SameCheckpoint, CallFields
  <1>4. CASE Gateway
    <2>1. Offered \subseteq AllAnswers
      BY DEF Offered, AllAnswers
    <2>2. call'.pc \in {"saving", "returned"} => call'.answer \in AllAnswers
      <3>1. call.pc \in {"saving", "returned"} => call.answer \in AllAnswers
        BY DEF EvidenceInv
      <3>2. CASE \E a \in Offered : Send("answer", a)
        BY <2>1, <3>2, CallFields DEF Send, GraphInv, Shape
      <3>3. CASE \E o \in Outcomes \ {"answer"} : Send(o, NoAnswer)
        BY <3>3, CallFields DEF Send, GraphInv, Shape, Raised
      <3>4. CASE SaveTurn
        BY <3>1, <3>4, CallFields DEF SaveTurn, GraphInv, Shape
      <3>5. CASE Resolve \/ ResolveFails \/ SaveRefused \/ SaveFails
        BY <3>5, CallFields DEF Resolve, ResolveFails, SaveRefused, SaveFails, Raised, GraphInv, Shape
      <3> QED
        BY <1>4, <3>2, <3>3, <3>4, <3>5 DEF Gateway, GatewayStep
    <2>3. checkpoint' = checkpoint
      BY <1>4 DEF Gateway, graphVars
    <2> QED
      BY <2>2, <2>3, SameEvidence DEF EvidenceInv
  <1>5. CASE SaveComplete
    <2>1. /\ checkpoint'.plan = checkpoint.plan /\ checkpoint'.evidence = checkpoint.evidence
          /\ checkpoint'.pending = checkpoint.pending /\ checkpoint'.reconciled = checkpoint.reconciled
          /\ checkpoint'.outcome = checkpoint.outcome /\ checkpoint'.node = "complete"
          /\ call' = NoCall
      BY <1>5, Fields DEF SaveComplete, gatewayVars, GraphInv, Shape, PositionsFit
    <2> QED
      BY <2>1, SameEvidence, CallFields DEF EvidenceInv
  <1> QED
    BY <1>1, <1>2, <1>3, <1>4, <1>5, DecideKeepsEvidence, InvestigateKeepsEvidence DEF Next, RunStep

\* The evidence is that of the plan's steps so far, each once, in the plan's
\* order and from the query that was written for it.
THEOREM EvidenceFollowsPlanAlways == Spec => []EvidenceFollowsPlan
  <1>1. EvidenceInv => EvidenceFollowsPlan
    BY WholePlan, ZenonT(60) DEF EvidenceInv, EvidenceFollowsPlan
  <1> QED
    BY <1>1, Start, EvidenceStart, GraphSteps, EvidenceSteps, PTL DEF Spec

\* No query that could write was executed, and no evidence of a query that gives
\* no table a column list shows an identity, for any statements the model may
\* write.
THEOREM EvidenceIsReleasableAlways == Spec => []EvidenceIsReleasable
  <1>1. EvidenceInv => EvidenceIsReleasable
    <2>. SUFFICES ASSUME EvidenceInv, NEW i \in DOMAIN checkpoint.evidence
                  PROVE  LET statement == Trees[checkpoint.evidence[i].sql] IN
                         /\ KeepsNames(statement) => Shows(statement) = {}
                         /\ statement.form = "select" /\ statement.nodes = {}
      BY DEF EvidenceIsReleasable
    <2>. DEFINE statement == Trees[checkpoint.evidence[i].sql]
    <2>1. Admits(statement)
      BY DEF EvidenceInv
    <2>2. checkpoint.evidence[i] \in EvidenceRecord
      BY DEF EvidenceInv, CoversPlan
    <2>3. IsWellFormed(statement) /\ IsReadOnly(statement)
      BY <2>2, RetailAssumption DEF EvidenceRecord, ReadCandidates
    <2>4. KeepsNames(statement) => Shows(statement) = {}
      BY <2>1, <2>3, AdmittedShowsNothing
    <2> QED
      BY <2>1, <2>3, <2>4, ZenonT(60) DEF Admits, IsOneSelect, IsReadOnly, IsWellFormed
  <1> QED
    BY <1>1, Start, EvidenceStart, GraphSteps, EvidenceSteps, PTL DEF Spec

-----------------------------------------------------------------------------
(* The calls of the attempt and the turns they leave *)

Refused == {"history_sequence_invalid", "state_not_found"}
Exchange == [turn : Sequences, tokens : Nat, results : {"raw", "summary"}]

\* Turns that a call with sequence s may refer to.
Replayable(refs, s) ==
    /\ refs \in Seq(Sequences)
    /\ IsValidHistory(refs, s)
    /\ \A i \in DOMAIN refs : IsKept(refs[i])

\* A call under way is the next one, and finds the turns of its history.
CallFits ==
    /\ checkpoint.calls \in Nat
    /\ call.pc \in {"idle", "encoding", "saving", "returned", "raised"}
    /\ IF call.pc = "raised" THEN call.error \in Errors \ Refused ELSE call.error = "none"
    /\ call.pc \in {"encoding", "saving", "returned"} =>
          call.sequence \in Sequences /\ call.sequence = checkpoint.calls
    /\ call.pc = "encoding" => /\ call.history \in Seq(Sequences)
                               /\ call.resolved \in 0 .. Len(call.history)
                               /\ \A i \in DOMAIN call.history : IsKept(call.history[i])
    /\ call.pc = "returned" => IsKept(call.sequence)

\* The history is older than the calls so far, but for the one whose batch is
\* not closed yet.
HistoryFits ==
    Deciding =>
        /\ checkpoint.history \in Seq(Exchange)
        /\ checkpoint.batch \in DecideAnswers \cup {NoAnswer}
        /\ checkpoint.batch = NoAnswer /\ ~IsOver => Replayable(Turns(checkpoint.history), checkpoint.calls)
        /\ checkpoint.batch # NoAnswer =>
              /\ checkpoint.calls - 1 \in Sequences /\ IsKept(checkpoint.calls - 1)
              /\ Replayable(Turns(checkpoint.history), checkpoint.calls - 1)
        /\ checkpoint.node = "call_model" =>
              Replayable(Turns(checkpoint.request.groups), checkpoint.calls)
        /\ checkpoint.node \in {"validate_tools", "execute_tools", "close_exchange"} =>
              checkpoint.batch # NoAnswer
        /\ checkpoint.node \in {"execute_tools", "close_exchange"} => checkpoint.batch.type = "tools"

Failed == checkpoint.outcome.status = "stopped" /\ checkpoint.outcome.reason \in Errors
AnsweredCalls == IF Failed THEN checkpoint.calls - 1 ELSE checkpoint.calls

\* One turn for every answered call, and at most one more.
TurnsFit ==
    \A s \in Sequences : /\ s < AnsweredCalls => IsKept(s)
                         /\ IsKept(s) => s <= checkpoint.calls

CallsInv == CallFits /\ HistoryFits /\ TurnsFit

\* What a step does to the turns that are kept.
KeptGrows == \A s \in Sequences : turns[s].status # "absent" => turns'[s].status # "absent"
KeptStays == \A s \in Sequences : turns[s].status # "absent" <=> turns'[s].status # "absent"

LEMMA DeletionKeeps ==
    ASSUME turns \in [Sequences -> Turn], turns' \in {turns, AttemptDeleted}
    PROVE  KeptStays
  BY DEF AttemptDeleted, KeptStays, IsLive, Turn

LEMMA CallsStart == Init => CallsInv
  <1>. SUFFICES ASSUME Init
                PROVE  CallsInv
    OBVIOUS
  <1>1. /\ checkpoint.calls = 0 /\ checkpoint.history = <<>> /\ checkpoint.batch = NoAnswer
        /\ checkpoint.outcome = NoOutcome /\ checkpoint.node = "none"
    BY DEF Init, NoCheckpoint, InitialState
  <1>2. call.pc = "idle" /\ call.error = "none" /\ \A s \in Sequences : ~IsKept(s)
    BY DEF Init, GatewayInit, NoCall, NoTurn, IsKept
  <1>3. Turns(<<>>) = <<>>
    BY DEF Turns
  <1>4. Replayable(Turns(checkpoint.history), checkpoint.calls)
    <2>1. <<>> \in Seq(Sequences) /\ DOMAIN <<>> = {}
      OBVIOUS
    <2> QED
      BY <1>1, <1>3, <2>1 DEF Replayable, IsValidHistory
  <1>5. CallFits
    BY <1>1, <1>2 DEF CallFits
  <1>6. HistoryFits
    BY <1>1, <1>4 DEF HistoryFits
  <1>7. TurnsFit
    BY <1>1, <1>2, OutcomeKinds DEF TurnsFit, AnsweredCalls, Failed, Sequences
  <1> QED
    BY <1>5, <1>6, <1>7 DEF CallsInv

-----------------------------------------------------------------------------
(* What of a history goes into a request *)

LEMMA RetainedIsLatest ==
    ASSUME NEW history, Len(history) \in Nat
    PROVE  \E n \in 0 .. Len(history) :
              /\ Retained(history) = Latest(history, n)
              /\ n < Len(history) => n >= MinimumRecentGroups /\ ~Fits(Latest(history, n + 1), "all")
  <1>. DEFINE stops == { n \in 0 .. Len(history) :
                           n <= MinimumRecentGroups \/ Fits(Latest(history, n), "all") }
              gaps == { g \in 0 .. Len(history) : Len(history) - g \in stops }
  <1>1. 0 \in stops
    BY ContextAssumption
  <1>2. stops \subseteq 0 .. Len(history)
    OBVIOUS
  <1>3. gaps \subseteq Nat
    OBVIOUS
  <1>4. Len(history) \in gaps
    <2>1. Len(history) \in 0 .. Len(history) /\ Len(history) - Len(history) = 0
      OBVIOUS
    <2> QED
      BY <1>1, <2>1
  <1>. HIDE DEF stops
  <1>5. PICK g \in gaps : \A h \in gaps : g <= h
    <2>. HIDE DEF gaps
    <2> QED
      BY <1>3, <1>4, LeastElement
  <1>6. Len(history) - g \in stops /\ \A m \in stops : m <= Len(history) - g
    <2>1. ASSUME NEW m \in stops
          PROVE  m <= Len(history) - g
      <3>1. m \in 0 .. Len(history) /\ g \in 0 .. Len(history)
        BY <1>2
      <3>2. (Len(history) - m) \in 0 .. Len(history) /\ Len(history) - (Len(history) - m) = m
        BY <3>1
      <3>3. (Len(history) - m) \in gaps
        BY <3>2
      <3> QED
        BY <1>5, <3>1, <3>3
    <2> QED
      BY <2>1
  <1>. DEFINE chosen == CHOOSE n \in stops : \A m \in stops : m <= n
  <1>7. chosen \in stops /\ \A m \in stops : m <= chosen
    BY <1>6
  <1>8. Retained(history) = Latest(history, chosen)
    BY DEF Retained, stops
  <1>. HIDE DEF chosen
  <1>9. ASSUME chosen < Len(history)
        PROVE  chosen >= MinimumRecentGroups /\ ~Fits(Latest(history, chosen + 1), "all")
    <2>1. chosen \in 0 .. Len(history) /\ chosen + 1 \in 0 .. Len(history)
      BY <1>2, <1>7, <1>9
    <2>2. chosen + 1 \notin stops
      BY <1>7, <2>1
    <2> QED
      BY <2>1, <2>2, ContextAssumption DEF stops
  <1> QED
    BY <1>2, <1>7, <1>8, <1>9

LEMMA LatestGroups ==
    ASSUME NEW history \in Seq(Exchange), NEW n \in 0 .. Len(history)
    PROVE  /\ Latest(history, n) \in Seq(Exchange) /\ Len(Latest(history, n)) = n
           /\ \A i \in 1 .. n : Latest(history, n)[i] = history[Len(history) - n + i]
  <1>1. Len(history) - n + 1 \in 1 .. Len(history) + 1 /\ Len(history) \in Nat
    OBVIOUS
  <1> QED
    BY <1>1 DEF Latest

\* A request refers to turns of the history.
LEMMA RequestIsReplayable ==
    ASSUME NEW history \in Seq(Exchange), NEW s \in Nat, Replayable(Turns(history), s)
    PROVE  Replayable(Turns(Trimmed(history).groups), s)
  <1>1. PICK n \in 0 .. Len(history) : Retained(history) = Latest(history, n)
    BY RetainedIsLatest
  <1>. DEFINE groups == Retained(history)
              offset == Len(history) - n
  <1>2. /\ groups \in Seq(Exchange) /\ Len(groups) = n /\ offset \in Nat
        /\ \A i \in 1 .. n : groups[i] = history[offset + i]
    BY <1>1, LatestGroups
  <1>3. DOMAIN Trimmed(history).groups = 1 .. n
        /\ \A i \in 1 .. n : Trimmed(history).groups[i].turn = groups[i].turn
    <2>. HIDE DEF groups
    <2>1. Trimmed(history).groups \in {groups, Summarized(groups)}
      BY DEF Trimmed, groups
    <2>2. DOMAIN groups = 1 .. n /\ \A i \in 1 .. n : groups[i] \in Exchange
      BY <1>2
    <2>3. DOMAIN Summarized(groups) = 1 .. n /\ \A i \in 1 .. n : Summarized(groups)[i].turn = groups[i].turn
      BY <2>2 DEF Summarized, Exchange
    <2> QED
      BY <2>1, <2>2, <2>3
  <1>. DEFINE refs == Turns(Trimmed(history).groups)
              all == Turns(history)
  <1>4. DOMAIN refs = 1 .. n /\ \A i \in 1 .. n : refs[i] = history[offset + i].turn
    BY <1>2, <1>3 DEF Turns
  <1>5. DOMAIN all = 1 .. Len(history) /\ \A j \in 1 .. Len(history) : all[j] = history[j].turn
    BY DEF Turns
  <1>6. \A i \in 1 .. n : offset + i \in 1 .. Len(history) /\ refs[i] = all[offset + i]
    <2>1. \A i \in 1 .. n : offset + i \in 1 .. Len(history)
      OBVIOUS
    <2>. HIDE DEF refs, all, offset
    <2> QED
      BY <1>4, <1>5, <2>1
  <1>7. refs \in Seq(Sequences)
    <2>1. \A i \in 1 .. n : refs[i] \in Sequences
      BY <1>5, <1>6 DEF Replayable
    <2>2. refs = [i \in 1 .. n |-> refs[i]]
      BY <1>4 DEF Turns
    <2>. HIDE DEF refs
    <2> QED
      BY <2>1, <2>2
  <1>. HIDE DEF refs, all
  <1>8. IsValidHistory(refs, s)
    <2>1. IsValidHistory(all, s)
      BY DEF Replayable, all
    <2>2. ASSUME NEW i \in 1 .. n, NEW j \in 1 .. n, i < j
          PROVE  refs[i] < refs[j]
      <3>1. offset + i < offset + j
        BY <1>2, <2>2
      <3> QED
        BY <1>5, <1>6, <2>1, <3>1 DEF IsValidHistory
    <2>3. \A i \in 1 .. n : refs[i] < s
      BY <1>5, <1>6, <2>1 DEF IsValidHistory
    <2> QED
      BY <1>4, <2>2, <2>3 DEF IsValidHistory
  <1>9. \A i \in DOMAIN refs : IsKept(refs[i])
    BY <1>4, <1>5, <1>6 DEF Replayable, all
  <1> QED
    BY <1>7, <1>8, <1>9 DEF Replayable, refs

\* A closed exchange is the latest of the history.
LEMMA ClosedIsReplayable ==
    ASSUME NEW history \in Seq(Exchange), NEW s \in Sequences, NEW tokens \in Nat,
           Replayable(Turns(history), s), IsKept(s)
    PROVE  /\ Append(history, Group(s, tokens)) \in Seq(Exchange)
           /\ Replayable(Turns(Append(history, Group(s, tokens))), s + 1)
  <1>. DEFINE group == Group(s, tokens)
              longer == Append(history, group)
              refs == Turns(longer)
              n == Len(history)
  <1>1. group \in Exchange /\ group.turn = s
    BY DEF Group, Exchange
  <1>. HIDE DEF group
  <1>2. /\ longer \in Seq(Exchange) /\ n \in Nat /\ Len(longer) = n + 1 /\ longer[n + 1] = group
        /\ \A i \in 1 .. n : longer[i] = history[i]
    BY <1>1
  <1>3. DOMAIN longer = 1 .. n + 1
    BY <1>2
  <1>4. /\ DOMAIN refs = 1 .. n + 1 /\ refs[n + 1] = s
        /\ \A i \in 1 .. n : refs[i] = Turns(history)[i]
    BY <1>1, <1>2, <1>3 DEF Turns
  <1>5. DOMAIN Turns(history) = 1 .. n /\ \A i \in 1 .. n : Turns(history)[i] \in Sequences
    BY DEF Turns, Replayable, Exchange
  <1>6. refs \in Seq(Sequences)
    <2>1. \A i \in 1 .. n + 1 : refs[i] \in Sequences
      BY <1>2, <1>4, <1>5
    <2>2. refs = [i \in 1 .. n + 1 |-> refs[i]]
      BY <1>3 DEF Turns
    <2>. HIDE DEF refs
    <2> QED
      BY <1>2, <2>1, <2>2
  <1>. HIDE DEF refs
  <1>7. s \in Nat /\ \A i \in 1 .. n : refs[i] < s /\ refs[i] \in Nat /\ IsKept(refs[i])
    BY <1>4, <1>5 DEF Replayable, IsValidHistory, Sequences
  <1>8. \A i, j \in 1 .. n : i < j => refs[i] < refs[j]
    BY <1>4, <1>5 DEF Replayable, IsValidHistory
  <1>9. IsValidHistory(refs, s + 1)
    BY <1>2, <1>4, <1>7, <1>8 DEF IsValidHistory
  <1>10. \A i \in DOMAIN refs : IsKept(refs[i])
    BY <1>2, <1>4, <1>7
  <1> QED
    BY <1>2, <1>6, <1>9, <1>10 DEF Replayable, refs, group

-----------------------------------------------------------------------------
(* Steps and the calls *)

LEMMA ReplayableGrows ==
    ASSUME KeptGrows, NEW refs, NEW s
    PROVE  Replayable(refs, s) =>
              /\ refs \in Seq(Sequences)
              /\ IsValidHistory(refs, s)
              /\ \A i \in DOMAIN refs : turns'[refs[i]].status # "absent"
  <1>. SUFFICES ASSUME Replayable(refs, s)
                PROVE  \A i \in DOMAIN refs : turns'[refs[i]].status # "absent"
    BY DEF Replayable
  <1>1. \A i \in DOMAIN refs : refs[i] \in Sequences /\ turns[refs[i]].status # "absent"
    BY DEF Replayable, IsKept
  <1> QED
    BY <1>1 DEF KeptGrows

\* The history of a checkpoint that only turns are added to.
LEMMA HistoryGrows ==
    ASSUME HistoryFits, KeptGrows, UNCHANGED <<setup, checkpoint>>
    PROVE  HistoryFits'
  <1>1. Deciding => /\ Replayable(Turns(checkpoint.history), checkpoint.calls)
                         => Replayable(Turns(checkpoint.history), checkpoint.calls)'
                    /\ Replayable(Turns(checkpoint.history), checkpoint.calls - 1)
                         => Replayable(Turns(checkpoint.history), checkpoint.calls - 1)'
                    /\ Replayable(Turns(checkpoint.request.groups), checkpoint.calls)
                         => Replayable(Turns(checkpoint.request.groups), checkpoint.calls)'
    BY ReplayableGrows DEF Replayable, IsKept
  <1>2. checkpoint.calls - 1 \in Sequences /\ IsKept(checkpoint.calls - 1) => IsKept(checkpoint.calls - 1)'
    BY DEF KeptGrows, IsKept
  <1> QED
    BY <1>1, <1>2 DEF HistoryFits, Deciding, IsOver

\* Without a call under way, the calls and turns of before, or one of both.
LEMMA CallEnds ==
    ASSUME CallsInv, KeptStays, call' = NoCall,
           \/ /\ checkpoint'.calls = checkpoint.calls
              /\ checkpoint'.outcome = checkpoint.outcome \/ ~IsOver
           \/ /\ checkpoint'.calls = checkpoint.calls + 1
              /\ call.pc = "returned" /\ ~IsOver
    PROVE  CallFits' /\ TurnsFit'
  <1>1. call'.pc = "idle" /\ call'.error = "none" /\ checkpoint.calls \in Nat
    BY DEF NoCall, CallsInv, CallFits
  <1>2. CallFits'
    BY <1>1 DEF CallFits
  <1>3. ~IsOver => AnsweredCalls = checkpoint.calls
    BY OutcomeKinds DEF AnsweredCalls, Failed, IsOver
  <1>4. call.pc = "returned" => /\ call.sequence = checkpoint.calls /\ call.sequence \in Sequences
                                /\ IsKept(call.sequence)
    BY DEF CallsInv, CallFits
  <1>5. ASSUME NEW s \in Sequences
        PROVE  /\ s < AnsweredCalls' => IsKept(s)'
               /\ IsKept(s)' => s <= checkpoint'.calls
    <2>1. IsKept(s)' <=> IsKept(s)
      BY DEF KeptStays, IsKept
    <2>2. (s < AnsweredCalls => IsKept(s)) /\ (IsKept(s) => s <= checkpoint.calls) /\ s \in Nat
      BY DEF CallsInv, TurnsFit, Sequences
    <2>3. AnsweredCalls' = AnsweredCalls \/ (AnsweredCalls' <= checkpoint'.calls /\ ~IsOver)
      <3>1. checkpoint'.calls \in Nat
        BY <1>1
      <3> QED
        BY <3>1 DEF AnsweredCalls, Failed
    <2>4. CASE checkpoint'.calls = checkpoint.calls
      <3>1. AnsweredCalls \in Int /\ AnsweredCalls' \in Int
        BY <1>1, <2>4 DEF AnsweredCalls
      <3>2. s < AnsweredCalls' => s < AnsweredCalls
        BY <1>1, <1>3, <2>2, <2>3, <2>4, <3>1
      <3> QED
        BY <2>1, <2>2, <2>4, <3>2
    <2>5. CASE checkpoint'.calls = checkpoint.calls + 1 /\ call.pc = "returned" /\ ~IsOver
      <3>1. AnsweredCalls' <= checkpoint.calls + 1 /\ AnsweredCalls' \in Int
        BY <1>1, <2>5 DEF AnsweredCalls
      <3>2. s < checkpoint.calls => IsKept(s)
        BY <1>3, <2>2, <2>5
      <3>3. s = checkpoint.calls => IsKept(s)
        BY <1>4, <2>5
      <3> QED
        BY <1>1, <2>1, <2>2, <2>5, <3>1, <3>2, <3>3
    <2> QED
      BY <2>4, <2>5
  <1> QED
    BY <1>2, <1>5 DEF TurnsFit

\* A step that leaves the history and its place in the graph alone.
LEMMA SameHistory ==
    ASSUME CallsInv, KeptStays, call' = NoCall, UNCHANGED <<setup, checkpoint>>
    PROVE  CallsInv'
  <1>1. CallFits' /\ TurnsFit'
    BY CallEnds
  <1>2. KeptGrows
    BY DEF KeptStays, KeptGrows
  <1>3. HistoryFits'
    BY <1>2, HistoryGrows DEF CallsInv
  <1> QED
    BY <1>1, <1>3 DEF CallsInv

LEMMA GatewayKeepsCalls ==
    ASSUME GraphInv, CallsInv, Gateway
    PROVE  CallsInv'
  <1>1. call.pc \in {"encoding", "saving"} /\ UNCHANGED graphVars
    BY DEF Gateway, GatewayStep, Resolve, ResolveFails, Send, SaveTurn, SaveRefused, SaveFails
  <1>2. ~IsOver /\ (\A s \in Sequences : turns[s].status \in {"absent", "live"})
    <2>1. ~IsOver
      BY <1>1, CallFields DEF GraphInv, PositionsFit, EndsWithOutcome, Deciding
    <2>2. \A s \in Sequences : turns[s].status \in {"absent", "live", "terminal"}
      BY DEF GraphInv, Shape, Turn
    <2> QED
      BY <2>1, <2>2 DEF GraphInv, TurnsEnd
  <1>3. /\ call.sequence \in Sequences /\ call.sequence = checkpoint.calls /\ call.error = "none"
        /\ checkpoint.calls \in Nat /\ DOMAIN call = DOMAIN NoCall
        /\ turns \in [Sequences -> Turn]
    BY <1>1 DEF CallsInv, CallFits, GraphInv, Shape
  <1>4. ASSUME KeptGrows, \A s \in Sequences : turns'[s].status # "absent" => IsKept(s) \/ s = checkpoint.calls
        PROVE  HistoryFits' /\ TurnsFit'
    <2>1. HistoryFits'
      BY <1>1, <1>4, HistoryGrows DEF CallsInv, graphVars
    <2>2. TurnsFit'
      BY <1>1, <1>3, <1>4 DEF CallsInv, TurnsFit, KeptGrows, IsKept, AnsweredCalls, Failed, graphVars, Sequences
    <2> QED
      BY <2>1, <2>2
  <1>5. UNCHANGED turns => HistoryFits' /\ TurnsFit'
    BY <1>4 DEF KeptGrows, IsKept
  <1>6. ASSUME NEW error \in Errors \ Refused, call' = Raised(error)
        PROVE  CallFits'
    <2>1. call'.pc = "raised" /\ call'.error = error
      BY <1>6, CallFields DEF Raised
    <2> QED
      BY <1>1, <1>3, <2>1 DEF CallFits, graphVars
  <1>7. CASE Resolve
    <2>. DEFINE s == call.history[call.resolved + 1]
    <2>1. /\ call.pc = "encoding" /\ call.history \in Seq(Sequences)
          /\ call.resolved \in 0 .. Len(call.history) /\ call.resolved < Len(call.history)
          /\ \A i \in DOMAIN call.history : IsKept(call.history[i])
      BY <1>7 DEF Resolve, CallsInv, CallFits
    <2>2. s \in Sequences /\ IsKept(s)
      BY <2>1
    <2>3. IsLive(s)
      BY <1>2, <2>2 DEF IsKept, IsLive
    <2>4. ResolveError(s) \in {"none", "state_expired"}
      BY <2>3 DEF ResolveError
    <2>5. CASE ResolveError(s) # "none"
      <3>1. call' = Raised("state_expired") /\ UNCHANGED turns
        BY <1>7, <2>4, <2>5 DEF Resolve
      <3>2. "state_expired" \in Errors \ Refused
        BY DEF Errors, StateErrors, Refused
      <3> QED
        BY <1>5, <1>6, <3>1, <3>2 DEF CallsInv
    <2>6. CASE ResolveError(s) = "none"
      <3>1. turns' = Renewed(s) /\ call' = [call EXCEPT !.resolved = @ + 1]
        BY <1>7, <2>6 DEF Resolve
      <3>2. \A t \in Sequences : turns'[t].status = turns[t].status
        BY <1>3, <2>2, <3>1 DEF Renewed, Turn
      <3>3. HistoryFits' /\ TurnsFit'
        BY <1>4, <3>2 DEF KeptGrows, IsKept
      <3>4. /\ call'.pc = "encoding" /\ call'.error = "none" /\ call'.sequence = call.sequence
            /\ call'.history = call.history /\ call'.resolved = call.resolved + 1
        BY <1>3, <2>1, <3>1, CallFields
      <3>5. \A i \in DOMAIN call.history : IsKept(call.history[i])'
        BY <2>1, <3>2, <3>4 DEF IsKept
      <3>6. CallFits'
        BY <1>1, <1>3, <2>1, <3>4, <3>5 DEF CallFits, graphVars
      <3> QED
        BY <3>3, <3>6 DEF CallsInv
    <2> QED
      BY <2>5, <2>6
  <1>8. CASE ResolveFails \/ SaveRefused
    <2>1. UNCHANGED turns /\ call' \in {Raised("state_read_failed"), Raised("state_sequence_duplicate")}
      BY <1>8 DEF ResolveFails, SaveRefused
    <2>2. {"state_read_failed", "state_sequence_duplicate"} \subseteq Errors \ Refused
      BY DEF Errors, StateErrors, Refused
    <2> QED
      BY <1>5, <1>6, <2>1, <2>2 DEF CallsInv
  <1>9. ASSUME NEW outcome \in Outcomes, NEW answer, Send(outcome, answer)
        PROVE  CallsInv'
    <2>1. UNCHANGED turns /\ call.pc = "encoding"
      BY <1>9 DEF Send
    <2>2. CASE outcome = "answer"
      <3>1. call'.pc = "saving" /\ call'.error = "none" /\ call'.sequence = call.sequence
        BY <1>3, <1>9, <2>2, CallFields DEF Send
      <3>2. CallFits'
        BY <1>1, <1>3, <3>1 DEF CallFits, graphVars
      <3> QED
        BY <1>5, <2>1, <3>2 DEF CallsInv
    <2>3. CASE outcome # "answer" /\ ShouldRetry(outcome)
      <3>1. /\ call'.pc = "encoding" /\ call'.error = "none" /\ call'.sequence = call.sequence
            /\ call'.history = call.history /\ call'.resolved = call.resolved
        BY <1>3, <1>9, <2>1, <2>3, CallFields DEF Send
      <3>2. CallFits'
        BY <1>1, <1>3, <2>1, <3>1 DEF CallFits, CallsInv, graphVars, IsKept
      <3> QED
        BY <1>5, <2>1, <3>2 DEF CallsInv
    <2>4. CASE outcome # "answer" /\ ~ShouldRetry(outcome)
      <3>1. call' = Raised(outcome) /\ outcome \in Errors \ Refused
        BY <1>9, <2>4 DEF Send, Errors, Outcomes, Refused
      <3> QED
        BY <1>5, <1>6, <2>1, <3>1 DEF CallsInv
    <2> QED
      BY <2>2, <2>3, <2>4
  <1>10. ASSUME turns' = Saved(call.sequence)
         PROVE  HistoryFits' /\ TurnsFit' /\ turns'[call.sequence].status # "absent"
    <2>1. /\ turns'[call.sequence].status = "live"
          /\ \A t \in Sequences : t # call.sequence => turns'[t] = turns[t]
      BY <1>3, <1>10 DEF Saved
    <2> QED
      BY <1>3, <1>4, <2>1 DEF KeptGrows, IsKept
  <1>11. CASE SaveTurn
    <2>1. turns' = Saved(call.sequence) /\ call' = [call EXCEPT !.pc = "returned"]
      BY <1>11 DEF SaveTurn
    <2>2. call'.pc = "returned" /\ call'.error = "none" /\ call'.sequence = call.sequence
      BY <1>3, <2>1, CallFields
    <2>3. CallFits'
      BY <1>1, <1>3, <1>10, <2>1, <2>2 DEF CallFits, IsKept, graphVars
    <2> QED
      BY <1>10, <2>1, <2>3 DEF CallsInv
  <1>12. CASE SaveFails
    <2>1. call' = Raised("state_write_failed") /\ (UNCHANGED turns \/ turns' = Saved(call.sequence))
      BY <1>12 DEF SaveFails
    <2>2. "state_write_failed" \in Errors \ Refused
      BY DEF Errors, StateErrors, Refused
    <2> QED
      BY <1>5, <1>6, <1>10, <2>1, <2>2 DEF CallsInv
  <1>13. \/ Resolve \/ ResolveFails \/ SaveRefused \/ SaveTurn \/ SaveFails
         \/ \E outcome \in Outcomes : \E answer : Send(outcome, answer)
    <2>1. "answer" \in Outcomes
      BY DEF Outcomes
    <2> QED
      BY <2>1 DEF Gateway, GatewayStep
  <1> QED
    BY <1>7, <1>8, <1>9, <1>11, <1>12, <1>13

\* A node graph that goes on with the calls it had.
LEMMA NodeKeepsCalls ==
    ASSUME CallsInv, Deciding, KeptStays, call' = NoCall, setup' = setup,
           checkpoint'.calls = checkpoint.calls, checkpoint'.history = checkpoint.history,
           checkpoint'.batch = checkpoint.batch,
           checkpoint'.outcome = checkpoint.outcome \/ (~IsOver /\ checkpoint'.outcome # NoOutcome),
           checkpoint'.node = "call_model" =>
              Replayable(Turns(checkpoint'.request.groups), checkpoint.calls),
           checkpoint'.node \in {"validate_tools", "execute_tools", "close_exchange"} =>
              checkpoint.batch # NoAnswer,
           checkpoint'.node \in {"execute_tools", "close_exchange"} => checkpoint.batch.type = "tools"
    PROVE  CallsInv'
  <1>1. CallFits' /\ TurnsFit'
    BY CallEnds
  <1>2. KeptGrows
    BY DEF KeptStays, KeptGrows
  <1>3. checkpoint.batch = NoAnswer /\ ~IsOver => Replayable(Turns(checkpoint.history), checkpoint.calls)'
    BY <1>2, ReplayableGrows DEF CallsInv, HistoryFits, Replayable, IsKept
  <1>4. checkpoint.batch # NoAnswer =>
           /\ checkpoint.calls - 1 \in Sequences /\ turns'[checkpoint.calls - 1].status # "absent"
           /\ Replayable(Turns(checkpoint.history), checkpoint.calls - 1)'
    BY <1>2, ReplayableGrows DEF CallsInv, HistoryFits, Replayable, IsKept, KeptGrows
  <1>5. checkpoint'.node = "call_model" => Replayable(Turns(checkpoint.request.groups), checkpoint.calls)'
    BY <1>2, ReplayableGrows DEF Replayable, IsKept
  <1>6. HistoryFits'
    BY <1>3, <1>4, <1>5 DEF CallsInv, HistoryFits, Deciding, IsOver, Replayable, IsKept
  <1> QED
    BY <1>1, <1>6 DEF CallsInv

LEMMA DecideKeepsCalls ==
    ASSUME GraphInv, CallsInv, DecideStep
    PROVE  CallsInv'
  <1>0. /\ DOMAIN checkpoint = DOMAIN InitialState /\ DOMAIN call = DOMAIN NoCall
        /\ run # "asking" => call = NoCall
        /\ turns \in [Sequences -> Turn]
        /\ checkpoint.calls \in Nat
    BY DEF GraphInv, Shape, PositionsFit, CallsInv, CallFits
  <1>. USE Fields, OutcomeKinds DEF AtNode, Goto, Write, gatewayVars
  <1>1. UNCHANGED turns => KeptStays
    BY DEF KeptStays
  <1>2. CASE Raise
    BY <1>1, <1>2, SameHistory DEF Raise
  <1>3. CASE PrepareContext
    <2>1. CASE Raise
      BY <1>2, <2>1
    <2>2. CASE Goto([checkpoint EXCEPT !.node = "call_model", !.request = Trimmed(checkpoint.history)])
      <3>1. /\ run = "ready" /\ Deciding /\ ~IsOver /\ checkpoint.batch = NoAnswer
            /\ checkpoint.history \in Seq(Exchange)
        BY <1>3 DEF PrepareContext, Deciding, CallsInv, HistoryFits, GraphInv, PositionsFit, EndsWithOutcome
      <3>2. Replayable(Turns(checkpoint.history), checkpoint.calls)
        BY <3>1 DEF CallsInv, HistoryFits
      <3>3. Replayable(Turns(Trimmed(checkpoint.history).groups), checkpoint.calls)
        BY <1>0, <3>1, <3>2, RequestIsReplayable
      <3>4. /\ checkpoint'.node = "call_model" /\ checkpoint'.request = Trimmed(checkpoint.history)
            /\ checkpoint'.calls = checkpoint.calls /\ checkpoint'.history = checkpoint.history
            /\ checkpoint'.batch = checkpoint.batch /\ checkpoint'.outcome = checkpoint.outcome
            /\ UNCHANGED <<setup, turns, call>>
        BY <1>0, <2>2
      <3> QED
        BY <1>0, <1>1, <3>1, <3>3, <3>4, NodeKeepsCalls
    <2> QED
      BY <1>3, <2>1, <2>2 DEF PrepareContext
  <1>4. CASE CallModelLimit
    <2>1. /\ checkpoint'.node = "route_output" /\ checkpoint'.outcome # NoOutcome
          /\ checkpoint'.calls = checkpoint.calls /\ checkpoint'.history = checkpoint.history
          /\ checkpoint'.batch = checkpoint.batch
          /\ UNCHANGED <<setup, turns, call>> /\ Deciding /\ call = NoCall
      BY <1>0, <1>4 DEF CallModelLimit, Deciding
    <2>2. ~IsOver
      BY <1>4 DEF CallModelLimit, Deciding, GraphInv, PositionsFit, EndsWithOutcome
    <2> QED
      BY <1>1, <2>1, <2>2, NodeKeepsCalls
  <1>5. CASE CallModel
    <2>. DEFINE refs == Turns(checkpoint.request.groups)
    <2>1. /\ Deciding /\ checkpoint.node = "call_model" /\ checkpoint.calls < MaxModelCalls
          /\ UNCHANGED <<setup, checkpoint, turns>>
      BY <1>5 DEF CallModel, Deciding, BeginCall
    <2>2. Replayable(refs, checkpoint.calls)
      BY <2>1 DEF CallsInv, HistoryFits
    <2>3. checkpoint.calls \in Sequences
      BY <1>0, <2>1, GatewayAssumption, RetailAssumption DEF Sequences
    <2>4. /\ call'.pc = "encoding" /\ call'.error = "none" /\ call'.sequence = checkpoint.calls
          /\ call'.history = refs /\ call'.resolved = 0
      BY <1>5, <2>2, CallFields DEF CallModel, BeginCall, Replayable, NoCall
    <2>5. CallFits'
      BY <1>0, <2>1, <2>2, <2>3, <2>4 DEF CallFits, Replayable, IsKept
    <2>6. HistoryFits' /\ TurnsFit'
      BY <2>1, HistoryGrows
      DEF CallsInv, KeptGrows, TurnsFit, IsKept, AnsweredCalls, Failed
    <2> QED
      BY <2>5, <2>6 DEF CallsInv
  <1>6. CASE ModelAnswered
    <2>1. /\ Deciding /\ run = "asking" /\ call.pc = "returned" /\ checkpoint.node = "call_model"
          /\ ~IsOver /\ checkpoint.batch = NoAnswer /\ call.answer \in DecideAnswers
      BY <1>6 DEF ModelAnswered, Deciding, GraphInv, PositionsFit, EndsWithOutcome
    <2>2. /\ checkpoint'.node = "route_output" /\ checkpoint'.calls = checkpoint.calls + 1
          /\ checkpoint'.history = checkpoint.history
          /\ checkpoint'.outcome = AnswerOutcome(call.answer.type)
          /\ checkpoint'.batch = IF call.answer.type \in {"tools", "unregistered"}
                                 THEN call.answer ELSE NoAnswer
          /\ call' = NoCall /\ UNCHANGED <<setup, turns>>
      BY <1>0, <1>6 DEF ModelAnswered
    <2>3. CallFits' /\ TurnsFit'
      BY <1>1, <2>1, <2>2, CallEnds
    <2>4. /\ checkpoint.calls \in Sequences /\ IsKept(checkpoint.calls)
          /\ checkpoint.history \in Seq(Exchange)
          /\ Replayable(Turns(checkpoint.history), checkpoint.calls)
      BY <2>1 DEF CallsInv, CallFits, HistoryFits
    <2>5. checkpoint'.calls - 1 = checkpoint.calls
      BY <1>0, <2>2
    <2>6. Replayable(Turns(checkpoint.history), checkpoint.calls - 1)' /\ IsKept(checkpoint.calls - 1)'
      BY <2>2, <2>4, <2>5 DEF Replayable, IsKept
    <2>7. /\ checkpoint'.batch \in DecideAnswers \cup {NoAnswer}
          /\ checkpoint'.batch = NoAnswer => checkpoint'.outcome # NoOutcome
      BY <2>1, <2>2, AnswerKinds
    <2>8. HistoryFits'
      BY <2>2, <2>4, <2>5, <2>6, <2>7 DEF HistoryFits, Deciding, IsOver
    <2> QED
      BY <2>3, <2>8 DEF CallsInv
  <1>7. CASE ModelFailed
    <2>1. /\ Deciding /\ run = "asking" /\ call.pc = "raised" /\ checkpoint.node = "call_model"
          /\ ~IsOver /\ checkpoint.batch = NoAnswer
      BY <1>7 DEF ModelFailed, Deciding, GraphInv, PositionsFit, EndsWithOutcome
    <2>2. /\ checkpoint'.node = "route_output" /\ checkpoint'.calls = checkpoint.calls + 1
          /\ checkpoint'.history = checkpoint.history /\ checkpoint'.batch = NoAnswer
          /\ checkpoint'.outcome = Stopped(call.error)
          /\ call' = NoCall /\ UNCHANGED <<setup, turns>>
      BY <1>0, <1>7, <2>1 DEF ModelFailed
    <2>3. CallFits'
      BY <1>0, <2>2, CallFields DEF CallFits, NoCall
    <2>4. AnsweredCalls' = checkpoint.calls /\ AnsweredCalls = checkpoint.calls
      <3>1. Failed' /\ ~Failed
        BY <2>1, <2>2 DEF Failed, IsOver, Stopped, CallsInv, CallFits
      <3> QED
        BY <1>0, <2>2, <3>1 DEF AnsweredCalls
    <2>5. TurnsFit'
      BY <1>0, <2>2, <2>4 DEF CallsInv, TurnsFit, IsKept, Sequences
    <2>6. HistoryFits'
      BY <2>1, <2>2 DEF CallsInv, HistoryFits, Deciding, IsOver
    <2> QED
      BY <2>3, <2>5, <2>6 DEF CallsInv
  <1>8. CASE RouteOutput
    <2>1. /\ checkpoint'.node = IF checkpoint.batch # NoAnswer THEN "validate_tools" ELSE "finalize"
          /\ checkpoint'.calls = checkpoint.calls /\ checkpoint'.history = checkpoint.history
          /\ checkpoint'.batch = checkpoint.batch /\ checkpoint'.outcome = checkpoint.outcome
          /\ UNCHANGED <<setup, turns, call>> /\ Deciding /\ call = NoCall
      BY <1>0, <1>8 DEF RouteOutput, Deciding
    <2> QED
      BY <1>1, <2>1, NodeKeepsCalls
  <1>9. CASE ValidateTools
    <2>1. Deciding /\ run = "ready" /\ call = NoCall /\ checkpoint.batch # NoAnswer /\ ~IsOver
      BY <1>0, <1>9 DEF ValidateTools, Deciding, CallsInv, HistoryFits, GraphInv, EndsWithOutcome
    <2>2. CASE Goto([checkpoint EXCEPT !.node = "finalize", !.outcome = Stopped("tool_call_limit")])
      <3>1. /\ checkpoint'.node = "finalize" /\ checkpoint'.outcome # NoOutcome
            /\ checkpoint'.calls = checkpoint.calls /\ checkpoint'.history = checkpoint.history
            /\ checkpoint'.batch = checkpoint.batch
            /\ UNCHANGED <<setup, turns, call>>
        BY <1>0, <2>2
      <3> QED
        BY <1>1, <2>1, <3>1, NodeKeepsCalls
    <2>3. CASE /\ checkpoint.batch.type = "tools"
               /\ Goto([checkpoint EXCEPT !.node = "execute_tools"])
      <3>1. /\ checkpoint'.node = "execute_tools" /\ checkpoint'.outcome = checkpoint.outcome
            /\ checkpoint'.calls = checkpoint.calls /\ checkpoint'.history = checkpoint.history
            /\ checkpoint'.batch = checkpoint.batch
            /\ UNCHANGED <<setup, turns, call>>
        BY <1>0, <2>3
      <3> QED
        BY <1>1, <2>1, <2>3, <3>1, NodeKeepsCalls
    <2> QED
      BY <1>2, <1>9, <2>2, <2>3 DEF ValidateTools
  <1>10. ASSUME NEW results \in Results, ExecuteTools(results)
         PROVE  CallsInv'
    <2>1. /\ Deciding /\ run = "ready" /\ call = NoCall /\ checkpoint.batch # NoAnswer
          /\ ~IsOver /\ checkpoint.batch.type = "tools"
      BY <1>0, <1>10 DEF ExecuteTools, Deciding, CallsInv, HistoryFits, GraphInv, EndsWithOutcome
    <2>. DEFINE Kept == /\ checkpoint'.calls = checkpoint.calls /\ checkpoint'.history = checkpoint.history
                        /\ checkpoint'.batch = checkpoint.batch /\ UNCHANGED <<setup, turns, call>>
    <2>2. ASSUME NEW done, DOMAIN done = DOMAIN InitialState,
                 done.calls = checkpoint.calls, done.history = checkpoint.history,
                 done.batch = checkpoint.batch, done.outcome = checkpoint.outcome,
                 \/ Goto([done EXCEPT !.node = "finalize", !.outcome = Stopped("repeated_evidence")])
                 \/ Goto([done EXCEPT !.node = "close_exchange"])
          PROVE  CallsInv'
      <3>1. ASSUME Goto([done EXCEPT !.node = "finalize", !.outcome = Stopped("repeated_evidence")])
            PROVE  Kept /\ checkpoint'.node = "finalize" /\ checkpoint'.outcome # NoOutcome
        BY <2>2, <3>1
      <3>2. ASSUME Goto([done EXCEPT !.node = "close_exchange"])
            PROVE  Kept /\ checkpoint'.node = "close_exchange" /\ checkpoint'.outcome = checkpoint.outcome
        BY <2>2, <3>2
      <3>3. \/ Kept /\ checkpoint'.node = "finalize" /\ checkpoint'.outcome # NoOutcome
            \/ Kept /\ checkpoint'.node = "close_exchange" /\ checkpoint'.outcome = checkpoint.outcome
        BY <2>2, <3>1, <3>2
      <3> QED
        BY <1>1, <2>1, <3>3, NodeKeepsCalls
    <2>. DEFINE digest == [i \in DOMAIN checkpoint.batch.batch |->
                             <<checkpoint.batch.batch[i], results[i]>>]
                done == [checkpoint EXCEPT !.tools = @ + Len(checkpoint.batch.batch), !.digest = digest]
    <2>3. /\ DOMAIN done = DOMAIN InitialState
          /\ done.calls = checkpoint.calls /\ done.history = checkpoint.history
          /\ done.batch = checkpoint.batch /\ done.outcome = checkpoint.outcome
      BY <1>0
    <2>4. \/ Goto([done EXCEPT !.node = "finalize", !.outcome = Stopped("repeated_evidence")])
          \/ Goto([done EXCEPT !.node = "close_exchange"])
      BY <1>10 DEF ExecuteTools
    <2>. HIDE DEF done
    <2> QED
      BY <2>2, <2>3, <2>4
  <1>11. CASE CloseExchange
    <2>. DEFINE s == checkpoint.calls - 1
    <2>1. /\ Deciding /\ run = "ready" /\ call = NoCall /\ checkpoint.batch # NoAnswer
          /\ ~IsOver /\ checkpoint.batch.type = "tools" /\ checkpoint.batch \in DecideAnswers
          /\ checkpoint.history \in Seq(Exchange) /\ s \in Sequences /\ IsKept(s)
          /\ Replayable(Turns(checkpoint.history), s)
      BY <1>0, <1>11 DEF CloseExchange, Deciding, CallsInv, HistoryFits, GraphInv, EndsWithOutcome
    <2>2. checkpoint.batch.tokens \in Nat
      BY <2>1, RetailAssumption DEF DecideAnswers
    <2>. DEFINE longer == Append(checkpoint.history, Group(s, checkpoint.batch.tokens))
    <2>3. /\ checkpoint'.node = "prepare_context" /\ checkpoint'.batch = NoAnswer
          /\ checkpoint'.history = longer
          /\ checkpoint'.calls = checkpoint.calls /\ checkpoint'.outcome = checkpoint.outcome
          /\ UNCHANGED <<setup, turns, call>>
      BY <1>0, <1>11 DEF CloseExchange
    <2>4. longer \in Seq(Exchange) /\ Replayable(Turns(longer), s + 1) /\ s + 1 = checkpoint.calls
      BY <1>0, <2>1, <2>2, ClosedIsReplayable
    <2>. HIDE DEF longer
    <2>5. HistoryFits'
      BY <2>3, <2>4 DEF HistoryFits, Replayable, IsKept
    <2>6. CallFits' /\ TurnsFit'
      BY <1>1, <2>1, <2>3, CallEnds
    <2> QED
      BY <2>5, <2>6 DEF CallsInv
  <1>12. CASE Finalize
    <2>1. UNCHANGED <<setup, checkpoint, call>> /\ call = NoCall /\ turns' = AttemptDeleted
      BY <1>0, <1>12 DEF Finalize
    <2> QED
      BY <1>0, <2>1, DeletionKeeps, SameHistory
  <1> QED
    BY <1>3, <1>4, <1>5, <1>6, <1>7, <1>8, <1>9, <1>10, <1>11, <1>12 DEF DecideStep

-----------------------------------------------------------------------------
(* An investigation passes no history *)

LEMMA InvestigateKeepsCalls ==
    ASSUME GraphInv, CallsInv, InvestigateStep
    PROVE  CallsInv'
  <1>. DEFINE Ends == /\ call' = NoCall /\ UNCHANGED <<setup, turns>>
                      /\ \/ /\ checkpoint'.calls = checkpoint.calls
                            /\ checkpoint'.outcome = checkpoint.outcome \/ ~IsOver
                         \/ /\ checkpoint'.calls = checkpoint.calls + 1
                            /\ call.pc = "returned" /\ ~IsOver
  <1>0. /\ DOMAIN checkpoint = DOMAIN InitialState /\ DOMAIN call = DOMAIN NoCall
        /\ run \in {"ready", "proposed", "finishing"} => call = NoCall
        /\ run \in {"ready", "asking", "proposed"} /\ ~Deciding => ~IsOver
        /\ setup.graph = "investigate" => ~Deciding
        /\ run \in {"proposed", "finishing"} => ~Deciding
        /\ turns \in [Sequences -> Turn] /\ checkpoint.calls \in Nat
    BY DEF GraphInv, Shape, PositionsFit, EndsWithOutcome, IsOver, Deciding, CallsInv, CallFits
  <1>1. ~Deciding
    BY <1>0 DEF InvestigateStep, StopUnavailable, AskLimit, Ask, AskFailed, TakeClarification, TakePlan,
                TakeCandidate, QuerySucceeds, QueryFails, QueryRaises, Reconcile, TakeProposal, Propose,
                ProposeConflicts, SaveRef, TakeReport, ReportMismatch, FinishDelete, FinishFails,
                Investigating, Answered, Executing, Proposing
  <1>2. UNCHANGED turns => KeptStays
    BY DEF KeptStays
  <1>3. Ends => CallsInv'
    <2>. SUFFICES ASSUME Ends
                  PROVE  CallsInv'
      OBVIOUS
    <2>1. CallFits' /\ TurnsFit'
      BY <1>2, CallEnds
    <2>2. HistoryFits'
      BY <1>1 DEF HistoryFits, Deciding
    <2> QED
      BY <2>1, <2>2 DEF CallsInv
  <1>. USE Fields, FirstState DEF Investigating, Taken, gatewayVars, Write, Save, CacheAndFinish
  <1>4. CASE StopUnavailable \/ AskLimit
    <2>1. ASSUME NEW reason, CacheAndFinish(checkpoint, Stopped(reason)), UNCHANGED <<call, turns>>,
                 run = "ready"
          PROVE  Ends
      BY <1>0, <1>1, <2>1
    <2> QED
      BY <1>0, <1>3, <1>4, <2>1 DEF StopUnavailable, AskLimit
  <1>5. ASSUME NEW step \in {"decide", "sql", "report"}, Ask(step)
        PROVE  CallsInv'
    <2>1. UNCHANGED <<setup, checkpoint, turns>>
      BY <1>5 DEF Ask, BeginCall
    <2>2. checkpoint.calls \in Sequences
      <3>1. CASE step = "decide"
        <4>1. checkpoint.calls = 0
          BY <1>5, <3>1 DEF Ask, NeedsModel, NoCheckpoint, InitialState
        <4> QED
          BY <4>1, GatewayAssumption DEF Sequences
      <3>2. CASE step # "decide"
        BY <1>0, <1>5, <3>2, GatewayAssumption, RetailAssumption DEF Ask, Sequences
      <3> QED
        BY <3>1, <3>2
    <2>3. <<>> \in Seq(Sequences) /\ Len(<<>>) = 0 /\ DOMAIN <<>> = {}
      OBVIOUS
    <2>4. /\ call'.pc = "encoding" /\ call'.error = "none" /\ call'.sequence = checkpoint.calls
          /\ call'.history = <<>> /\ call'.resolved = 0
      BY <1>5, <2>3, CallFields DEF Ask, BeginCall, NoCall, IsValidHistory
    <2>5. CallFits'
      BY <1>0, <2>1, <2>2, <2>3, <2>4 DEF CallFits
    <2>6. HistoryFits' /\ TurnsFit'
      BY <1>1, <2>1 DEF CallsInv, HistoryFits, Deciding, TurnsFit, IsKept, AnsweredCalls, Failed
    <2> QED
      BY <2>5, <2>6 DEF CallsInv
  <1>6. CASE AskFailed \/ QueryRaises \/ ProposeConflicts \/ ReportMismatch
    <2>1. UNCHANGED <<setup, checkpoint, turns>> /\ call' = NoCall
      BY <1>6 DEF AskFailed, QueryRaises, ProposeConflicts, ReportMismatch, Raise
    <2> QED
      BY <1>2, <2>1, SameHistory
  <1>7. CASE TakeClarification \/ TakePlan
    <2>1. /\ checkpoint.calls = 0 /\ ~IsOver /\ call.pc = "returned"
          /\ call' = NoCall /\ UNCHANGED <<setup, turns>>
      BY <1>7, OutcomeKinds DEF TakeClarification, TakePlan, Answered, NeedsModel, NoCheckpoint, IsOver,
                                InitialState
    <2>2. checkpoint'.calls = 1
      BY <1>7 DEF TakeClarification, TakePlan
    <2> QED
      BY <1>3, <2>1, <2>2
  <1>8. CASE TakeCandidate
    <2>. DEFINE asked == [checkpoint EXCEPT !.calls = @ + 1]
    <2>1. call.pc = "returned" /\ ~IsOver /\ call' = NoCall /\ UNCHANGED <<setup, turns>>
      BY <1>0, <1>8 DEF TakeCandidate, Answered
    <2>2. DOMAIN asked = DOMAIN InitialState /\ asked.calls = checkpoint.calls + 1
      BY <1>0
    <2>3. CASE CacheAndFinish(asked, Stopped("sql_no_progress"))
      <3>1. checkpoint'.calls = asked.calls
        BY <2>2, <2>3
      <3> QED
        BY <1>3, <2>1, <2>2, <3>1
    <2>4. ASSUME NEW candidate, Save([asked EXCEPT !.node = "execute_query", !.candidate = candidate])
          PROVE  CallsInv'
      <3>1. checkpoint'.calls = asked.calls
        BY <2>2, <2>4
      <3> QED
        BY <1>3, <2>1, <2>2, <3>1
    <2> QED
      BY <1>8, <2>3, <2>4 DEF TakeCandidate
  <1>9. CASE QuerySucceeds \/ Reconcile \/ SaveRef
    <2>1. call = NoCall /\ UNCHANGED <<setup, turns, call>>
      BY <1>0, <1>9 DEF QuerySucceeds, Executing, Reconcile, SaveRef
    <2>2. checkpoint'.calls = checkpoint.calls /\ checkpoint'.outcome = checkpoint.outcome
      BY <1>0, <1>9, ZenonT(60) DEF QuerySucceeds, Reconcile, SaveRef
    <2> QED
      BY <1>3, <2>1, <2>2
  <1>10. CASE QueryFails
    <2>. DEFINE failed == [checkpoint EXCEPT !.tools = @ + 1]
    <2>1. call = NoCall /\ ~IsOver /\ UNCHANGED <<setup, turns, call>>
      BY <1>0, <1>1, <1>10 DEF QueryFails, Executing
    <2>2. DOMAIN failed = DOMAIN InitialState /\ failed.calls = checkpoint.calls
      BY <1>0
    <2>3. checkpoint'.calls = checkpoint.calls
      BY <1>10, <2>2 DEF QueryFails
    <2> QED
      BY <1>3, <2>1, <2>3
  <1>11. CASE TakeProposal \/ TakeReport
    <2>. DEFINE asked == [checkpoint EXCEPT !.calls = @ + 1, !.tools = @ + 1]
    <2>1. call.pc = "returned" /\ ~IsOver /\ call' = NoCall /\ UNCHANGED <<setup, turns>>
      BY <1>0, <1>11 DEF TakeProposal, TakeReport, Answered
    <2>2. DOMAIN asked = DOMAIN InitialState /\ asked.calls = checkpoint.calls + 1
      BY <1>0
    <2>3. checkpoint'.calls = checkpoint.calls + 1
      BY <1>11, <2>2 DEF TakeProposal, TakeReport
    <2> QED
      BY <1>3, <2>1, <2>3
  <1>12. CASE Propose
    BY <1>0, <1>2, <1>12, SameHistory DEF Propose, Proposing
  <1>13. CASE FinishDelete \/ FinishFails
    <2>1. UNCHANGED <<setup, checkpoint, call>> /\ call = NoCall /\ turns' \in {turns, AttemptDeleted}
      BY <1>0, <1>13 DEF FinishDelete, FinishFails
    <2> QED
      BY <1>0, <2>1, DeletionKeeps, SameHistory
  <1> QED
    BY <1>4, <1>5, <1>6, <1>7, <1>8, <1>9, <1>10, <1>11, <1>12, <1>13 DEF InvestigateStep

LEMMA CallsSteps == GraphInv /\ CallsInv /\ [Next]_vars => CallsInv'
  <1>. SUFFICES ASSUME GraphInv, CallsInv, [Next]_vars
                PROVE  CallsInv'
    OBVIOUS
  <1>0. /\ DOMAIN checkpoint = DOMAIN InitialState /\ turns \in [Sequences -> Turn]
        /\ run # "asking" => call = NoCall
        /\ UNCHANGED turns => KeptStays
    BY DEF GraphInv, Shape, PositionsFit, KeptStays
  <1>1. CASE UNCHANGED <<setup, checkpoint, call, turns>>
    BY <1>1
    DEF CallsInv, CallFits, HistoryFits, TurnsFit, Replayable, IsKept, AnsweredCalls, Failed, Deciding, IsOver
  <1>2. CASE UNCHANGED vars \/ (Tick /\ UNCHANGED graphVars)
    BY <1>1, <1>2 DEF vars, gatewayVars, graphVars, Tick
  <1>3. CASE RunFails
    BY <1>0, <1>3, SameHistory DEF RunFails, Raise
  <1>4. CASE StartRun
    <2>1. UNCHANGED <<setup, turns, call>> /\ call = NoCall
      BY <1>0, <1>4 DEF StartRun, gatewayVars
    <2>2. CASE checkpoint' = checkpoint
      BY <1>1, <2>1, <2>2
    <2>3. CASE checkpoint' # checkpoint
      <3>1. checkpoint = NoCheckpoint /\ checkpoint' = InitialState
        BY <1>4, <2>3 DEF StartRun, Restored
      <3>2. /\ checkpoint'.calls = checkpoint.calls /\ checkpoint'.history = checkpoint.history
            /\ checkpoint'.batch = checkpoint.batch /\ checkpoint'.outcome = checkpoint.outcome
            /\ checkpoint'.node = "prepare_context"
        BY <3>1, Fields, FirstState DEF NoCheckpoint
      <3>3. Deciding => CallsInv'
        BY <1>0, <2>1, <3>2, NodeKeepsCalls
      <3>4. ~Deciding => HistoryFits'
        BY <2>1 DEF HistoryFits, Deciding
      <3>5. CallFits' /\ TurnsFit'
        BY <1>0, <2>1, <3>2, CallEnds
      <3> QED
        BY <3>3, <3>4, <3>5 DEF CallsInv
    <2> QED
      BY <2>2, <2>3
  <1>5. CASE SaveComplete
    <2>1. /\ call = NoCall /\ UNCHANGED <<setup, turns, call>>
          /\ checkpoint'.calls = checkpoint.calls /\ checkpoint'.history = checkpoint.history
          /\ checkpoint'.batch = checkpoint.batch /\ checkpoint'.outcome = checkpoint.outcome
          /\ checkpoint'.node = "complete"
      BY <1>0, <1>5, Fields DEF SaveComplete, gatewayVars
    <2>2. Deciding => CallsInv'
      BY <1>0, <2>1, NodeKeepsCalls
    <2>3. ~Deciding => HistoryFits'
      BY <2>1 DEF HistoryFits, Deciding
    <2>4. CallFits' /\ TurnsFit'
      BY <1>0, <2>1, CallEnds
    <2> QED
      BY <2>2, <2>3, <2>4 DEF CallsInv
  <1> QED
    BY <1>2, <1>3, <1>4, <1>5, GatewayKeepsCalls, DecideKeepsCalls, InvestigateKeepsCalls DEF Next, RunStep

\* No call of the attempt is refused for a history out of order or a turn that
\* never was, whatever was trimmed and wherever earlier runs ended.
THEOREM HistoryIsReplayableAlways == Spec => []HistoryIsReplayable
  <1>1. CallsInv => HistoryIsReplayable
    BY DEF CallsInv, CallFits, HistoryIsReplayable, Refused
  <1> QED
    BY <1>1, Start, CallsStart, GraphSteps, CallsSteps, PTL DEF Spec

\* Every call the checkpoint counts left its turn in the store, but for one
\* that failed, and at most one turn there is not counted.
THEOREM CountedCallsAreKeptAlways == Spec => []CountedCallsAreKept
  <1>1. CallsInv => CountedCallsAreKept
    BY DEF CallsInv, TurnsFit, AnsweredCalls, Failed, CountedCallsAreKept
  <1> QED
    BY <1>1, Start, CallsStart, GraphSteps, CallsSteps, PTL DEF Spec

-----------------------------------------------------------------------------
(* The request of a call *)

\* At call_model the request is what build() made of the history.
RequestInv ==
    checkpoint.node = "call_model" =>
        /\ Deciding
        /\ checkpoint.request = Trimmed(checkpoint.history)
        /\ ~IsOverBudget(checkpoint.history)

LEMMA RequestSteps ==
    ASSUME GraphInv, RequestInv, [Next]_vars
    PROVE  RequestInv'
  <1>. DEFINE Elsewhere == checkpoint'.node # "call_model"
              Stays == UNCHANGED <<setup, checkpoint>>
  <1>0. Stays \/ Elsewhere => RequestInv'
    BY DEF RequestInv, Deciding
  <1>1. DOMAIN checkpoint = DOMAIN InitialState
    BY DEF GraphInv, Shape
  <1>. USE Fields, FirstState DEF Goto, Write, Save, CacheAndFinish
  <1>2. CASE UNCHANGED vars \/ (Tick /\ UNCHANGED graphVars) \/ Gateway \/ RunFails
    BY <1>0, <1>2 DEF vars, graphVars, Gateway, RunFails, Raise
  <1>3. CASE StartRun
    BY <1>0, <1>3 DEF StartRun, Restored
  <1>4. CASE SaveComplete
    <2>1. Elsewhere
      BY <1>1, <1>4 DEF SaveComplete
    <2> QED
      BY <1>0, <2>1
  <1>5. CASE PrepareContext
    <2>1. CASE Raise
      BY <1>0, <2>1 DEF Raise
    <2>2. CASE /\ ~IsOverBudget(checkpoint.history)
               /\ Goto([checkpoint EXCEPT !.node = "call_model", !.request = Trimmed(checkpoint.history)])
      <3>1. /\ checkpoint'.request = Trimmed(checkpoint'.history) /\ ~IsOverBudget(checkpoint'.history)
            /\ setup' = setup
        BY <1>1, <2>2
      <3>2. setup.graph = "decide"
        BY <1>5 DEF PrepareContext, AtNode
      <3> QED
        BY <3>1, <3>2 DEF RequestInv, Deciding
    <2> QED
      BY <1>5, <2>1, <2>2 DEF PrepareContext
  <1>6. CASE CallModelLimit \/ ModelAnswered \/ ModelFailed
    <2>1. CASE CallModelLimit
      <3>1. Elsewhere
        BY <1>1, <2>1 DEF CallModelLimit
      <3> QED
        BY <1>0, <3>1
    <2>2. CASE ModelAnswered
      <3>1. PICK outcome, batch :
              checkpoint' = [checkpoint EXCEPT !.node = "route_output", !.calls = @ + 1,
                                               !.outcome = outcome, !.batch = batch]
        BY <2>2 DEF ModelAnswered
      <3>2. Elsewhere
        BY <1>1, <3>1
      <3> QED
        BY <1>0, <3>2
    <2>3. CASE ModelFailed
      <3>1. PICK outcome : checkpoint' = [checkpoint EXCEPT !.node = "route_output", !.calls = @ + 1,
                                                            !.outcome = outcome]
        BY <2>3 DEF ModelFailed
      <3>2. Elsewhere
        BY <1>1, <3>1
      <3> QED
        BY <1>0, <3>2
    <2> QED
      BY <1>6, <2>1, <2>2, <2>3
  <1>7. CASE RouteOutput \/ ValidateTools
    <2>1. ASSUME NEW node \in {"validate_tools", "finalize", "execute_tools"}, NEW outcome,
                 \/ checkpoint' = [checkpoint EXCEPT !.node = node]
                 \/ checkpoint' = [checkpoint EXCEPT !.node = node, !.outcome = outcome]
          PROVE  Elsewhere
      BY <1>1, <2>1
    <2>2. Elsewhere \/ Raise
      BY <1>7, <2>1 DEF RouteOutput, ValidateTools
    <2> QED
      BY <1>0, <2>2 DEF Raise
  <1>8. ASSUME NEW results \in Results, ExecuteTools(results)
        PROVE  RequestInv'
    <2>. DEFINE digest == [i \in DOMAIN checkpoint.batch.batch |-> <<checkpoint.batch.batch[i], results[i]>>]
                done == [checkpoint EXCEPT !.tools = @ + Len(checkpoint.batch.batch), !.digest = digest]
    <2>1. DOMAIN done = DOMAIN InitialState
      BY <1>1
    <2>2. \/ Goto([done EXCEPT !.node = "finalize", !.outcome = Stopped("repeated_evidence")])
          \/ Goto([done EXCEPT !.node = "close_exchange"])
      BY <1>8 DEF ExecuteTools
    <2>. HIDE DEF done
    <2>3. Elsewhere
      BY <2>1, <2>2
    <2> QED
      BY <1>0, <2>3
  <1>9. CASE CloseExchange
    <2>1. Elsewhere
      BY <1>1, <1>9 DEF CloseExchange
    <2> QED
      BY <1>0, <2>1
  <1>10. CASE CallModel \/ Finalize \/ AskFailed \/ QueryRaises \/ Propose \/ ProposeConflicts
              \/ ReportMismatch \/ FinishDelete \/ FinishFails
    <2>1. Stays
      BY <1>10 DEF CallModel, Finalize, AskFailed, QueryRaises, Propose, ProposeConflicts,
                   ReportMismatch, FinishDelete, FinishFails, Raise
    <2> QED
      BY <1>0, <2>1
  <1>11. ASSUME NEW step, Ask(step)
         PROVE  RequestInv'
    BY <1>0, <1>11 DEF Ask
  <1>12. ASSUME NEW state, NEW outcome, CacheAndFinish(state, outcome), DOMAIN state = DOMAIN InitialState
         PROVE  RequestInv'
    <2>1. Elsewhere
      BY <1>12
    <2> QED
      BY <1>0, <2>1
  <1>13. ASSUME NEW state, Save(state), state.node # "call_model"
         PROVE  RequestInv'
    BY <1>0, <1>13
  <1>14. CASE StopUnavailable \/ AskLimit
    BY <1>1, <1>12, <1>14 DEF StopUnavailable, AskLimit
  <1>15. CASE TakeClarification \/ TakePlan
    <2>1. /\ DOMAIN [InitialState EXCEPT !.calls = 1, !.tools = 1] = DOMAIN InitialState
          /\ [InitialState EXCEPT !.node = "prepare_plan_step", !.calls = 1, !.tools = 1,
                                  !.plan = call.answer.plan, !.pending = call.answer.plan].node
                = "prepare_plan_step"
      OBVIOUS
    <2>. HIDE DEF CacheAndFinish, Save
    <2> QED
      BY <1>12, <1>13, <1>15, <2>1 DEF TakeClarification, TakePlan
  <1>16. CASE TakeCandidate
    <2>. DEFINE asked == [checkpoint EXCEPT !.calls = @ + 1]
    <2>1. DOMAIN asked = DOMAIN InitialState
      BY <1>1
    <2>2. ASSUME NEW candidate,
                 Save([asked EXCEPT !.node = "execute_query", !.candidate = candidate])
          PROVE  RequestInv'
      <3>1. Elsewhere
        BY <2>1, <2>2
      <3> QED
        BY <1>0, <3>1
    <2>3. CASE CacheAndFinish(asked, Stopped("sql_no_progress"))
      BY <1>12, <2>1, <2>3
    <2> QED
      BY <1>16, <2>2, <2>3 DEF TakeCandidate
  <1>17. CASE QuerySucceeds \/ Reconcile \/ SaveRef
    <2>1. CASE QuerySucceeds
      <3>1. PICK evidence, pending :
              checkpoint' = [checkpoint EXCEPT !.node = "prepare_plan_step", !.tools = @ + 1,
                                               !.evidence = evidence, !.pending = pending,
                                               !.candidate = NoCandidate, !.failed = FALSE]
        BY <2>1 DEF QuerySucceeds
      <3>2. Elsewhere
        BY <1>1, <3>1
      <3> QED
        BY <1>0, <3>2
    <2>2. CASE Reconcile
      <3>1. Elsewhere
        BY <1>1, <2>2 DEF Reconcile
      <3> QED
        BY <1>0, <3>1
    <2>3. CASE SaveRef
      <3>1. Elsewhere
        BY <1>1, <2>3 DEF SaveRef
      <3> QED
        BY <1>0, <3>1
    <2> QED
      BY <1>17, <2>1, <2>2, <2>3
  <1>18. CASE QueryFails
    <2>. DEFINE failed == [checkpoint EXCEPT !.tools = @ + 1]
    <2>1. DOMAIN failed = DOMAIN InitialState
      BY <1>1
    <2>2. \/ Save([failed EXCEPT !.node = "sql_reason", !.repairs = @ + 1, !.failed = TRUE])
          \/ CacheAndFinish(failed, Stopped("sql_repair_limit"))
      BY <1>18 DEF QueryFails
    <2>. HIDE DEF failed
    <2>3. Elsewhere
      BY <2>1, <2>2
    <2> QED
      BY <1>0, <2>3
  <1>19. CASE TakeProposal \/ TakeReport
    <2>1. Elsewhere
      BY <1>1, <1>19 DEF TakeProposal, TakeReport
    <2> QED
      BY <1>0, <2>1
  <1> QED
    BY <1>2, <1>3, <1>4, <1>5, <1>6, <1>7, <1>8, <1>9, <1>10, <1>11, <1>14, <1>15, <1>16, <1>17, <1>18, <1>19
    DEF Next, RunStep, DecideStep, InvestigateStep

\* What build() leaves of a history is its latest part, as much as fits.
LEMMA TrimmedIsLatest ==
    ASSUME NEW history \in Seq(Exchange), ~IsOverBudget(history)
    PROVE  LET request == Trimmed(history)
               n == Len(request.groups)
           IN /\ Turns(request.groups) = Turns(Latest(history, n))
              /\ Estimate(request.groups, request.evidence) <= InputTokenLimit
              /\ n < Len(history) => /\ n >= MinimumRecentGroups
                                     /\ ~(Estimate(Latest(history, n + 1), "all") <= InputTokenLimit)
  <1>. DEFINE groups == Retained(history)
              kept == Trimmed(history).groups
  <1>1. PICK n \in 0 .. Len(history) :
               /\ groups = Latest(history, n)
               /\ n < Len(history) => n >= MinimumRecentGroups /\ ~Fits(Latest(history, n + 1), "all")
    BY RetainedIsLatest
  <1>2. groups \in Seq(Exchange) /\ Len(groups) = n
    BY <1>1, LatestGroups
  <1>3. Len(kept) = n /\ Turns(kept) = Turns(groups)
    <2>1. kept \in {groups, Summarized(groups)}
      BY DEF Trimmed
    <2>. HIDE DEF groups, kept
    <2>2. DOMAIN groups = 1 .. n /\ \A i \in 1 .. n : groups[i] \in Exchange
      BY <1>2
    <2>3. Summarized(groups) \in Seq(Exchange)
      <3>1. \A i \in 1 .. n : [groups[i] EXCEPT !.results = "summary"] \in Exchange
        BY <2>2 DEF Exchange
      <3>2. Summarized(groups) = [i \in 1 .. n |-> [groups[i] EXCEPT !.results = "summary"]]
        BY <2>2 DEF Summarized
      <3> QED
        BY <3>1, <3>2
    <2>4. DOMAIN Summarized(groups) = 1 .. n /\ \A i \in 1 .. n : Summarized(groups)[i].turn = groups[i].turn
      BY <2>2 DEF Summarized, Exchange
    <2>5. Len(Summarized(groups)) = n
      BY <2>3, <2>4
    <2>6. Turns(Summarized(groups)) = Turns(groups)
      BY <2>2, <2>4 DEF Turns
    <2> QED
      BY <1>2, <2>1, <2>5, <2>6
  <1>4. Fits(kept, Trimmed(history).evidence)
    BY DEF IsOverBudget
  <1> QED
    BY <1>1, <1>3, <1>4 DEF Fits

\* The request that a call is made with is the latest part of the conversation
\* as it stands: within the limit, not below what the profile keeps, and
\* without dropping an exchange there was room for.
THEOREM RequestIsWellTrimmedAlways == Spec => []RequestIsWellTrimmed
  <1>1. CallsInv /\ RequestInv => RequestIsWellTrimmed
    <2>. SUFFICES ASSUME CallsInv, RequestInv, checkpoint.node = "call_model"
                  PROVE  RequestIsWellTrimmed
      BY DEF RequestIsWellTrimmed
    <2>1. checkpoint.history \in Seq(Exchange) /\ ~IsOverBudget(checkpoint.history)
          /\ checkpoint.request = Trimmed(checkpoint.history)
      BY DEF CallsInv, HistoryFits, RequestInv
    <2> QED
      BY <2>1, TrimmedIsLatest DEF RequestIsWellTrimmed
  <1>2. Init => RequestInv
    BY Fields DEF Init, NoCheckpoint, RequestInv
  <1> QED
    BY <1>1, <1>2, Start, CallsStart, GraphSteps, CallsSteps, RequestSteps, PTL DEF Spec

-----------------------------------------------------------------------------
(* Refinement of RetailAttempt *)

\* The proposal that is about to be made is one the model may make.
ProposalFits ==
    /\ checkpoint.node = "create_proposal" =>
          checkpoint.batch.key \in Keys /\ checkpoint.batch.command \in Commands
    /\ proposals = [k \in Keys |-> proposals[k]]

\* A step that goes on with the attempt: it may count calls, and decide.
Advances ==
    /\ UNCHANGED <<turns, proposals, returned>>
    /\ checkpoint'.calls >= checkpoint.calls
    /\ checkpoint'.node = "create_proposal" /\ ProposalFits => ProposalFits'

\* One that saves a turn, or destroys them all.
TurnsChange ==
    /\ UNCHANGED <<checkpoint, proposals, returned>>
    /\ \/ LiveTurns' = LiveTurns
       \/ ~IsOver /\ \E s \in Sequences : s \notin LiveTurns /\ LiveTurns' = LiveTurns \cup {s}
       \/ IsOver /\ LiveTurns' = {}

\* One that returns the outcome.
Returns ==
    /\ IsOver /\ LiveTurns = {}
    /\ returned' = returned \cup {checkpoint.outcome}
    /\ UNCHANGED <<turns, proposals>>
    /\ checkpoint'.outcome = checkpoint.outcome
    /\ checkpoint'.calls = checkpoint.calls /\ checkpoint'.tools = checkpoint.tools
    /\ checkpoint'.node # "create_proposal"

LEMMA Staying ==
    ASSUME checkpoint.calls \in Nat, UNCHANGED <<checkpoint, turns, proposals, returned>>
    PROVE  Advances
  BY DEF Advances, ProposalFits

LEMMA Advancing ==
    ASSUME checkpoint.calls \in Nat, NEW state, DOMAIN state = DOMAIN InitialState,
           state.calls \in {checkpoint.calls, checkpoint.calls + 1},
           \/ Save(state) /\ state.node # "create_proposal"
           \/ \E outcome : CacheAndFinish(state, outcome),
           UNCHANGED <<turns, proposals>>
    PROVE  Advances
  <1>1. CASE Save(state) /\ state.node # "create_proposal"
    BY <1>1 DEF Save, Write, Advances, ProposalFits
  <1>2. ASSUME NEW outcome, CacheAndFinish(state, outcome)
        PROVE  Advances
    <2>1. checkpoint'.node = "finalize" /\ checkpoint'.calls = state.calls /\ UNCHANGED returned
      BY <1>2, Fields DEF CacheAndFinish, Write
    <2> QED
      BY <2>1 DEF Advances, ProposalFits
  <1> QED
    BY <1>1, <1>2

LEMMA Destroying ==
    ASSUME turns \in [Sequences -> Turn], turns' \in {turns, AttemptDeleted}
    PROVE  LiveTurns' = LiveTurns \/ LiveTurns' = {}
  BY Deleting DEF AllDeleted, LiveTurns, IsLive

LEMMA InvestigateAdvances ==
    ASSUME GraphInv, EvidenceInv, CallsInv, InvestigateStep
    PROVE  Advances \/ Propose \/ TurnsChange
  <1>0. /\ DOMAIN checkpoint = DOMAIN InitialState /\ checkpoint.calls \in Nat
        /\ turns \in [Sequences -> Turn]
    BY DEF GraphInv, Shape, CallsInv, CallFits
  <1>. USE Fields DEF gatewayVars, Taken
  <1>1. CASE StopUnavailable \/ AskLimit
    <2>1. (\E outcome : CacheAndFinish(checkpoint, outcome)) /\ UNCHANGED <<turns, proposals>>
      BY <1>1 DEF StopUnavailable, AskLimit
    <2> QED
      BY <1>0, <2>1, Advancing
  <1>2. CASE (\E step \in {"decide", "sql", "report"} : Ask(step)) \/ AskFailed \/ QueryRaises
             \/ ProposeConflicts \/ ReportMismatch
    <2>1. UNCHANGED <<checkpoint, turns, proposals, returned>>
      BY <1>2 DEF Ask, BeginCall, AskFailed, QueryRaises, ProposeConflicts, ReportMismatch, Raise
    <2> QED
      BY <1>0, <2>1, Staying
  <1>3. CASE TakeClarification
    <2>. DEFINE state == [InitialState EXCEPT !.calls = 1, !.tools = 1]
    <2>1. (\E outcome : CacheAndFinish(state, outcome)) /\ UNCHANGED <<turns, proposals>>
          /\ checkpoint = NoCheckpoint
      BY <1>3 DEF TakeClarification, Answered, NeedsModel
    <2>2. DOMAIN state = DOMAIN InitialState /\ state.calls = 1
      OBVIOUS
    <2>3. checkpoint.calls = 0
      BY <2>1 DEF NoCheckpoint, InitialState
    <2>. HIDE DEF state
    <2> QED
      BY <1>0, <2>1, <2>2, <2>3, Advancing
  <1>4. CASE TakePlan
    <2>. DEFINE state == [InitialState EXCEPT !.node = "prepare_plan_step", !.calls = 1, !.tools = 1,
                                 !.plan = call.answer.plan, !.pending = call.answer.plan]
    <2>1. Save(state) /\ UNCHANGED <<turns, proposals>> /\ checkpoint = NoCheckpoint
      BY <1>4 DEF TakePlan, Answered, NeedsModel
    <2>2. DOMAIN state = DOMAIN InitialState /\ state.calls = 1 /\ state.node = "prepare_plan_step"
      OBVIOUS
    <2>3. checkpoint.calls = 0
      BY <2>1 DEF NoCheckpoint, InitialState
    <2>. HIDE DEF state
    <2> QED
      BY <1>0, <2>1, <2>2, <2>3, Advancing
  <1>5. CASE TakeCandidate
    <2>. DEFINE asked == [checkpoint EXCEPT !.calls = @ + 1]
    <2>1. DOMAIN asked = DOMAIN InitialState /\ asked.calls = checkpoint.calls + 1
          /\ UNCHANGED <<turns, proposals>>
      BY <1>0, <1>5 DEF TakeCandidate
    <2>2. CASE CacheAndFinish(asked, Stopped("sql_no_progress"))
      <3>. HIDE DEF asked
      <3> QED
        BY <1>0, <2>1, <2>2, Advancing
    <2>3. ASSUME NEW candidate, Save([asked EXCEPT !.node = "execute_query", !.candidate = candidate])
          PROVE  Advances
      <3>. DEFINE state == [asked EXCEPT !.node = "execute_query", !.candidate = candidate]
      <3>1. /\ DOMAIN state = DOMAIN InitialState /\ state.calls = checkpoint.calls + 1
            /\ state.node = "execute_query"
        BY <1>0
      <3>2. Save(state)
        BY <2>3
      <3>. HIDE DEF state
      <3> QED
        BY <1>0, <2>1, <3>1, <3>2, Advancing
    <2> QED
      BY <1>5, <2>2, <2>3 DEF TakeCandidate
  <1>6. CASE QuerySucceeds
    <2>. DEFINE state == [checkpoint EXCEPT
                !.node = "prepare_plan_step", !.tools = @ + 1,
                !.evidence = Append(@, Evidence), !.pending = Tail(@),
                !.candidate = NoCandidate, !.failed = FALSE]
    <2>1. Save(state) /\ UNCHANGED <<turns, proposals>>
      BY <1>6 DEF QuerySucceeds
    <2>2. DOMAIN state = DOMAIN InitialState /\ state.calls = checkpoint.calls /\ state.node = "prepare_plan_step"
      BY <1>0
    <2>. HIDE DEF state
    <2> QED
      BY <1>0, <2>1, <2>2, Advancing
  <1>7. CASE QueryFails
    <2>. DEFINE failed == [checkpoint EXCEPT !.tools = @ + 1]
                state == [failed EXCEPT !.node = "sql_reason", !.repairs = @ + 1, !.failed = TRUE]
    <2>1. Save(state) \/ CacheAndFinish(failed, Stopped("sql_repair_limit"))
      BY <1>7 DEF QueryFails
    <2>2. /\ DOMAIN failed = DOMAIN InitialState /\ failed.calls = checkpoint.calls
          /\ DOMAIN state = DOMAIN InitialState /\ state.calls = checkpoint.calls
          /\ state.node = "sql_reason"
          /\ UNCHANGED <<turns, proposals>>
      BY <1>0, <1>7 DEF QueryFails
    <2>. HIDE DEF state, failed
    <2> QED
      BY <1>0, <2>1, <2>2, Advancing
  <1>8. CASE Reconcile
    <2>. DEFINE state == [checkpoint EXCEPT !.node = "prepare_report", !.reconciled = TRUE]
    <2>1. Save(state) /\ UNCHANGED <<turns, proposals>>
      BY <1>8 DEF Reconcile
    <2>2. DOMAIN state = DOMAIN InitialState /\ state.calls = checkpoint.calls /\ state.node = "prepare_report"
      BY <1>0
    <2>. HIDE DEF state
    <2> QED
      BY <1>0, <2>1, <2>2, Advancing
  <1>9. CASE TakeProposal
    <2>. DEFINE asked == [checkpoint EXCEPT !.calls = @ + 1, !.tools = @ + 1]
                state == [asked EXCEPT !.node = "create_proposal", !.batch = call.answer]
    <2>1. Save(state) \/ CacheAndFinish(asked, Stopped("operation_workflow_unavailable"))
      BY <1>9 DEF TakeProposal
    <2>2. /\ DOMAIN asked = DOMAIN InitialState /\ asked.calls = checkpoint.calls + 1
          /\ state.calls = checkpoint.calls + 1 /\ state.batch = call.answer
          /\ UNCHANGED <<turns, proposals>>
      BY <1>0, <1>9 DEF TakeProposal
    <2>3. call.answer.key \in Keys /\ call.answer.command \in Commands
      <3>1. call.answer \in AllAnswers /\ call.answer.type = "propose"
        BY <1>9 DEF TakeProposal, Answered, EvidenceInv
      <3> QED
        BY <3>1 DEF AllAnswers, DecideAnswers, PlanAnswers, SqlAnswers, ReportAnswers
    <2>. HIDE DEF state, asked
    <2>4. CASE Save(state)
      BY <1>0, <2>2, <2>3, <2>4 DEF Save, Write, Advances, ProposalFits
    <2>5. CASE CacheAndFinish(asked, Stopped("operation_workflow_unavailable"))
      BY <1>0, <2>2, <2>5, Advancing
    <2> QED
      BY <2>1, <2>4, <2>5
  <1>10. CASE SaveRef
    <2>. DEFINE state == [checkpoint EXCEPT !.node = "prepare_report", !.batch = NoAnswer,
                                            !.refs = @ \cup {checkpoint.batch.key}]
    <2>1. Save(state) /\ UNCHANGED <<turns, proposals>>
      BY <1>10 DEF SaveRef
    <2>2. DOMAIN state = DOMAIN InitialState /\ state.calls = checkpoint.calls /\ state.node = "prepare_report"
      BY <1>0
    <2>. HIDE DEF state
    <2> QED
      BY <1>0, <2>1, <2>2, Advancing
  <1>11. CASE TakeReport
    <2>. DEFINE state == [checkpoint EXCEPT !.calls = @ + 1, !.tools = @ + 1]
    <2>1. (\E outcome : CacheAndFinish(state, outcome)) /\ UNCHANGED <<turns, proposals>>
      BY <1>11 DEF TakeReport
    <2>2. DOMAIN state = DOMAIN InitialState /\ state.calls = checkpoint.calls + 1
      BY <1>0
    <2>. HIDE DEF state
    <2> QED
      BY <1>0, <2>1, <2>2, Advancing
  <1>12. CASE FinishDelete \/ FinishFails
    <2>1. turns' \in {turns, AttemptDeleted} /\ UNCHANGED <<checkpoint, proposals, returned>> /\ run = "finishing"
      BY <1>12 DEF FinishDelete, FinishFails
    <2>2. IsOver
      BY <2>1 DEF GraphInv, PositionsFit, EndsWithOutcome
    <2> QED
      BY <1>0, <2>1, <2>2, Destroying DEF TurnsChange
  <1> QED
    BY <1>1, <1>2, <1>3, <1>4, <1>5, <1>6, <1>7, <1>8, <1>9, <1>10, <1>11, <1>12 DEF InvestigateStep

LEMMA DecideAdvances ==
    ASSUME GraphInv, GraphInv', CallsInv, DecideStep
    PROVE  Advances \/ TurnsChange
  <1>0. /\ DOMAIN checkpoint = DOMAIN InitialState /\ checkpoint.calls \in Nat
        /\ turns \in [Sequences -> Turn]
    BY DEF GraphInv, Shape, CallsInv, CallFits
  <1>. USE Fields DEF gatewayVars, AtNode, Goto, Write
  <1>1. Deciding /\ UNCHANGED setup
    BY DEF DecideStep, PrepareContext, CallModelLimit, CallModel, ModelAnswered, ModelFailed, RouteOutput,
           ValidateTools, ExecuteTools, CloseExchange, Finalize, Raise, Deciding
  <1>2. checkpoint'.node # "create_proposal"
    BY <1>1 DEF GraphInv, PositionsFit, Deciding
  <1>3. CASE Finalize
    <2>1. turns' = AttemptDeleted /\ UNCHANGED <<checkpoint, proposals, returned>> /\ IsOver
      BY <1>3 DEF Finalize, GraphInv, EndsWithOutcome
    <2> QED
      BY <1>0, <2>1, Destroying DEF TurnsChange
  <1>4. CASE ~Finalize
    <2>1. UNCHANGED <<turns, proposals, returned>>
      BY <1>4 DEF DecideStep, PrepareContext, CallModelLimit, CallModel, BeginCall, ModelAnswered,
                  ModelFailed, RouteOutput, ValidateTools, ExecuteTools, CloseExchange, Raise
    <2>2. checkpoint'.calls \in {checkpoint.calls, checkpoint.calls + 1}
      <3>1. CASE PrepareContext \/ CallModel
        BY <1>0, <3>1 DEF PrepareContext, CallModel, Raise
      <3>2. CASE CallModelLimit \/ RouteOutput \/ CloseExchange
        BY <1>0, <3>2 DEF CallModelLimit, RouteOutput, CloseExchange
      <3>3. CASE ModelAnswered \/ ModelFailed
        BY <1>0, <3>3 DEF ModelAnswered, ModelFailed
      <3>4. CASE ValidateTools
        BY <1>0, <3>4 DEF ValidateTools, Raise
      <3>5. ASSUME NEW results \in Results, ExecuteTools(results)
            PROVE  checkpoint'.calls = checkpoint.calls
        BY <1>0, <3>5, ZenonT(60) DEF ExecuteTools
      <3> QED
        BY <1>4, <3>1, <3>2, <3>3, <3>4, <3>5 DEF DecideStep
    <2> QED
      BY <1>0, <1>2, <2>1, <2>2 DEF Advances
  <1> QED
    BY <1>3, <1>4

LEMMA GatewayChangesTurns ==
    ASSUME GraphInv, Gateway
    PROVE  TurnsChange
  <1>1. turns \in [Sequences -> Turn] /\ UNCHANGED <<checkpoint, proposals, returned>>
    BY DEF GraphInv, Shape, Gateway, graphVars
  <1>2. call.pc \in {"encoding", "saving"}
    BY DEF Gateway, GatewayStep, Resolve, ResolveFails, Send, SaveTurn, SaveRefused, SaveFails
  <1>3. ~IsOver
    BY <1>2, CallFields DEF GraphInv, PositionsFit, EndsWithOutcome, Deciding
  <1>4. \/ turns' = turns
        \/ \E s : turns' = Renewed(s)
        \/ IsSequenceFree(call.sequence) /\ turns' = Saved(call.sequence)
    BY DEF Gateway, GatewayStep, Resolve, ResolveFails, Send, SaveTurn, SaveRefused, SaveFails
  <1>5. ASSUME NEW s, turns' = Renewed(s)
        PROVE  LiveTurns' = LiveTurns
    BY <1>1, <1>5 DEF Renewed, LiveTurns, IsLive, Turn
  <1>6. ASSUME NEW s, IsSequenceFree(s), turns' = Saved(s)
        PROVE  \/ LiveTurns' = LiveTurns
               \/ s \in Sequences /\ s \notin LiveTurns /\ LiveTurns' = LiveTurns \cup {s}
    BY <1>1, <1>6 DEF Saved, IsSequenceFree, IsKept, LiveTurns, IsLive, Turn
  <1> QED
    BY <1>1, <1>3, <1>4, <1>5, <1>6 DEF TurnsChange, LiveTurns, IsLive

LEMMA StepKinds ==
    ASSUME GraphInv, GraphInv', EvidenceInv, CallsInv, [Next]_vars
    PROVE  Advances \/ TurnsChange \/ Propose \/ Returns
  <1>0. checkpoint.calls \in Nat /\ DOMAIN checkpoint = DOMAIN InitialState
    BY DEF CallsInv, CallFits, GraphInv, Shape
  <1>1. CASE UNCHANGED vars \/ (Tick /\ UNCHANGED graphVars) \/ RunFails
    <2>1. UNCHANGED <<checkpoint, turns, proposals, returned>>
      BY <1>1 DEF vars, gatewayVars, graphVars, Tick, RunFails, Raise
    <2> QED
      BY <1>0, <2>1, Staying
  <1>2. CASE StartRun
    <2>1. UNCHANGED <<turns, proposals>>
      BY <1>2 DEF StartRun, gatewayVars
    <2>2. CASE checkpoint.node = "complete" /\ Return(checkpoint.outcome) /\ UNCHANGED <<checkpoint, run>>
      BY <2>1, <2>2 DEF Returns, Return, ProposalFits, GraphInv, EndsWithOutcome, TurnsEnd
    <2>3. CASE checkpoint' = Restored /\ UNCHANGED returned
      <3>1. CASE checkpoint' = checkpoint
        BY <1>0, <2>1, <2>3, <3>1, Staying
      <3>2. CASE checkpoint = NoCheckpoint /\ checkpoint' = InitialState
        <4>1. checkpoint'.calls = checkpoint.calls /\ checkpoint'.node = "prepare_context"
          BY <3>2, Fields, FirstState DEF NoCheckpoint
        <4> QED
          BY <1>0, <2>1, <2>3, <4>1 DEF Advances, ProposalFits
      <3> QED
        BY <2>3, <3>1, <3>2 DEF Restored
    <2> QED
      BY <1>2, <2>2, <2>3 DEF StartRun
  <1>3. CASE SaveComplete
    <2>1. checkpoint.node = "finalize" /\ IsOver /\ LiveTurns = {}
      BY <1>3 DEF SaveComplete, GraphInv, PositionsFit, EndsWithOutcome, TurnsEnd
    <2>2. /\ checkpoint'.node = "complete" /\ checkpoint'.outcome = checkpoint.outcome
          /\ checkpoint'.calls = checkpoint.calls /\ checkpoint'.tools = checkpoint.tools
          /\ returned' = returned \cup {checkpoint.outcome} /\ UNCHANGED <<turns, proposals>>
      BY <1>0, <1>3, Fields DEF SaveComplete, Return, gatewayVars
    <2> QED
      BY <2>1, <2>2 DEF Returns, ProposalFits
  <1> QED
    BY <1>1, <1>2, <1>3, InvestigateAdvances, DecideAdvances, GatewayChangesTurns DEF Next, RunStep

LEMMA ProposalSteps ==
    ASSUME GraphInv, GraphInv', EvidenceInv, CallsInv, ProposalFits, [Next]_vars
    PROVE  ProposalFits'
  <1>1. CASE UNCHANGED proposals
    BY <1>1, StepKinds DEF Advances, TurnsChange, Propose, Returns, ProposalFits
  <1>2. CASE Propose
    <2>1. \E k, command : proposals' = [proposals EXCEPT ![k] = command]
      BY <1>2 DEF Propose
    <2>2. proposals' = [k \in Keys |-> proposals'[k]]
      BY <2>1 DEF GraphInv, Shape
    <2> QED
      BY <1>2, <2>2 DEF Propose, ProposalFits
  <1> QED
    BY <1>1, <1>2, StepKinds DEF Advances, TurnsChange, Returns

LEMMA InitImplements == Init => Attempt!Init
  BY Fields, FirstState
  DEF Init, Attempt!Init, GatewayInit, NoCheckpoint, InitialState, LiveTurns, IsLive, NoTurn

\* Every step of the graph is a step of the attempt, or none.
LEMMA StepImplements ==
    ASSUME GraphInv, GraphInv', EvidenceInv, CallsInv, ProposalFits, [Next]_vars
    PROVE  [Attempt!Next]_(Attempt!vars)
  <1>. SUFFICES Attempt!Next \/ UNCHANGED Attempt!vars
    OBVIOUS
  <1>. USE DEF Attempt!vars, Attempt!IsOpen, IsOver
  <1>1. UNCHANGED vars \/ FinalStep
    BY GraphSteps
  <1>2. UNCHANGED turns => LiveTurns' = LiveTurns
    BY DEF LiveTurns, IsLive
  <1>3. CASE UNCHANGED vars
    BY <1>2, <1>3 DEF vars, gatewayVars, graphVars
  <1>4. CASE Advances /\ FinalStep
    <2>1. CASE /\ checkpoint'.outcome = checkpoint.outcome
               /\ checkpoint'.calls = checkpoint.calls /\ checkpoint'.tools = checkpoint.tools
      BY <1>2, <1>4, <2>1 DEF Advances
    <2>2. CASE /\ checkpoint'.outcome = checkpoint.outcome
               /\ ~(checkpoint'.calls = checkpoint.calls /\ checkpoint'.tools = checkpoint.tools)
      <3>1. Attempt!Work
        BY <1>2, <1>4, <2>2 DEF Advances, FinalStep, Attempt!Work
      <3> QED
        BY <3>1 DEF Attempt!Next
    <2>3. CASE checkpoint'.outcome # checkpoint.outcome
      <3>1. checkpoint.outcome = NoOutcome /\ checkpoint'.outcome # NoOutcome
        BY <1>4, <2>3 DEF FinalStep
      <3>2. checkpoint'.outcome.status = "completed" =>
               { k \in Keys : proposals[k] # NoCommand } \subseteq checkpoint'.outcome.declared
        BY <1>4, <3>1, OutcomeKinds
        DEF Advances, GraphInv, PositionsFit, EndsWithOutcome, ProposalsAreKnown, Deciding
      <3>3. Attempt!Decide
        BY <1>2, <1>4, <3>1, <3>2 DEF Advances, Attempt!Decide
      <3> QED
        BY <3>3 DEF Attempt!Next
    <2> QED
      BY <2>1, <2>2, <2>3
  <1>5. CASE TurnsChange
    <2>1. CASE LiveTurns' = LiveTurns
      BY <1>5, <2>1 DEF TurnsChange
    <2>2. ASSUME ~IsOver, NEW s \in Sequences, s \notin LiveTurns, LiveTurns' = LiveTurns \cup {s}
          PROVE  Attempt!Next
      <3>1. Attempt!KeepTurn(s)
        BY <1>5, <2>2 DEF TurnsChange, Attempt!KeepTurn
      <3> QED
        BY <3>1 DEF Attempt!Next
    <2>3. CASE IsOver /\ LiveTurns' = {}
      <3>1. Attempt!DestroyTurns
        BY <1>5, <2>3 DEF TurnsChange, Attempt!DestroyTurns
      <3> QED
        BY <3>1 DEF Attempt!Next
    <2> QED
      BY <1>5, <2>1, <2>2, <2>3 DEF TurnsChange
  <1>6. CASE Propose
    <2>. DEFINE key == checkpoint.batch.key
                command == checkpoint.batch.command
    <2>1. /\ checkpoint.node = "create_proposal" /\ ~Deciding /\ run = "ready"
          /\ proposals[key] \in {NoCommand, command}
          /\ proposals' = [proposals EXCEPT ![key] = command]
          /\ UNCHANGED <<checkpoint, turns, returned>>
      BY <1>6 DEF Propose, Proposing, Investigating, Deciding, gatewayVars
    <2>2. ~IsOver
      BY <2>1 DEF GraphInv, EndsWithOutcome
    <2>3. key \in Keys /\ command \in Commands /\ DOMAIN proposals = Keys
      BY <2>1 DEF ProposalFits, GraphInv, Shape
    <2>4. CASE proposals[key] = NoCommand
      <3>1. Attempt!Propose(key, command)
        BY <1>2, <2>1, <2>2, <2>4 DEF Attempt!Propose
      <3> QED
        BY <2>3, <3>1 DEF Attempt!Next
    <2>5. CASE proposals[key] = command
      <3>1. proposals' = proposals
        BY <2>1, <2>3, <2>5 DEF ProposalFits
      <3> QED
        BY <1>2, <2>1, <3>1
    <2> QED
      BY <2>1, <2>4, <2>5
  <1>7. CASE Returns
    <2>1. returned' = {checkpoint.outcome}
      BY <1>7 DEF Returns, GraphInv, EndsWithOutcome
    <2>2. Attempt!Return
      BY <1>2, <1>7, <2>1 DEF Returns, Attempt!Return
    <2> QED
      BY <2>2 DEF Attempt!Next
  <1> QED
    BY <1>1, <1>3, <1>4, <1>5, <1>6, <1>7, StepKinds

\* The nodes, plans, repairs, crashes and restarts of the graph add nothing to
\* the attempt that its caller, the operation workflow or the store of private
\* turns could see: it works, decides once, cleans up and returns.
THEOREM RetailImplementsAttempt == Spec => ImplementsAttempt
  <1>1. Init => ProposalFits
    BY FirstState, Fields DEF Init, NoCheckpoint, ProposalFits
  <1> QED
    BY <1>1, Start, EvidenceStart, CallsStart, GraphSteps, EvidenceSteps, CallsSteps, ProposalSteps,
       InitImplements, StepImplements, PTL
       DEF Spec, ImplementsAttempt, Attempt!Spec

-----------------------------------------------------------------------------
(* Types, and with them the limits of RetailLoopPolicy.  A call is begun      *)
(* below the limit, and a query that failed is repaired below it; both are    *)
(* counted later, so what is still to be counted is part of the invariant.    *)

StateTypes(state) ==
    /\ state.node \in Nodes
    /\ state.calls \in 0 .. MaxModelCalls
    /\ state.tools \in Nat
    /\ state.repairs \in 0 .. MaxRepairs
    /\ state.candidate.repair \in 0 .. MaxRepairs
    /\ state.refs \subseteq Keys
    /\ state.outcome.declared \subseteq Keys
    /\ state.batch \in AllAnswers \cup {NoAnswer}
    /\ state.failed /\ state.node # "execute_query" /\ state.outcome = NoOutcome =>
          state.candidate.repair < MaxRepairs

CallTypes ==
    /\ call.sequence \in Sequences
    /\ call.attempt \in 0 .. MaximumAttempts
    /\ call.answer \in AllAnswers \cup {NoAnswer}
    /\ call.pc = "encoding" => call.attempt < MaximumAttempts
    /\ run = "asking" => checkpoint.calls < MaxModelCalls

OtherTypes ==
    /\ clock \in 0 .. MaxClock
    /\ setup \in Setups
    /\ run \in Positions
    /\ runs \in 0 .. MaxRuns
    /\ proposals \in [Keys -> Commands \cup {NoCommand}]

TypeInv == StateTypes(checkpoint) /\ CallTypes /\ OtherTypes

LEMMA NoCallTypes ==
    /\ NoCall.sequence \in Sequences
    /\ NoCall.attempt = 0 /\ NoCall.answer = NoAnswer /\ NoCall.pc = "idle"
    /\ MaximumAttempts \in Nat \ {0}
  BY GatewayAssumption DEF NoCall, Sequences

LEMMA NoOutcomeTypes ==
    /\ NoOutcome.declared = {}
    /\ \A reason : Stopped(reason).declared = {} /\ Stopped(reason) # NoOutcome
    /\ \A type : AnswerOutcome(type).declared = {}
  BY OutcomeKinds DEF NoOutcome, Stopped, AnswerOutcome

LEMMA InitialTypes ==
    /\ StateTypes(InitialState) /\ StateTypes(NoCheckpoint)
    /\ InitialState.calls = 0 /\ NoCheckpoint.calls = 0
    /\ InitialState.failed = FALSE /\ NoCheckpoint.failed = FALSE
    /\ DOMAIN NoCheckpoint = DOMAIN InitialState
  <1>1. MaxModelCalls \in Nat /\ MaxRepairs \in Nat
    BY RetailAssumption
  <1>2. /\ InitialState.node = "prepare_context" /\ InitialState.calls = 0 /\ InitialState.tools = 0
        /\ InitialState.repairs = 0 /\ InitialState.candidate.repair = 0 /\ InitialState.refs = {}
        /\ InitialState.outcome = NoOutcome /\ InitialState.batch = NoAnswer
        /\ InitialState.failed = FALSE
    BY DEF InitialState, NoCandidate
  <1>3. /\ NoCheckpoint.node = "none" /\ NoCheckpoint.calls = 0 /\ NoCheckpoint.tools = 0
        /\ NoCheckpoint.repairs = 0 /\ NoCheckpoint.candidate.repair = 0 /\ NoCheckpoint.refs = {}
        /\ NoCheckpoint.outcome = NoOutcome /\ NoCheckpoint.batch = NoAnswer
        /\ NoCheckpoint.failed = FALSE /\ DOMAIN NoCheckpoint = DOMAIN InitialState
    BY <1>2, Fields DEF NoCheckpoint
  <1>4. {"prepare_context", "none"} \subseteq Nodes
    BY DEF Nodes
  <1>5. StateTypes(InitialState)
    BY <1>1, <1>2, <1>4, NoOutcomeTypes DEF StateTypes
  <1>6. StateTypes(NoCheckpoint)
    BY <1>1, <1>3, <1>4, NoOutcomeTypes DEF StateTypes
  <1> QED
    BY <1>2, <1>3, <1>5, <1>6

LEMMA TypeStart == Init => TypeInv
  <1>. SUFFICES ASSUME Init
                PROVE  TypeInv
    OBVIOUS
  <1>1. StateTypes(checkpoint)
    BY InitialTypes DEF Init
  <1>2. CallTypes
    BY NoCallTypes DEF Init, GatewayInit, CallTypes
  <1>3. OtherTypes
    BY RetailAssumption, GatewayAssumption DEF Init, GatewayInit, OtherTypes, Positions
  <1> QED
    BY <1>1, <1>2, <1>3 DEF TypeInv

\* A step that writes a checkpoint and leaves no call under way.
LEMMA WritingTypes ==
    ASSUME TypeInv, NEW state, StateTypes(state), NEW position \in Positions \ {"asking"},
           Write(state, position), call' = NoCall, clock' = clock, proposals' = proposals
    PROVE  TypeInv'
  <1>1. StateTypes(checkpoint)'
    BY DEF Write, StateTypes
  <1>2. CallTypes'
    BY NoCallTypes DEF Write, CallTypes
  <1>3. OtherTypes'
    BY DEF Write, TypeInv, OtherTypes
  <1> QED
    BY <1>1, <1>2, <1>3 DEF TypeInv

\* A step that ends the run, or moves it on, with the checkpoint it has.
LEMMA MovingTypes ==
    ASSUME TypeInv, checkpoint' = checkpoint, run' \in Positions \ {"asking"}, call' = NoCall,
           UNCHANGED <<clock, setup, runs, proposals>>
    PROVE  TypeInv'
  <1>1. StateTypes(checkpoint)'
    BY DEF TypeInv, StateTypes
  <1>2. CallTypes'
    BY NoCallTypes DEF CallTypes
  <1>3. OtherTypes'
    BY DEF TypeInv, OtherTypes
  <1> QED
    BY <1>1, <1>2, <1>3 DEF TypeInv

LEMMA RaisingTypes ==
    ASSUME TypeInv, Raise
    PROVE  TypeInv'
  <1>1. "idle" \in Positions \ {"asking"}
    BY DEF Positions
  <1> QED
    BY <1>1, MovingTypes DEF Raise

\* A call is begun below the limit, with a sequence number the store can hold.
LEMMA BeginningTypes ==
    ASSUME TypeInv, checkpoint.calls < MaxModelCalls, NEW history,
           BeginCall(checkpoint.calls, history), run' = "asking",
           UNCHANGED <<setup, checkpoint, runs, proposals>>
    PROVE  TypeInv'
  <1>1. StateTypes(checkpoint)'
    BY DEF TypeInv, StateTypes
  <1>2. checkpoint.calls \in Sequences
    BY RetailAssumption, GatewayAssumption DEF TypeInv, StateTypes, Sequences
  <1>3. PICK pc, error :
           call' = [NoCall EXCEPT !.pc = pc, !.error = error, !.sequence = checkpoint.calls,
                                  !.history = history]
    BY DEF BeginCall
  <1>4. call'.sequence = checkpoint.calls /\ call'.attempt = 0 /\ call'.answer = NoAnswer
    BY <1>3, CallFields, NoCallTypes
  <1>5. CallTypes'
    BY <1>2, <1>4, NoCallTypes DEF CallTypes
  <1>6. OtherTypes'
    BY DEF BeginCall, TypeInv, OtherTypes, Positions
  <1> QED
    BY <1>1, <1>5, <1>6 DEF TypeInv

LEMMA DecideKeepsTypes ==
    ASSUME GraphInv, CallsInv, TypeInv, DecideStep
    PROVE  TypeInv'
  <1>0. /\ DOMAIN checkpoint = DOMAIN InitialState
        /\ run \in {"ready", "deleted"} => call = NoCall
        /\ StateTypes(checkpoint)
        /\ {"ready", "deleted"} \subseteq Positions \ {"asking"}
    BY DEF GraphInv, Shape, PositionsFit, TypeInv, Positions
  <1>1. ASSUME NEW state, StateTypes(state), Goto(state), run = "ready"
        PROVE  TypeInv'
    BY <1>0, <1>1, WritingTypes DEF Goto, gatewayVars
  <1>2. ASSUME NEW state, StateTypes(state), Write(state, "ready"), call' = NoCall,
               UNCHANGED <<clock, proposals>>
        PROVE  TypeInv'
    BY <1>0, <1>2, WritingTypes
  \* A state that differs in the node, and in an outcome that stops the run.
  <1>3. ASSUME NEW node \in Nodes \ {"execute_query"}, NEW reason, checkpoint.node # "execute_query"
        PROVE  /\ StateTypes([checkpoint EXCEPT !.node = node])
               /\ StateTypes([checkpoint EXCEPT !.node = node, !.outcome = Stopped(reason)])
    <2>1. PICK moved : moved = [checkpoint EXCEPT !.node = node]
      OBVIOUS
    <2>2. /\ moved.node = node /\ moved.calls = checkpoint.calls /\ moved.tools = checkpoint.tools
          /\ moved.repairs = checkpoint.repairs /\ moved.candidate = checkpoint.candidate
          /\ moved.refs = checkpoint.refs /\ moved.outcome = checkpoint.outcome
          /\ moved.batch = checkpoint.batch /\ moved.failed = checkpoint.failed
      BY <1>0, <2>1, Fields
    <2>3. StateTypes(moved)
      BY <1>0, <1>3, <2>2 DEF StateTypes
    <2>4. PICK ended : ended = [checkpoint EXCEPT !.node = node, !.outcome = Stopped(reason)]
      OBVIOUS
    <2>5. /\ ended.node = node /\ ended.calls = checkpoint.calls /\ ended.tools = checkpoint.tools
          /\ ended.repairs = checkpoint.repairs /\ ended.candidate = checkpoint.candidate
          /\ ended.refs = checkpoint.refs /\ ended.outcome = Stopped(reason)
          /\ ended.batch = checkpoint.batch
      BY <1>0, <2>4, Fields
    <2>6. StateTypes(ended)
      BY <1>0, <2>5, NoOutcomeTypes DEF StateTypes
    <2> QED
      BY <2>1, <2>3, <2>4, <2>6
  <1>4. CASE PrepareContext
    <2>1. CASE Raise
      BY <2>1, RaisingTypes
    <2>2. CASE Goto([checkpoint EXCEPT !.node = "call_model", !.request = Trimmed(checkpoint.history)])
      <3>1. PICK state :
              state = [checkpoint EXCEPT !.node = "call_model", !.request = Trimmed(checkpoint.history)]
        OBVIOUS
      <3>2. /\ state.node = "call_model" /\ state.calls = checkpoint.calls /\ state.tools = checkpoint.tools
            /\ state.repairs = checkpoint.repairs /\ state.candidate = checkpoint.candidate
            /\ state.refs = checkpoint.refs /\ state.outcome = checkpoint.outcome
            /\ state.batch = checkpoint.batch /\ state.failed = checkpoint.failed
        BY <1>0, <3>1, Fields
      <3>3. checkpoint.node = "prepare_context" /\ run = "ready"
        BY <1>4 DEF PrepareContext, AtNode
      <3>4. StateTypes(state)
        BY <1>0, <3>2, <3>3 DEF StateTypes, Nodes
      <3> QED
        BY <1>1, <2>2, <3>1, <3>3, <3>4
    <2> QED
      BY <1>4, <2>1, <2>2 DEF PrepareContext
  <1>5. CASE CallModelLimit
    <2>1. checkpoint.node = "call_model" /\ run = "ready"
      BY <1>5 DEF CallModelLimit, AtNode
    <2>2. "route_output" \in Nodes \ {"execute_query"}
      BY DEF Nodes
    <2>3. StateTypes([checkpoint EXCEPT !.node = "route_output", !.outcome = Stopped("model_call_limit")])
      BY <1>3, <2>1, <2>2
    <2> QED
      BY <1>1, <1>5, <2>1, <2>3 DEF CallModelLimit
  <1>6. CASE CallModel
    BY <1>6, BeginningTypes DEF CallModel
  <1>7. CASE ModelAnswered
    <2>1. PICK batch :
            /\ batch \in {call.answer, NoAnswer}
            /\ Write([checkpoint EXCEPT !.node = "route_output", !.calls = @ + 1,
                                        !.outcome = AnswerOutcome(call.answer.type), !.batch = batch], "ready")
      BY <1>7 DEF ModelAnswered
    <2>2. PICK state :
            state = [checkpoint EXCEPT !.node = "route_output", !.calls = @ + 1,
                                       !.outcome = AnswerOutcome(call.answer.type), !.batch = batch]
      OBVIOUS
    <2>3. /\ state.node = "route_output" /\ state.calls = checkpoint.calls + 1
          /\ state.tools = checkpoint.tools /\ state.repairs = checkpoint.repairs
          /\ state.candidate = checkpoint.candidate /\ state.refs = checkpoint.refs
          /\ state.outcome = AnswerOutcome(call.answer.type) /\ state.batch = batch
          /\ state.failed = checkpoint.failed
      BY <1>0, <2>2, Fields
    <2>4. checkpoint.calls + 1 \in 0 .. MaxModelCalls
      BY <1>0, <1>7, RetailAssumption DEF ModelAnswered, TypeInv, CallTypes, StateTypes
    <2>5. batch \in AllAnswers \cup {NoAnswer}
      BY <2>1 DEF TypeInv, CallTypes
    <2>6. ~IsOver /\ checkpoint.node = "call_model"
      BY <1>7 DEF ModelAnswered, GraphInv, PositionsFit, EndsWithOutcome, Deciding
    <2>7. StateTypes(state)
      BY <1>0, <2>3, <2>4, <2>5, <2>6, NoOutcomeTypes DEF StateTypes, Nodes, IsOver
    <2> QED
      BY <1>2, <1>7, <2>1, <2>2, <2>7 DEF ModelAnswered
  <1>8. CASE ModelFailed
    <2>1. PICK state :
            state = [checkpoint EXCEPT !.node = "route_output", !.calls = @ + 1,
                                       !.outcome = Stopped(call.error)]
      OBVIOUS
    <2>2. /\ state.node = "route_output" /\ state.calls = checkpoint.calls + 1
          /\ state.tools = checkpoint.tools /\ state.repairs = checkpoint.repairs
          /\ state.candidate = checkpoint.candidate /\ state.refs = checkpoint.refs
          /\ state.outcome = Stopped(call.error) /\ state.batch = checkpoint.batch
      BY <1>0, <2>1, Fields
    <2>3. checkpoint.calls + 1 \in 0 .. MaxModelCalls
      BY <1>0, <1>8, RetailAssumption DEF ModelFailed, TypeInv, CallTypes, StateTypes
    <2>4. StateTypes(state)
      BY <1>0, <2>2, <2>3, NoOutcomeTypes DEF StateTypes, Nodes
    <2> QED
      BY <1>2, <1>8, <2>1, <2>4 DEF ModelFailed
  <1>9. CASE RouteOutput
    <2>1. checkpoint.node = "route_output" /\ run = "ready"
      BY <1>9 DEF RouteOutput, AtNode
    <2>2. PICK node \in {"validate_tools", "finalize"} : Goto([checkpoint EXCEPT !.node = node])
      BY <1>9 DEF RouteOutput
    <2>3. node \in Nodes \ {"execute_query"}
      BY DEF Nodes
    <2>4. StateTypes([checkpoint EXCEPT !.node = node])
      BY <1>3, <2>1, <2>3
    <2> QED
      BY <1>1, <2>1, <2>2, <2>4
  <1>10. CASE ValidateTools
    <2>1. checkpoint.node = "validate_tools" /\ run = "ready"
      BY <1>10 DEF ValidateTools, AtNode
    <2>2. {"finalize", "execute_tools"} \subseteq Nodes \ {"execute_query"}
      BY DEF Nodes
    <2>3. /\ StateTypes([checkpoint EXCEPT !.node = "finalize", !.outcome = Stopped("tool_call_limit")])
          /\ StateTypes([checkpoint EXCEPT !.node = "execute_tools"])
      BY <1>3, <2>1, <2>2
    <2> QED
      BY <1>1, <1>10, <2>1, <2>3, RaisingTypes DEF ValidateTools
  <1>11. ASSUME NEW results \in Results, ExecuteTools(results)
         PROVE  TypeInv'
    <2>. DEFINE digest == [i \in DOMAIN checkpoint.batch.batch |-> <<checkpoint.batch.batch[i], results[i]>>]
    <2>1. PICK done : done = [checkpoint EXCEPT !.tools = @ + Len(checkpoint.batch.batch), !.digest = digest]
      OBVIOUS
    <2>2. \/ Goto([done EXCEPT !.node = "finalize", !.outcome = Stopped("repeated_evidence")])
          \/ Goto([done EXCEPT !.node = "close_exchange"])
      BY <1>11, <2>1 DEF ExecuteTools
    <2>3. checkpoint.node = "execute_tools" /\ run = "ready" /\ Deciding
      BY <1>11 DEF ExecuteTools, AtNode, Deciding
    <2>4. Len(checkpoint.batch.batch) \in Nat
      <3>1. checkpoint.batch \in DecideAnswers /\ checkpoint.batch.type = "tools"
        BY <2>3 DEF CallsInv, HistoryFits
      <3>2. PICK b \in Batches : checkpoint.batch = [type |-> "tools", batch |-> b.batch, tokens |-> b.tokens]
        BY <3>1 DEF DecideAnswers
      <3> QED
        BY <3>2, RetailAssumption
    <2>5. /\ DOMAIN done = DOMAIN InitialState
          /\ done.calls = checkpoint.calls /\ done.tools = checkpoint.tools + Len(checkpoint.batch.batch)
          /\ done.repairs = checkpoint.repairs /\ done.candidate = checkpoint.candidate
          /\ done.refs = checkpoint.refs /\ done.outcome = checkpoint.outcome
          /\ done.batch = checkpoint.batch /\ done.failed = checkpoint.failed
      BY <1>0, <2>1, Fields
    <2>. HIDE DEF digest
    <2>6. done.tools \in Nat
      BY <1>0, <2>4, <2>5 DEF StateTypes
    <2>7. CASE Goto([done EXCEPT !.node = "finalize", !.outcome = Stopped("repeated_evidence")])
      <3>1. PICK state : state = [done EXCEPT !.node = "finalize", !.outcome = Stopped("repeated_evidence")]
        OBVIOUS
      <3>2. /\ state.node = "finalize" /\ state.calls = done.calls /\ state.tools = done.tools
            /\ state.repairs = done.repairs /\ state.candidate = done.candidate
            /\ state.refs = done.refs /\ state.outcome = Stopped("repeated_evidence")
            /\ state.batch = done.batch
        BY <2>5, <3>1, Fields
      <3>3. StateTypes(state)
        BY <1>0, <2>5, <2>6, <3>2, NoOutcomeTypes DEF StateTypes, Nodes
      <3> QED
        BY <1>1, <2>3, <2>7, <3>1, <3>3
    <2>8. CASE Goto([done EXCEPT !.node = "close_exchange"])
      <3>1. PICK state : state = [done EXCEPT !.node = "close_exchange"]
        OBVIOUS
      <3>2. /\ state.node = "close_exchange" /\ state.calls = done.calls /\ state.tools = done.tools
            /\ state.repairs = done.repairs /\ state.candidate = done.candidate
            /\ state.refs = done.refs /\ state.outcome = done.outcome
            /\ state.batch = done.batch /\ state.failed = done.failed
        BY <2>5, <3>1, Fields
      <3>3. StateTypes(state)
        BY <1>0, <2>3, <2>5, <2>6, <3>2 DEF StateTypes, Nodes
      <3> QED
        BY <1>1, <2>3, <2>8, <3>1, <3>3
    <2> QED
      BY <2>2, <2>7, <2>8
  <1>12. CASE CloseExchange
    <2>1. checkpoint.node = "close_exchange" /\ run = "ready"
      BY <1>12 DEF CloseExchange, AtNode
    <2>2. PICK history, state :
            /\ state = [checkpoint EXCEPT !.node = "prepare_context", !.batch = NoAnswer,
                                          !.request = NoRequest, !.history = history]
            /\ Goto(state)
      BY <1>12 DEF CloseExchange
    <2>3. /\ state.node = "prepare_context" /\ state.calls = checkpoint.calls
          /\ state.tools = checkpoint.tools /\ state.repairs = checkpoint.repairs
          /\ state.candidate = checkpoint.candidate /\ state.refs = checkpoint.refs
          /\ state.outcome = checkpoint.outcome /\ state.batch = NoAnswer
          /\ state.failed = checkpoint.failed
      BY <1>0, <2>2, Fields
    <2>4. StateTypes(state)
      BY <1>0, <2>1, <2>3 DEF StateTypes, Nodes
    <2> QED
      BY <1>1, <2>1, <2>2, <2>4
  <1>13. CASE Finalize
    BY <1>0, <1>13, MovingTypes DEF Finalize, AtNode
  <1> QED
    BY <1>4, <1>5, <1>6, <1>7, <1>8, <1>9, <1>10, <1>11, <1>12, <1>13 DEF DecideStep

\* _cache_and_finish: the state has an outcome, and needs no repair any more.
LEMMA CachingTypes ==
    ASSUME TypeInv, NEW state, DOMAIN state = DOMAIN InitialState, StateTypes(state),
           NEW outcome, outcome.declared \subseteq Keys, outcome # NoOutcome,
           CacheAndFinish(state, outcome), call' = NoCall, clock' = clock, proposals' = proposals
    PROVE  TypeInv'
  <1>1. PICK cached :
          cached = [state EXCEPT !.node = "finalize", !.outcome = outcome, !.cleaned = FALSE]
    OBVIOUS
  <1>2. /\ cached.node = "finalize" /\ cached.calls = state.calls /\ cached.tools = state.tools
        /\ cached.repairs = state.repairs /\ cached.candidate = state.candidate
        /\ cached.refs = state.refs /\ cached.outcome = outcome /\ cached.batch = state.batch
    BY <1>1, Fields
  <1>3. StateTypes(cached)
    BY <1>2 DEF StateTypes, Nodes
  <1>4. "finishing" \in Positions \ {"asking"}
    BY DEF Positions
  <1> QED
    BY <1>1, <1>3, <1>4, WritingTypes DEF CacheAndFinish

LEMMA AnswerTypes ==
    \A answer \in AllAnswers :
        /\ answer.type = "propose" => answer.key \in Keys /\ answer.command \in Commands
        /\ answer.type = "report" => answer.declared \subseteq Keys
  BY DEF AllAnswers, DecideAnswers, PlanAnswers, SqlAnswers, ReportAnswers

\* The state with the counts of a call that was answered, or of a tool used.
LEMMA CountingTypes ==
    ASSUME StateTypes(checkpoint), DOMAIN checkpoint = DOMAIN InitialState,
           NEW calls \in 0 .. MaxModelCalls, NEW tools \in Nat
    PROVE  LET counted == [checkpoint EXCEPT !.calls = calls, !.tools = tools] IN
           /\ StateTypes(counted) /\ DOMAIN counted = DOMAIN InitialState
           /\ counted.node = checkpoint.node /\ counted.calls = calls /\ counted.tools = tools
           /\ counted.repairs = checkpoint.repairs /\ counted.candidate = checkpoint.candidate
           /\ counted.refs = checkpoint.refs /\ counted.outcome = checkpoint.outcome
           /\ counted.batch = checkpoint.batch /\ counted.failed = checkpoint.failed
  <1>1. PICK counted : counted = [checkpoint EXCEPT !.calls = calls, !.tools = tools]
    OBVIOUS
  <1>2. /\ DOMAIN counted = DOMAIN InitialState
        /\ counted.node = checkpoint.node /\ counted.calls = calls /\ counted.tools = tools
        /\ counted.repairs = checkpoint.repairs /\ counted.candidate = checkpoint.candidate
        /\ counted.refs = checkpoint.refs /\ counted.outcome = checkpoint.outcome
        /\ counted.batch = checkpoint.batch /\ counted.failed = checkpoint.failed
    BY <1>1, Fields
  <1>3. StateTypes(counted)
    BY <1>2 DEF StateTypes
  <1> QED
    BY <1>1, <1>2, <1>3

LEMMA InvestigateKeepsTypes ==
    ASSUME GraphInv, EvidenceInv, CallsInv, ProposalFits, TypeInv, InvestigateStep
    PROVE  TypeInv'
  <1>0. /\ DOMAIN checkpoint = DOMAIN InitialState
        /\ run \in {"ready", "proposed", "finishing"} => call = NoCall
        /\ StateTypes(checkpoint) /\ checkpoint.calls \in Nat /\ checkpoint.tools \in Nat
        /\ {"ready", "proposed", "deleted", "idle"} \subseteq Positions \ {"asking"}
    BY DEF GraphInv, Shape, PositionsFit, TypeInv, StateTypes, Positions, CallsInv, CallFits
  <1>1. ASSUME NEW state, StateTypes(state), Save(state), call' = NoCall, UNCHANGED <<clock, proposals>>
        PROVE  TypeInv'
    BY <1>0, <1>1, WritingTypes DEF Save
  <1>2. ASSUME NEW reason, NEW state, DOMAIN state = DOMAIN InitialState, StateTypes(state),
               CacheAndFinish(state, Stopped(reason)), call' = NoCall, UNCHANGED <<clock, proposals>>
        PROVE  TypeInv'
    BY <1>2, CachingTypes, NoOutcomeTypes
  \* What an answered call finds.
  <1>3. ASSUME NEW step, NEW type, Answered(step, type), Taken
        PROVE  /\ call.answer \in AllAnswers /\ call.answer.type = type
               /\ checkpoint.calls + 1 \in 1 .. MaxModelCalls /\ checkpoint.outcome = NoOutcome
               /\ call' = NoCall /\ UNCHANGED clock
    <2>1. call.answer \in AllAnswers /\ call.answer.type = type
      BY <1>3 DEF Answered, EvidenceInv
    <2>2. checkpoint.calls + 1 \in 1 .. MaxModelCalls
      BY <1>0, <1>3, RetailAssumption DEF Answered, TypeInv, CallTypes
    <2>3. checkpoint.outcome = NoOutcome
      BY <1>3 DEF Answered, GraphInv, EndsWithOutcome, Deciding, IsOver
    <2> QED
      BY <1>3, <2>1, <2>2, <2>3 DEF Taken
  <1>4. CASE StopUnavailable \/ AskLimit
    <2>1. /\ run = "ready" /\ UNCHANGED <<call, clock, proposals>>
          /\ \/ CacheAndFinish(checkpoint, Stopped("product_query_capability_unavailable"))
             \/ CacheAndFinish(checkpoint, Stopped("model_call_limit"))
      BY <1>4 DEF StopUnavailable, AskLimit, Investigating, gatewayVars
    <2> QED
      BY <1>0, <1>2, <2>1
  <1>5. ASSUME NEW step \in {"decide", "sql", "report"}, Ask(step)
        PROVE  TypeInv'
    <2>1. checkpoint.calls < MaxModelCalls
      <3>1. step = "decide" => checkpoint.calls = 0
        BY <1>5, InitialTypes DEF Ask, NeedsModel
      <3> QED
        BY <1>5, <3>1, RetailAssumption DEF Ask
    <2> QED
      BY <1>5, <2>1, BeginningTypes DEF Ask
  <1>6. CASE AskFailed \/ QueryRaises \/ ProposeConflicts \/ ReportMismatch
    BY <1>6, RaisingTypes DEF AskFailed, QueryRaises, ProposeConflicts, ReportMismatch
  <1>7. CASE TakeClarification
    <2>. DEFINE outcome == [status |-> "needs_input", reason |-> "none", declared |-> {}]
    <2>1. PICK state : state = [InitialState EXCEPT !.calls = 1, !.tools = 1]
      OBVIOUS
    <2>2. /\ DOMAIN state = DOMAIN InitialState /\ state.calls = 1 /\ state.tools = 1
          /\ state.node = InitialState.node /\ state.repairs = InitialState.repairs
          /\ state.candidate = InitialState.candidate /\ state.refs = InitialState.refs
          /\ state.outcome = InitialState.outcome /\ state.batch = InitialState.batch
          /\ state.failed = InitialState.failed
      BY <2>1, Fields
    <2>3. StateTypes(state)
      BY <2>2, InitialTypes, RetailAssumption DEF StateTypes
    <2>4. outcome.declared \subseteq Keys /\ outcome # NoOutcome
      BY OutcomeKinds
    <2>5. CacheAndFinish(state, outcome) /\ call' = NoCall /\ UNCHANGED <<clock, proposals>>
      BY <1>7, <2>1 DEF TakeClarification, Taken
    <2>. HIDE DEF outcome
    <2> QED
      BY <2>2, <2>3, <2>4, <2>5, CachingTypes
  <1>8. CASE TakePlan
    <2>1. PICK state :
            state = [InitialState EXCEPT !.node = "prepare_plan_step", !.calls = 1, !.tools = 1,
                                         !.plan = call.answer.plan, !.pending = call.answer.plan]
      OBVIOUS
    <2>2. /\ state.calls = 1 /\ state.tools = 1
          /\ state.node = "prepare_plan_step" /\ state.repairs = InitialState.repairs
          /\ state.candidate = InitialState.candidate /\ state.refs = InitialState.refs
          /\ state.outcome = InitialState.outcome /\ state.batch = InitialState.batch
          /\ state.failed = InitialState.failed
      BY <2>1, Fields
    <2>3. StateTypes(state)
      BY <2>2, InitialTypes, RetailAssumption DEF StateTypes, Nodes
    <2> QED
      BY <1>1, <1>8, <2>1, <2>3 DEF TakePlan, Taken
  <1>9. CASE TakeCandidate
    <2>0. Answered("sql", "sql") /\ Taken /\ UNCHANGED proposals /\ checkpoint.node # "execute_query"
      BY <1>9 DEF TakeCandidate, Answered, NeedsModel
    <2>1. PICK asked : asked = [checkpoint EXCEPT !.calls = @ + 1]
      OBVIOUS
    <2>2. /\ DOMAIN asked = DOMAIN InitialState
          /\ asked.node = checkpoint.node /\ asked.calls = checkpoint.calls + 1
          /\ asked.tools = checkpoint.tools
          /\ asked.repairs = checkpoint.repairs /\ asked.candidate = checkpoint.candidate
          /\ asked.refs = checkpoint.refs /\ asked.outcome = checkpoint.outcome
          /\ asked.batch = checkpoint.batch /\ asked.failed = checkpoint.failed
      BY <1>0, <2>1, Fields
    <2>3. checkpoint.calls + 1 \in 0 .. MaxModelCalls /\ checkpoint.outcome = NoOutcome
      BY <1>3, <2>0
    <2>4. StateTypes(asked)
      BY <1>0, <2>2, <2>3 DEF StateTypes
    <2>5. PICK repair, sql, step :
            /\ repair = IF checkpoint.failed THEN checkpoint.candidate.repair + 1 ELSE 0
            /\ \/ CacheAndFinish(asked, Stopped("sql_no_progress"))
               \/ Save([asked EXCEPT !.node = "execute_query",
                                     !.candidate = [sql |-> sql, step |-> step, repair |-> repair]])
      BY <1>9, <2>1 DEF TakeCandidate
    <2>6. repair \in 0 .. MaxRepairs
      <3>1. checkpoint.candidate.repair \in 0 .. MaxRepairs /\ MaxRepairs \in Nat
        BY <1>0, RetailAssumption DEF StateTypes
      <3>2. checkpoint.failed => checkpoint.candidate.repair < MaxRepairs
        BY <1>0, <2>0, <2>3 DEF StateTypes
      <3> QED
        BY <2>5, <3>1, <3>2
    <2>7. CASE CacheAndFinish(asked, Stopped("sql_no_progress"))
      BY <1>2, <1>3, <2>0, <2>2, <2>4, <2>7
    <2>8. CASE Save([asked EXCEPT !.node = "execute_query",
                                  !.candidate = [sql |-> sql, step |-> step, repair |-> repair]])
      <3>1. PICK state : state = [asked EXCEPT !.node = "execute_query",
                                     !.candidate = [sql |-> sql, step |-> step, repair |-> repair]]
        OBVIOUS
      <3>2. /\ state.node = "execute_query" /\ state.calls = asked.calls /\ state.tools = asked.tools
            /\ state.repairs = asked.repairs /\ state.candidate.repair = repair
            /\ state.refs = asked.refs /\ state.outcome = asked.outcome /\ state.batch = asked.batch
        BY <2>2, <3>1, Fields
      <3>3. StateTypes(state)
        BY <2>4, <2>6, <3>2 DEF StateTypes, Nodes
      <3> QED
        BY <1>1, <1>3, <2>0, <2>8, <3>1, <3>3
    <2> QED
      BY <2>5, <2>7, <2>8
  <1>10. CASE QuerySucceeds
    <2>1. PICK state, evidence, pending :
            /\ state = [checkpoint EXCEPT !.node = "prepare_plan_step", !.tools = @ + 1,
                                          !.evidence = evidence, !.pending = pending,
                                          !.candidate = NoCandidate, !.failed = FALSE]
            /\ Save(state)
      BY <1>10 DEF QuerySucceeds
    <2>2. /\ state.node = "prepare_plan_step" /\ state.calls = checkpoint.calls
          /\ state.tools = checkpoint.tools + 1 /\ state.repairs = checkpoint.repairs
          /\ state.candidate = NoCandidate /\ state.refs = checkpoint.refs
          /\ state.outcome = checkpoint.outcome /\ state.batch = checkpoint.batch
          /\ state.failed = FALSE
      BY <1>0, <2>1, Fields
    <2>3. state.candidate.repair = 0
      BY <2>2 DEF NoCandidate
    <2>4. StateTypes(state)
      BY <1>0, <2>2, <2>3, RetailAssumption DEF StateTypes, Nodes
    <2> QED
      BY <1>0, <1>1, <1>10, <2>1, <2>4 DEF QuerySucceeds, Executing, Investigating, gatewayVars
  <1>11. CASE QueryFails
    <2>0. run = "ready" /\ UNCHANGED <<call, clock, proposals>>
      BY <1>11 DEF QueryFails, Executing, Investigating, gatewayVars
    <2>1. PICK failed : failed = [checkpoint EXCEPT !.tools = @ + 1]
      OBVIOUS
    <2>2. /\ DOMAIN failed = DOMAIN InitialState
          /\ failed.node = checkpoint.node /\ failed.calls = checkpoint.calls
          /\ failed.tools = checkpoint.tools + 1
          /\ failed.repairs = checkpoint.repairs /\ failed.candidate = checkpoint.candidate
          /\ failed.refs = checkpoint.refs /\ failed.outcome = checkpoint.outcome
          /\ failed.batch = checkpoint.batch /\ failed.failed = checkpoint.failed
      BY <1>0, <2>1, Fields
    <2>3. StateTypes(failed)
      BY <1>0, <2>2 DEF StateTypes
    <2>4. \/ /\ MayRepair
             /\ Save([failed EXCEPT !.node = "sql_reason", !.repairs = @ + 1, !.failed = TRUE])
          \/ CacheAndFinish(failed, Stopped("sql_repair_limit"))
      BY <1>11, <2>1 DEF QueryFails
    <2>5. CASE /\ MayRepair
               /\ Save([failed EXCEPT !.node = "sql_reason", !.repairs = @ + 1, !.failed = TRUE])
      <3>1. PICK state : state = [failed EXCEPT !.node = "sql_reason", !.repairs = @ + 1, !.failed = TRUE]
        OBVIOUS
      <3>2. /\ state.node = "sql_reason" /\ state.calls = failed.calls /\ state.tools = failed.tools
            /\ state.repairs = failed.repairs + 1 /\ state.candidate = failed.candidate
            /\ state.refs = failed.refs /\ state.outcome = failed.outcome /\ state.batch = failed.batch
        BY <2>2, <3>1, Fields
      <3>3. failed.repairs + 1 \in 0 .. MaxRepairs /\ failed.candidate.repair < MaxRepairs
        BY <1>0, <2>2, <2>5, RetailAssumption DEF MayRepair, StateTypes
      <3>4. StateTypes(state)
        BY <2>3, <3>2, <3>3 DEF StateTypes, Nodes
      <3> QED
        BY <1>0, <1>1, <2>0, <2>5, <3>1, <3>4
    <2>6. CASE CacheAndFinish(failed, Stopped("sql_repair_limit"))
      BY <1>0, <1>2, <2>0, <2>2, <2>3, <2>6
    <2> QED
      BY <2>4, <2>5, <2>6
  <1>12. CASE Reconcile
    <2>1. PICK state : state = [checkpoint EXCEPT !.node = "prepare_report", !.reconciled = TRUE]
      OBVIOUS
    <2>2. /\ state.node = "prepare_report" /\ state.calls = checkpoint.calls
          /\ state.tools = checkpoint.tools /\ state.repairs = checkpoint.repairs
          /\ state.candidate = checkpoint.candidate /\ state.refs = checkpoint.refs
          /\ state.outcome = checkpoint.outcome /\ state.batch = checkpoint.batch
          /\ state.failed = checkpoint.failed
      BY <1>0, <2>1, Fields
    <2>3. checkpoint.node # "execute_query"
      BY <1>12 DEF Reconcile, EvidenceInv
    <2>4. StateTypes(state)
      BY <1>0, <2>2, <2>3 DEF StateTypes, Nodes
    <2> QED
      BY <1>0, <1>1, <1>12, <2>1, <2>4 DEF Reconcile, Investigating, gatewayVars
  <1>13. CASE TakeProposal
    <2>0. /\ Answered("report", "propose") /\ Taken /\ UNCHANGED proposals
          /\ checkpoint.node # "execute_query"
      BY <1>13 DEF TakeProposal, Answered, NeedsModel, EvidenceInv
    <2>1. checkpoint.calls + 1 \in 0 .. MaxModelCalls /\ checkpoint.tools + 1 \in Nat
      BY <1>0, <1>3, <2>0
    <2>2. PICK asked : asked = [checkpoint EXCEPT !.calls = checkpoint.calls + 1, !.tools = checkpoint.tools + 1]
      OBVIOUS
    <2>3. /\ StateTypes(asked) /\ DOMAIN asked = DOMAIN InitialState
          /\ asked.node = checkpoint.node /\ asked.repairs = checkpoint.repairs
          /\ asked.candidate = checkpoint.candidate /\ asked.failed = checkpoint.failed
          /\ asked.outcome = checkpoint.outcome
      BY <1>0, <2>1, <2>2, CountingTypes
    <2>4. CASE CacheAndFinish(asked, Stopped("operation_workflow_unavailable"))
      BY <1>2, <1>3, <2>0, <2>3, <2>4
    <2>5. CASE Save([asked EXCEPT !.node = "create_proposal", !.batch = call.answer])
      <3>1. PICK state : state = [asked EXCEPT !.node = "create_proposal", !.batch = call.answer]
        OBVIOUS
      <3>2. /\ state.node = "create_proposal" /\ state.calls = asked.calls /\ state.tools = asked.tools
            /\ state.repairs = asked.repairs /\ state.candidate = asked.candidate
            /\ state.refs = asked.refs /\ state.outcome = asked.outcome /\ state.batch = call.answer
            /\ state.failed = asked.failed
        BY <2>3, <3>1, Fields
      <3>3. call.answer \in AllAnswers
        BY <1>3, <2>0
      <3>4. StateTypes(state)
        BY <2>0, <2>3, <3>2, <3>3 DEF StateTypes, Nodes
      <3> QED
        BY <1>1, <1>3, <2>0, <2>5, <3>1, <3>4
    <2>6. \/ CacheAndFinish(asked, Stopped("operation_workflow_unavailable"))
          \/ Save([asked EXCEPT !.node = "create_proposal", !.batch = call.answer])
      BY <1>13, <2>2 DEF TakeProposal
    <2> QED
      BY <2>4, <2>5, <2>6
  <1>14. CASE Propose
    <2>1. /\ checkpoint.batch.key \in Keys /\ checkpoint.batch.command \in Commands /\ run = "ready"
      BY <1>14 DEF Propose, Proposing, Investigating, ProposalFits
    <2>2. /\ UNCHANGED <<turns, call, clock, setup, checkpoint, runs>> /\ run' = "proposed"
          /\ proposals' = [proposals EXCEPT ![checkpoint.batch.key] = checkpoint.batch.command]
      BY <1>14 DEF Propose, gatewayVars
    <2>3. StateTypes(checkpoint)'
      BY <1>0, <2>2 DEF StateTypes
    <2>4. CallTypes'
      BY <2>2 DEF TypeInv, CallTypes
    <2>5. proposals' \in [Keys -> Commands \cup {NoCommand}]
      BY <2>1, <2>2 DEF TypeInv, OtherTypes
    <2>6. OtherTypes'
      BY <1>0, <2>2, <2>5 DEF TypeInv, OtherTypes
    <2> QED
      BY <2>3, <2>4, <2>6 DEF TypeInv
  <1>15. CASE SaveRef
    <2>1. PICK state : state = [checkpoint EXCEPT !.node = "prepare_report", !.batch = NoAnswer,
                                                  !.refs = @ \cup {checkpoint.batch.key}]
      OBVIOUS
    <2>2. /\ state.node = "prepare_report" /\ state.calls = checkpoint.calls
          /\ state.tools = checkpoint.tools /\ state.repairs = checkpoint.repairs
          /\ state.candidate = checkpoint.candidate
          /\ state.refs = checkpoint.refs \cup {checkpoint.batch.key}
          /\ state.outcome = checkpoint.outcome /\ state.batch = NoAnswer
          /\ state.failed = checkpoint.failed
      BY <1>0, <2>1, Fields
    <2>3. checkpoint.node = "create_proposal" /\ checkpoint.batch.key \in Keys
      BY <1>15 DEF SaveRef, GraphInv, PositionsFit, ProposalFits
    <2>4. StateTypes(state)
      BY <1>0, <2>2, <2>3 DEF StateTypes, Nodes
    <2> QED
      BY <1>0, <1>1, <1>15, <2>1, <2>4 DEF SaveRef, gatewayVars
  <1>16. CASE TakeReport
    <2>. DEFINE outcome == [status |-> "completed", reason |-> "none", declared |-> call.answer.declared]
    <2>0. Answered("report", "report") /\ Taken /\ UNCHANGED proposals
      BY <1>16 DEF TakeReport
    <2>1. checkpoint.calls + 1 \in 0 .. MaxModelCalls /\ checkpoint.tools + 1 \in Nat
      BY <1>0, <1>3, <2>0
    <2>2. PICK asked : asked = [checkpoint EXCEPT !.calls = checkpoint.calls + 1, !.tools = checkpoint.tools + 1]
      OBVIOUS
    <2>3. StateTypes(asked) /\ DOMAIN asked = DOMAIN InitialState
      BY <1>0, <2>1, <2>2, CountingTypes
    <2>4. outcome.declared \subseteq Keys /\ outcome # NoOutcome
      <3>1. call.answer.declared \subseteq Keys
        BY <1>3, <2>0, AnswerTypes
      <3> QED
        BY <3>1, OutcomeKinds
    <2>5. CacheAndFinish(asked, outcome)
      BY <1>16, <2>2 DEF TakeReport
    <2>. HIDE DEF outcome
    <2> QED
      BY <1>3, <2>0, <2>3, <2>4, <2>5, CachingTypes
  <1>17. CASE FinishDelete \/ FinishFails
    <2>1. /\ run = "finishing" /\ run' \in {"deleted", "idle"}
          /\ UNCHANGED <<call, clock, setup, checkpoint, runs, proposals>>
      BY <1>17 DEF FinishDelete, FinishFails
    <2> QED
      BY <1>0, <2>1, MovingTypes
  <1> QED
    BY <1>4, <1>5, <1>6, <1>7, <1>8, <1>9, <1>10, <1>11, <1>12, <1>13, <1>14, <1>15, <1>16, <1>17
    DEF InvestigateStep

LEMMA OfferedTypes == Offered \subseteq AllAnswers
  BY DEF Offered, AllAnswers

LEMMA GatewayKeepsTypes ==
    ASSUME GraphInv, TypeInv, Gateway
    PROVE  TypeInv'
  <1>0. /\ DOMAIN call = DOMAIN NoCall /\ CallTypes
        /\ UNCHANGED <<checkpoint, run, clock>>
    BY DEF GraphInv, Shape, TypeInv, Gateway, GatewayStep, Resolve, ResolveFails, Send, SaveTurn,
           SaveRefused, SaveFails, graphVars
  <1>1. StateTypes(checkpoint)' /\ OtherTypes'
    BY <1>0 DEF TypeInv, StateTypes, OtherTypes, Gateway, graphVars
  <1>2. ASSUME call'.sequence = call.sequence, call'.attempt \in 0 .. MaximumAttempts,
               call'.answer \in AllAnswers \cup {NoAnswer},
               call'.pc = "encoding" => call'.attempt < MaximumAttempts
        PROVE  TypeInv'
    BY <1>0, <1>1, <1>2 DEF TypeInv, CallTypes
  <1>3. ASSUME NEW error, call' = Raised(error)
        PROVE  TypeInv'
    <2>1. call'.sequence = call.sequence /\ call'.attempt = 0 /\ call'.answer = NoAnswer /\ call'.pc = "raised"
      BY <1>3, CallFields, NoCallTypes DEF Raised
    <2>2. 0 \in 0 .. MaximumAttempts
      BY NoCallTypes
    <2> QED
      BY <1>2, <2>1, <2>2
  <1>4. ASSUME call' = [call EXCEPT !.resolved = @ + 1] \/ call' = [call EXCEPT !.pc = "returned"]
        PROVE  TypeInv'
    <2>1. /\ call'.sequence = call.sequence /\ call'.attempt = call.attempt /\ call'.answer = call.answer
          /\ call'.pc = call.pc \/ call'.pc = "returned"
      BY <1>0, <1>4, CallFields
    <2> QED
      BY <1>0, <1>2, <2>1 DEF CallTypes
  <1>5. CASE Resolve \/ ResolveFails \/ SaveTurn \/ SaveRefused \/ SaveFails
    <2>1. \/ \E error : call' = Raised(error)
          \/ call' = [call EXCEPT !.resolved = @ + 1]
          \/ call' = [call EXCEPT !.pc = "returned"]
      BY <1>5 DEF Resolve, ResolveFails, SaveTurn, SaveRefused, SaveFails
    <2> QED
      BY <1>3, <1>4, <2>1
  <1>6. ASSUME NEW outcome, NEW answer \in AllAnswers \cup {NoAnswer}, Send(outcome, answer)
        PROVE  TypeInv'
    <2>1. /\ call.attempt \in 0 .. MaximumAttempts /\ call.attempt < MaximumAttempts
          /\ call.attempt + 1 \in 0 .. MaximumAttempts
      BY <1>0, <1>6, NoCallTypes DEF Send, CallTypes
    <2>2. CASE call' = [call EXCEPT !.pc = "saving", !.attempt = @ + 1, !.answer = answer]
      <3>1. /\ call'.sequence = call.sequence /\ call'.attempt = call.attempt + 1
            /\ call'.answer = answer /\ call'.pc = "saving"
        BY <1>0, <2>2, CallFields
      <3> QED
        BY <1>2, <1>6, <2>1, <3>1
    <2>3. CASE call' = [call EXCEPT !.attempt = @ + 1] /\ ShouldRetry(outcome)
      <3>1. /\ call'.sequence = call.sequence /\ call'.attempt = call.attempt + 1
            /\ call'.answer = call.answer
        BY <1>0, <2>3, CallFields
      <3>2. call.attempt + 1 < MaximumAttempts
        BY <2>3 DEF ShouldRetry
      <3> QED
        BY <1>0, <1>2, <2>1, <3>1, <3>2 DEF CallTypes
    <2> QED
      BY <1>3, <1>6, <2>2, <2>3 DEF Send
  <1> QED
    BY <1>5, <1>6, OfferedTypes DEF Gateway, GatewayStep

LEMMA TypeSteps ==
    ASSUME GraphInv, EvidenceInv, CallsInv, ProposalFits, TypeInv, [Next]_vars
    PROVE  TypeInv'
  <1>1. CASE UNCHANGED vars
    BY <1>1 DEF vars, gatewayVars, graphVars, TypeInv, StateTypes, CallTypes, OtherTypes
  <1>2. CASE Tick /\ UNCHANGED graphVars
    <2>1. clock' \in 0 .. MaxClock
      BY <1>2, GatewayAssumption DEF Tick, TypeInv, OtherTypes
    <2> QED
      BY <1>2, <2>1 DEF Tick, graphVars, TypeInv, StateTypes, CallTypes, OtherTypes
  <1>3. CASE RunFails
    BY <1>3, RaisingTypes DEF RunFails
  <1>4. CASE StartRun
    <2>1. /\ call = NoCall /\ call' = NoCall /\ run' # "asking" /\ run' \in Positions
          /\ UNCHANGED <<clock, setup, proposals>>
      BY <1>4 DEF StartRun, Entry, gatewayVars, GraphInv, PositionsFit, Positions
    <2>2. runs' \in 0 .. MaxRuns
      BY <1>4, RetailAssumption DEF StartRun, TypeInv, OtherTypes
    <2>3. checkpoint' \in {checkpoint, InitialState}
      BY <1>4 DEF StartRun, Restored
    <2>4. StateTypes(checkpoint)'
      BY <2>3, InitialTypes DEF TypeInv, StateTypes
    <2>5. CallTypes'
      BY <2>1, NoCallTypes DEF CallTypes
    <2>6. OtherTypes'
      BY <2>1, <2>2 DEF TypeInv, OtherTypes
    <2> QED
      BY <2>4, <2>5, <2>6 DEF TypeInv
  <1>5. CASE SaveComplete
    <2>1. PICK state : /\ state = [checkpoint EXCEPT !.node = "complete", !.cleaned = TRUE]
                       /\ checkpoint' = state
      BY <1>5 DEF SaveComplete
    <2>2. /\ run' = "idle" /\ call = NoCall /\ call' = NoCall /\ IsOver
          /\ UNCHANGED <<clock, setup, runs, proposals>>
      BY <1>5 DEF SaveComplete, gatewayVars, GraphInv, PositionsFit, EndsWithOutcome
    <2>3. DOMAIN checkpoint = DOMAIN InitialState
      BY DEF GraphInv, Shape
    <2>4. /\ state.node = "complete" /\ state.calls = checkpoint.calls
          /\ state.tools = checkpoint.tools /\ state.repairs = checkpoint.repairs
          /\ state.candidate = checkpoint.candidate /\ state.refs = checkpoint.refs
          /\ state.outcome = checkpoint.outcome /\ state.batch = checkpoint.batch
      BY <2>1, <2>3, Fields
    <2>5. StateTypes(checkpoint)'
      BY <2>1, <2>2, <2>4 DEF TypeInv, StateTypes, Nodes, IsOver
    <2>6. CallTypes'
      BY <2>2, NoCallTypes DEF CallTypes
    <2>7. OtherTypes'
      BY <2>2 DEF TypeInv, OtherTypes, Positions
    <2> QED
      BY <2>5, <2>6, <2>7 DEF TypeInv
  <1> QED
    BY <1>1, <1>2, <1>3, <1>4, <1>5, GatewayKeepsTypes, DecideKeepsTypes, InvestigateKeepsTypes
    DEF Next, RunStep

\* What every state of the attempt is made of.  The limits of the loop policy
\* are kept by every checkpoint, wherever a run ended between the guard of a
\* call or a repair and the checkpoint that counts it, and however often the
\* attempt was run.
THEOREM RetailTypes == Spec => []TypeOK
  <1>1. GraphInv /\ CallsInv /\ TypeInv => TypeOK
    BY DEF GraphInv, Shape, CallsInv, CallFits, TypeInv, StateTypes, CallTypes, OtherTypes, TypeOK
  <1>2. Init => ProposalFits
    BY FirstState, Fields DEF Init, NoCheckpoint, ProposalFits
  <1> QED
    BY <1>1, <1>2, Start, EvidenceStart, CallsStart, TypeStart, GraphSteps, EvidenceSteps, CallsSteps,
       ProposalSteps, TypeSteps, PTL DEF Spec
=============================================================================
