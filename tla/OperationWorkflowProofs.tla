------------------------ MODULE OperationWorkflowProofs ------------------------
(* Theorems about OperationWorkflow, for any number of sessions, actors,     *)
(* proposals, revisions, keys and nonces, and for any clock.                 *)
EXTENDS OperationWorkflow, InvestigationCommandsProofs

-----------------------------------------------------------------------------
(* Calls *)

ProposeCall == [pc : {"propose", "insert"}, actor : Analysts, command : Commands, key : Keys,
                revises : Refs \cup {NoRef}, expires : Nat]
RejectCall == [pc : {"reject", "reject_txn"}, actor : Approvers, ref : Refs, at : Nat]
ApproveCall == [pc : {"approve", "approve_txn"}, actor : Approvers, ref : Refs,
                grant : Grant, at : Nat]
ExecuteCall == [pc : {"execute", "execute_txn", "recover"}, actor : Approvers, ref : Refs,
                grant : Grant, at : Nat]

\* The step a call is in tells which request it carries.
LEMMA CallKinds ==
    ASSUME NEW c \in Call
    PROVE  /\ c.pc \in {"propose", "insert"} => c \in ProposeCall
           /\ c.pc \in {"reject", "reject_txn"} => c \in RejectCall
           /\ c.pc \in {"approve", "approve_txn"} => c \in ApproveCall
           /\ c.pc \in {"execute", "execute_txn", "recover"} => c \in ExecuteCall
  BY DEF Call, NoCall, ProposeCall, RejectCall, ApproveCall, ExecuteCall

\* Each kind of request is a call.
LEMMA KindsAreCalls ==
    /\ ProposeCall \subseteq Call
    /\ RejectCall \subseteq Call
    /\ ApproveCall \subseteq Call
    /\ ExecuteCall \subseteq Call
    /\ NoCall \in Call
  BY DEF Call, ProposeCall, RejectCall, ApproveCall, ExecuteCall

\* A call that moves on to a later step of its own kind stays a call.
LEMMA CallAdvances ==
    ASSUME NEW c \in Call, NEW t \in Nat
    PROVE  /\ c.pc = "propose" => [c EXCEPT !.pc = "insert"] \in Call
           /\ c.pc = "reject" => [c EXCEPT !.at = t, !.pc = "reject_txn"] \in Call
           /\ c.pc = "approve" => [c EXCEPT !.at = t, !.pc = "approve_txn"] \in Call
           /\ c.pc = "execute" => [c EXCEPT !.pc = "execute_txn", !.at = t] \in Call
           /\ c.pc = "execute_txn" => [c EXCEPT !.pc = "recover"] \in Call
  <1>1. CASE c.pc = "propose"
    BY <1>1, CallKinds, KindsAreCalls DEF ProposeCall
  <1>2. CASE c.pc = "reject"
    BY <1>2, CallKinds, KindsAreCalls DEF RejectCall
  <1>3. CASE c.pc = "approve"
    BY <1>3, CallKinds, KindsAreCalls DEF ApproveCall
  <1>4. CASE c.pc = "execute"
    BY <1>4, CallKinds, KindsAreCalls DEF ExecuteCall
  <1>5. CASE c.pc = "execute_txn"
    BY <1>5, CallKinds, KindsAreCalls DEF ExecuteCall
  <1> QED
    BY <1>1, <1>2, <1>3, <1>4, <1>5

-----------------------------------------------------------------------------
(* Type correctness *)

LEMMA InitTypeOK == Init => TypeOK
  BY EmptyTablesType DEF Init, TypeOK, Call

\* The steps that write nothing but the state of a call.
LEMMA QuietSteps ==
    ASSUME TypeOK, NEW s \in Sessions, NEW call \in Call,
           calls' = [calls EXCEPT ![s] = call],
           UNCHANGED <<tables, clock, history>>,
           issued' \subseteq Nonces
    PROVE  TypeOK'
  BY DEF TypeOK, tables, history, Execution, NoExecution, Proposal, NoProposal,
         Decision, NoDecision, Nonce, NoNonce

LEMMA NextTypeOK == TypeOK /\ [Next]_vars => TypeOK'
  <1>. SUFFICES ASSUME TypeOK, [Next]_vars
                PROVE  TypeOK'
    OBVIOUS
  <1>1. CASE UNCHANGED vars
    BY <1>1 DEF vars, TypeOK
  <1>2. CASE Tick
    BY <1>2 DEF Tick, TypeOK, tables, history
  <1>3. ASSUME NEW s \in Sessions, NewCall(s)
        PROVE  TypeOK'
    <2>1. ASSUME NEW actor \in Analysts, NEW c \in Commands, NEW key \in Keys,
                 NEW revises \in Refs \cup {NoRef}, CallPropose(s, actor, c, key, revises)
          PROVE  TypeOK'
      <3>. DEFINE call == [pc |-> "propose", actor |-> actor, command |-> c, key |-> key,
                           revises |-> revises, expires |-> clock + ProposalTTL]
      <3>1. call \in Call
        BY KindsAreCalls, TimeAssumption DEF ProposeCall, TypeOK
      <3> QED
        BY <2>1, <3>1, QuietSteps DEF CallPropose, TypeOK
    <2>2. ASSUME NEW actor \in Approvers, NEW ref \in Refs, CallReject(s, actor, ref)
          PROVE  TypeOK'
      <3>1. [pc |-> "reject", actor |-> actor, ref |-> ref, at |-> 0] \in Call
        BY KindsAreCalls DEF RejectCall
      <3> QED
        BY <2>2, <3>1, QuietSteps DEF CallReject, TypeOK
    <2>3. ASSUME NEW actor \in Approvers, NEW ref \in Refs, NEW nonce \in Nonces,
                 CallApprove(s, actor, ref, nonce)
          PROVE  TypeOK'
      <3>. DEFINE grant == [ref |-> ref, command |-> proposals[ref].command,
                            requester |-> proposals[ref].requester, approver |-> actor,
                            expires |-> clock + GrantTTL, nonce |-> nonce]
                  call == [pc |-> "approve", actor |-> actor, ref |-> ref, at |-> 0,
                           grant |-> grant]
      <3>1. proposals[ref] \in Proposal
        BY <2>3 DEF CallApprove, MayDecide, Exists, TypeOK, NoProposal
      <3>2. grant \in Grant
        BY <3>1, TimeAssumption DEF Grant, TypeOK, Proposal
      <3>3. call \in Call
        BY <3>2, KindsAreCalls DEF ApproveCall
      <3>4. issued' \subseteq Nonces
        BY <2>3 DEF CallApprove, TypeOK
      <3> QED
        BY <2>3, <3>3, <3>4, QuietSteps DEF CallApprove
    <2>4. ASSUME NEW actor \in Approvers, NEW g \in grants, ExecuteReplay(s, actor, g)
          PROVE  TypeOK'
      <3>1. g.ref \in Refs
        BY DEF TypeOK, Grant
      <3>2. executions[g.ref] \in Execution
        BY <2>4, <3>1 DEF ExecuteReplay, Executed, TypeOK, NoExecution
      <3> QED
        BY <2>4, <3>1, <3>2, KindsAreCalls DEF ExecuteReplay, Return, TypeOK, tables
    <2>5. ASSUME NEW actor \in Approvers, NEW g \in grants, CallExecute(s, actor, g)
          PROVE  TypeOK'
      <3>. DEFINE call == [pc |-> "execute", actor |-> actor, ref |-> g.ref,
                           grant |-> g, at |-> 0]
      <3>1. g \in Grant /\ g.ref \in Refs
        BY DEF TypeOK, Grant
      <3>2. call \in Call
        BY <3>1, KindsAreCalls DEF ExecuteCall
      <3> QED
        BY <2>5, <3>2, QuietSteps DEF CallExecute, TypeOK
    <2> QED
      BY <1>3, <2>1, <2>2, <2>3, <2>4, <2>5 DEF NewCall
  <1>4. ASSUME NEW s \in Sessions, ProposeStep(s)
        PROVE  TypeOK'
    <2>1. calls[s] \in Call
      BY DEF TypeOK
    <2>2. calls[s].pc \in {"propose", "insert"} => calls[s] \in ProposeCall
      BY <2>1, CallKinds
    <2>3. CASE ProposeReplay(s)
      <3>1. PICK r \in Refs : acks' = acks \cup
                {[actor |-> calls[s].actor, key |-> calls[s].key, ref |-> r]}
        BY <2>3 DEF ProposeReplay, KeyedBy
      <3>2. acks' \subseteq [actor : Analysts, key : Keys, ref : Refs]
        BY <2>2, <2>3, <3>1 DEF ProposeReplay, ProposeCall, TypeOK
      <3> QED
        BY <2>3, <3>2, KindsAreCalls DEF ProposeReplay, TypeOK, tables
    <2>4. CASE ProposeMiss(s)
      <3>1. [calls[s] EXCEPT !.pc = "insert"] \in Call
        BY <2>1, <2>4, CallAdvances DEF ProposeMiss, TypeOK
      <3>2. calls' = [calls EXCEPT ![s] = [calls[s] EXCEPT !.pc = "insert"]]
        BY <2>4 DEF ProposeMiss
      <3> QED
        BY <2>4, <3>1, <3>2, QuietSteps DEF ProposeMiss, TypeOK
    <2>5. ASSUME NEW ref \in Refs, ProposeInsert(s, ref)
          PROVE  TypeOK'
      <3>. DEFINE call == calls[s]
                  row == [status |-> "pending", requester |-> call.actor,
                          command |-> call.command, key |-> call.key, expires |-> call.expires]
                  old(r) == [proposals[r] EXCEPT !.status = "superseded"]
      <3>1. call \in ProposeCall
        BY <2>2, <2>5 DEF ProposeInsert
      <3>2. row \in Proposal
        BY <3>1 DEF ProposeCall, Proposal
      <3>3. ASSUME NEW r \in Refs, r = call.revises
            PROVE  old(r) \in Proposal
        <4>1. call.revises # NoRef
          BY <3>3, NoRefAssumption
        <4>2. proposals[r].status = "pending"
          BY <2>5, <3>3, <4>1 DEF ProposeInsert, CanInsertAs
        <4>3. proposals[r] \in Proposal
          BY <4>2 DEF TypeOK, NoProposal
        <4> QED
          BY <4>3 DEF Proposal
      <3>4. proposals' = [r \in Refs |-> IF r = ref THEN row
                              ELSE IF r = call.revises THEN old(r) ELSE proposals[r]]
        BY <2>5 DEF ProposeInsert, InsertedOver, NewRow
      <3>5. proposals' \in [Refs -> Proposal \cup {NoProposal}]
        BY <3>2, <3>3, <3>4 DEF TypeOK
      <3>6. acks' \subseteq [actor : Analysts, key : Keys, ref : Refs]
        BY <2>5, <3>1 DEF ProposeInsert, ProposeCall, TypeOK
      <3>7. calls' \in [Sessions -> Call]
        BY <2>5, KindsAreCalls DEF ProposeInsert, TypeOK
      <3> QED
        BY <2>5, <3>5, <3>6, <3>7 DEF ProposeInsert, TypeOK
    <2> QED
      BY <1>4, <2>3, <2>4, <2>5 DEF ProposeStep
  <1>5. ASSUME NEW s \in Sessions, DecideStep(s)
        PROVE  TypeOK'
    <2>. DEFINE call == calls[s]
    <2>1. call \in Call
      BY DEF TypeOK
    <2>2. /\ call.pc = "reject_txn" => call \in RejectCall
          /\ call.pc = "approve_txn" => call \in ApproveCall
      BY <2>1, CallKinds
    <2>3. CASE BeginDecision(s)
      <3>. DEFINE step == IF call.pc = "reject" THEN "reject_txn" ELSE "approve_txn"
      <3>1. [call EXCEPT !.at = clock, !.pc = step] \in Call
        BY <2>1, <2>3, CallAdvances DEF BeginDecision, TypeOK
      <3>2. calls' = [calls EXCEPT ![s] = [call EXCEPT !.at = clock, !.pc = step]]
        <4>1. calls[s] \in RejectCall \cup ApproveCall
          BY <2>1, <2>3, CallKinds DEF BeginDecision
        <4> QED
          BY <2>3, <4>1 DEF BeginDecision, RejectCall, ApproveCall, TypeOK
      <3> QED
        BY <2>3, <3>1, <3>2, QuietSteps DEF BeginDecision, TypeOK
    <2>4. CASE RecordRejection(s)
      <3>1. call \in RejectCall /\ call.ref \in Refs
        BY <2>2, <2>4 DEF RecordRejection, RejectCall
      <3>2. [verdict |-> "reject", approver |-> call.actor, at |-> call.at] \in Decision
        BY <3>1 DEF RejectCall, Decision
      <3>3. proposals[call.ref] \in Proposal
        BY <2>4, <3>1 DEF RecordRejection, IsDecidable, TypeOK, NoProposal
      <3>4. [proposals[call.ref] EXCEPT !.status = "rejected"] \in Proposal
        BY <3>3 DEF Proposal
      <3>5. proposals' \in [Refs -> Proposal \cup {NoProposal}]
        BY <2>4, <3>1, <3>4 DEF RecordRejection, TypeOK
      <3>6. decisions' \in [Refs -> Decision \cup {NoDecision}]
        BY <2>4, <3>1, <3>2 DEF RecordRejection, TypeOK
      <3>7. calls' \in [Sessions -> Call]
        BY <2>4, KindsAreCalls DEF RecordRejection, TypeOK
      <3> QED
        BY <2>4, <3>5, <3>6, <3>7 DEF RecordRejection, TypeOK, history
    <2>5. CASE RecordApproval(s)
      <3>1. call \in ApproveCall /\ call.ref \in Refs /\ call.grant \in Grant
        BY <2>2, <2>5 DEF RecordApproval, ApproveCall
      <3>2. [verdict |-> "approve", approver |-> call.actor, at |-> call.at] \in Decision
        BY <3>1 DEF ApproveCall, Decision
      <3>3. [nonce |-> call.grant.nonce, approver |-> call.actor,
             expires |-> call.grant.expires, used |-> FALSE] \in Nonce
        BY <3>1 DEF ApproveCall, Grant, Nonce
      <3>4. proposals[call.ref] \in Proposal
        BY <2>5, <3>1 DEF RecordApproval, IsDecidable, TypeOK, NoProposal
      <3>5. [proposals[call.ref] EXCEPT !.status = "approved"] \in Proposal
        BY <3>4 DEF Proposal
      <3>6. proposals' \in [Refs -> Proposal \cup {NoProposal}]
        BY <2>5, <3>1, <3>5 DEF RecordApproval, TypeOK
      <3>7. decisions' \in [Refs -> Decision \cup {NoDecision}]
        BY <2>5, <3>1, <3>2 DEF RecordApproval, TypeOK
      <3>8. nonces' \in [Refs -> Nonce \cup {NoNonce}]
        BY <2>5, <3>1, <3>3 DEF RecordApproval, TypeOK
      <3>9. calls' \in [Sessions -> Call] /\ grants' \subseteq Grant
        BY <2>5, <3>1, KindsAreCalls DEF RecordApproval, TypeOK
      <3> QED
        BY <2>5, <3>6, <3>7, <3>8, <3>9 DEF RecordApproval, TypeOK
    <2> QED
      BY <1>5, <2>3, <2>4, <2>5 DEF DecideStep
  <1>6. ASSUME NEW s \in Sessions, ExecuteStep(s)
        PROVE  TypeOK'
    <2>. DEFINE call == calls[s]
    <2>1. call \in Call
      BY DEF TypeOK
    <2>2. call.pc \in {"execute", "execute_txn", "recover"}
      BY <1>6 DEF ExecuteStep, ExecuteFound, ExecuteMiss, ExecuteDuplicate, ExecuteRecover,
                  ExecuteCommit
    <2>3. call \in ExecuteCall /\ call.ref \in Refs /\ call.grant \in Grant
      BY <2>1, <2>2, CallKinds DEF ExecuteCall
    <2>4. CASE ExecuteFound(s) \/ ExecuteRecover(s)
      <3>1. executions[call.ref] \in Execution
        BY <2>3, <2>4 DEF ExecuteFound, ExecuteRecover, Executed, TypeOK, NoExecution
      <3>2. Return(s, call.ref)
        BY <2>4 DEF ExecuteFound, ExecuteRecover
      <3> QED
        BY <2>3, <3>1, <3>2, KindsAreCalls DEF Return, TypeOK, tables
    <2>5. CASE ExecuteMiss(s)
      <3>1. [call EXCEPT !.pc = "execute_txn", !.at = clock] \in Call
        BY <2>1, <2>5, CallAdvances DEF ExecuteMiss, TypeOK
      <3>2. calls' = [calls EXCEPT ![s] = [call EXCEPT !.pc = "execute_txn", !.at = clock]]
        BY <2>3, <2>5 DEF ExecuteMiss, ExecuteCall, TypeOK
      <3> QED
        BY <2>5, <3>1, <3>2, QuietSteps DEF ExecuteMiss, TypeOK
    <2>6. CASE ExecuteDuplicate(s)
      <3>1. [call EXCEPT !.pc = "recover"] \in Call
        BY <2>1, <2>6, CallAdvances DEF ExecuteDuplicate, TypeOK
      <3>2. calls' = [calls EXCEPT ![s] = [call EXCEPT !.pc = "recover"]]
        BY <2>6 DEF ExecuteDuplicate
      <3> QED
        BY <2>6, <3>1, <3>2, QuietSteps DEF ExecuteDuplicate, TypeOK
    <2>7. CASE ExecuteCommit(s)
      <3>. DEFINE c == proposals[call.ref].command
                  exec == [status |-> "succeeded", actor |-> call.actor,
                           before |-> PreviewVersion(c), after |-> PreviewVersion(c) + 1,
                           at |-> call.at]
      <3>1. proposals[call.ref] \in Proposal
        BY <2>3, <2>7 DEF ExecuteCommit, IsBound, TypeOK, NoProposal
      <3>2. c \in OperationCommand
        BY <3>1, CommandsAssumption DEF Proposal
      <3>3. PreviewVersion(c) \in Nat
        BY <3>2, CommandKinds DEF PreviewVersion
      <3>4. exec \in Execution
        BY <2>3, <3>3 DEF ExecuteCall, Execution
      <3>5. executions' \in [Refs -> Execution \cup {NoExecution}]
        BY <2>3, <2>7, <3>4 DEF ExecuteCommit, TypeOK
      <3>6. nonces' \in [Refs -> Nonce \cup {NoNonce}]
        <4>1. nonces[call.ref] \in Nonce
          BY <2>3, <2>7, NullAssumption
             DEF ExecuteCommit, ClaimsNonce, TypeOK, NoNonce, Grant
        <4>2. [nonces[call.ref] EXCEPT !.used = TRUE] \in Nonce
          BY <4>1 DEF Nonce
        <4> QED
          BY <2>3, <2>7, <4>2 DEF ExecuteCommit, TypeOK
      <3>7. db' \in Tables
        BY <2>3, <2>7, <3>2, ApplyType DEF ExecuteCommit, TypeOK
      <3>8. audit' \subseteq Refs
        BY <2>3, <2>7 DEF ExecuteCommit, TypeOK
      <3>9. writes' \in [Refs -> Nat]
        <4>1. writes[call.ref] + 1 \in Nat
          BY <2>3 DEF TypeOK
        <4> QED
          BY <2>3, <2>7, <4>1 DEF ExecuteCommit, TypeOK
      <3>10. receipts' \subseteq [ref : Refs, execution : Execution]
        BY <2>3, <2>7, <3>4 DEF ExecuteCommit, TypeOK
      <3>11. calls' \in [Sessions -> Call]
        BY <2>7, KindsAreCalls DEF ExecuteCommit, TypeOK
      <3> QED
        BY <2>7, <3>5, <3>6, <3>7, <3>8, <3>9, <3>10, <3>11 DEF ExecuteCommit, TypeOK
    <2> QED
      BY <1>6, <2>4, <2>5, <2>6, <2>7 DEF ExecuteStep
  <1>7. ASSUME NEW s \in Sessions, Abort(s)
        PROVE  TypeOK'
    BY <1>7, QuietSteps, KindsAreCalls DEF Abort, TypeOK
  <1> QED
    BY <1>1, <1>2, <1>3, <1>4, <1>5, <1>6, <1>7 DEF Next

\* Every table, every call and every record of what was returned keeps its
\* type: in particular no step ever applies a command to a row that is not
\* there, and no receipt is built from a missing execution.
THEOREM TypeCorrectness == Spec => []TypeOK
  <1>1. Init => TypeOK
    BY InitTypeOK
  <1>2. TypeOK /\ [Next]_vars => TypeOK'
    BY NextTypeOK
  <1> QED
    BY <1>1, <1>2, PTL DEF Spec
-----------------------------------------------------------------------------
(* The inductive invariant of the safety theorem.  ExactlyOnce alone is not  *)
(* inductive: that an execution is never approved again rests on how the     *)
(* status of a proposal, its decision and its nonce move together, and that  *)
(* it is in time rests on the order of the timestamps that different calls   *)
(* took when their transactions began.                                       *)

\* The status of a proposal tells its decision, and only an approved one has
\* a nonce or an execution.
DecisionsMatchStatus ==
    \A r \in Refs :
        /\ proposals[r].status = "approved" <=> decisions[r].verdict = "approve"
        /\ proposals[r].status = "rejected" <=> decisions[r].verdict = "reject"
        /\ proposals[r].status # "approved" => nonces[r] = NoNonce /\ ~Executed(r)

\* Whoever decided had not asked for it.
DecidersAreOthers ==
    \A r \in Refs :
        decisions[r].verdict # "none" => decisions[r].approver # proposals[r].requester

\* An execution call comes after the approval, in the order of the timestamps.
DecisionsPrecedeCalls ==
    /\ \A r \in Refs :
         /\ decisions[r].at <= clock
         /\ nonces[r].expires <= proposals[r].expires
    /\ \A s \in Sessions :
         /\ calls[s].pc \in {"reject_txn", "approve_txn"} => calls[s].at <= clock
         /\ calls[s].pc \in {"execute", "execute_txn", "recover"} =>
               decisions[calls[s].ref].verdict = "approve"
         /\ calls[s].pc = "execute_txn" => decisions[calls[s].ref].at <= calls[s].at

IInv ==
    /\ TypeOK
    /\ OneLiveVersion
    /\ DecisionsMatchStatus
    /\ DecidersAreOthers
    /\ DecisionsPrecedeCalls
    /\ ExactlyOnce
    /\ SeparationOfDuties
    /\ ExecutedInTime

LEMMA InitIInv == Init => IInv
  <1>. SUFFICES ASSUME Init PROVE IInv
    OBVIOUS
  <1>1. TypeOK
    BY InitTypeOK
  <1>2. OneLiveVersion
    BY DEF Init, OneLiveVersion, Exists, NoProposal
  <1>3. DecisionsMatchStatus
    BY DEF Init, DecisionsMatchStatus, Executed, NoProposal, NoDecision, NoExecution
  <1>4. DecidersAreOthers
    BY DEF Init, DecidersAreOthers, NoDecision
  <1>5. DecisionsPrecedeCalls
    BY DEF Init, DecisionsPrecedeCalls, NoDecision, NoNonce, NoProposal, NoCall
  <1>6. ExactlyOnce /\ SeparationOfDuties /\ ExecutedInTime
    BY DEF Init, ExactlyOnce, SeparationOfDuties, ExecutedInTime, Executed, NoExecution, NoNonce
  <1> QED
    BY <1>1, <1>2, <1>3, <1>4, <1>5, <1>6 DEF IInv

\* What the parts about the tables say is not disturbed by a step that leaves
\* the tables alone.
LEMMA QuietIInv ==
    ASSUME IInv, UNCHANGED <<tables, writes>>
    PROVE  /\ OneLiveVersion' /\ DecisionsMatchStatus' /\ DecidersAreOthers'
           /\ ExactlyOnce' /\ SeparationOfDuties' /\ ExecutedInTime'
  BY DEF tables, IInv, OneLiveVersion, DecisionsMatchStatus, DecidersAreOthers, ExactlyOnce,
         SeparationOfDuties, ExecutedInTime, Exists, Executed

\* A call that begins or advances without writing keeps the invariant if it
\* has checked what the invariant says of calls.
LEMMA QuietCall ==
    ASSUME IInv, TypeOK', NEW s \in Sessions, NEW call,
           calls' = [calls EXCEPT ![s] = call],
           UNCHANGED <<tables, clock, writes>>,
           call.pc \in {"reject_txn", "approve_txn"} => call.at <= clock,
           call.pc \in {"execute", "execute_txn", "recover"} =>
              decisions[call.ref].verdict = "approve",
           call.pc = "execute_txn" => decisions[call.ref].at <= call.at
    PROVE  IInv'
  <1>1. /\ calls'[s] = call
        /\ \A t \in Sessions : t # s => calls'[t] = calls[t]
    BY DEF IInv, TypeOK
  <1>2. DecisionsPrecedeCalls'
    BY <1>1 DEF IInv, DecisionsPrecedeCalls, tables
  <1> QED
    BY <1>2, QuietIInv DEF IInv

\* A new proposal takes a reference that no row has: a fresh id, or the
\* version after the latest, which is the pending one.
LEMMA InsertIsFresh ==
    ASSUME IInv, NEW s \in Sessions, NEW ref \in Refs, ProposeInsert(s, ref)
    PROVE  /\ ~Exists(ref)
           /\ calls[s].revises # NoRef =>
                /\ calls[s].revises \in Refs
                /\ proposals[calls[s].revises].status = "pending"
                /\ ref[1] = calls[s].revises[1]
                /\ ref[2] = calls[s].revises[2] + 1
  <1>. DEFINE call == calls[s]
  <1>1. call \in ProposeCall
    BY CallKinds DEF IInv, TypeOK, ProposeInsert
  <1>2. CASE call.revises = NoRef
    BY <1>2 DEF ProposeInsert, CanInsertAs
  <1>3. CASE call.revises # NoRef
    <2>1. /\ call.revises \in Refs
          /\ proposals[call.revises].status = "pending"
          /\ ref[1] = call.revises[1]
          /\ ref[2] = call.revises[2] + 1
      BY <1>1, <1>3 DEF ProposeInsert, CanInsertAs, ProposeCall
    <2>2. Exists(ref) => ref[2] <= call.revises[2]
      BY <2>1 DEF IInv, OneLiveVersion, Exists
    <2>3. ref[2] \in Nat /\ call.revises[2] \in Nat
      BY <2>1, RefsAssumption
    <2> QED
      BY <2>1, <2>2, <2>3
  <1> QED
    BY <1>2, <1>3

LEMMA ProposeInsertIInv ==
    ASSUME IInv, TypeOK', NEW s \in Sessions, NEW ref \in Refs, ProposeInsert(s, ref)
    PROVE  IInv'
  <1>. DEFINE call == calls[s]
              old == call.revises
  <1>1. /\ ~Exists(ref)
        /\ old # NoRef => /\ old \in Refs
                          /\ proposals[old].status = "pending"
                          /\ ref[1] = old[1]
                          /\ ref[2] = old[2] + 1
    BY InsertIsFresh
  <1>2. /\ proposals'[ref].status = "pending"
        /\ \A r \in Refs : r # ref /\ r # old => proposals'[r] = proposals[r]
        /\ \A r \in Refs : r # ref =>
             /\ proposals'[r].requester = proposals[r].requester
             /\ proposals'[r].expires = proposals[r].expires
             /\ Exists(r)' <=> Exists(r)
        /\ old # NoRef /\ old # ref => proposals'[old].status = "superseded"
    <2>1. \A r \in Refs : r = old => proposals[r] \in Proposal
      BY <1>1, NoRefAssumption DEF IInv, TypeOK, NoProposal
    <2> QED
      BY <1>1, <2>1, NoRefAssumption DEF ProposeInsert, InsertedOver, NewRow, Exists, Proposal
  <1>3. \A r \in Refs : proposals[r].status = "absent" \/ proposals[r].status = "pending" =>
          /\ decisions[r].verdict \notin {"approve", "reject"}
          /\ nonces[r] = NoNonce /\ ~Executed(r)
    BY DEF IInv, DecisionsMatchStatus
  <1>4. UNCHANGED <<decisions, nonces, executions, audit, writes, clock>>
    BY DEF ProposeInsert
  <1>5. old # ref
    BY <1>1, NoRefAssumption DEF Exists
  <1>6. OneLiveVersion'
    <2>. SUFFICES ASSUME NEW q \in Refs, NEW r \in Refs, q[1] = r[1], Exists(r)',
                         Exists(q)', proposals'[q].status # "superseded"
                  PROVE  r[2] <= q[2]
      BY DEF OneLiveVersion
    <2>1. q[2] \in Nat /\ r[2] \in Nat /\ ref[2] \in Nat
      BY RefsAssumption
    <2>2. q # old
      BY <1>2, <1>5, NoRefAssumption
    <2>3. CASE q # ref /\ r # ref
      BY <1>2, <2>2, <2>3 DEF IInv, OneLiveVersion, Exists
    <2>4. CASE q = ref /\ r = ref
      BY <2>1, <2>4
    <2>5. CASE q = ref /\ r # ref
      <3>1. old # NoRef
        BY <1>2, <2>5 DEF ProposeInsert, CanInsertAs, Exists
      <3>2. r[2] <= old[2]
        BY <1>1, <1>2, <2>5, <3>1 DEF IInv, OneLiveVersion, Exists
      <3>3. old[2] \in Nat
        BY <1>1, <3>1, RefsAssumption
      <3> QED
        BY <1>1, <2>1, <2>5, <3>1, <3>2, <3>3
    <2>6. CASE q # ref /\ r = ref
      <3>1. old # NoRef
        BY <1>2, <2>6 DEF ProposeInsert, CanInsertAs, Exists
      <3>2. proposals[q].status # "superseded" /\ Exists(q)
        BY <1>2, <2>2, <2>6 DEF Exists
      <3>3. old[2] <= q[2] /\ q[2] <= old[2]
        BY <1>1, <2>6, <3>1, <3>2 DEF IInv, OneLiveVersion, Exists
      <3>4. q = old
        BY <1>1, <2>1, <2>6, <3>1, <3>3, RefsAssumption
      <3> QED
        BY <2>2, <3>4
    <2> QED
      BY <2>3, <2>4, <2>5, <2>6
  <1>7. DecisionsMatchStatus'
    <2>. SUFFICES ASSUME NEW r \in Refs
                  PROVE  /\ proposals'[r].status = "approved" <=> decisions[r].verdict = "approve"
                         /\ proposals'[r].status = "rejected" <=> decisions[r].verdict = "reject"
                         /\ proposals'[r].status # "approved" => nonces[r] = NoNonce /\ ~Executed(r)
      BY <1>4 DEF DecisionsMatchStatus, Executed
    <2>1. CASE r = ref
      BY <1>1, <1>2, <1>3, <2>1 DEF Exists
    <2>2. CASE r = old
      BY <1>1, <1>2, <1>3, <1>5, <2>2, NoRefAssumption
    <2>3. CASE r # ref /\ r # old
      BY <1>2, <2>3 DEF IInv, DecisionsMatchStatus
    <2> QED
      BY <2>1, <2>2, <2>3
  <1>8. \A t \in Sessions : calls'[t] = calls[t] \/ calls'[t].pc = "idle"
    BY DEF ProposeInsert, NoCall, IInv, TypeOK
  <1>9. DecidersAreOthers'
    <2>1. decisions[ref].verdict = "none"
      BY <1>1, <1>3 DEF Exists, IInv, TypeOK, Decision, NoDecision
    <2> QED
      BY <1>2, <1>4, <2>1 DEF IInv, DecidersAreOthers
  <1>10. DecisionsPrecedeCalls'
    <2>1. nonces'[ref].expires <= proposals'[ref].expires
      <3>1. nonces'[ref].expires = 0
        BY <1>1, <1>3, <1>4 DEF Exists, NoNonce
      <3>2. proposals'[ref] \in Proposal
        BY <1>2 DEF TypeOK, NoProposal
      <3> QED
        BY <3>1, <3>2 DEF Proposal
    <2> QED
      BY <1>2, <1>4, <1>8, <2>1 DEF IInv, DecisionsPrecedeCalls
  <1>11. ExactlyOnce'
    BY <1>4 DEF IInv, ExactlyOnce, Executed
  <1>12. \A r \in Refs : Executed(r) => r # ref /\ r # old
    BY <1>1, <1>3, NoRefAssumption DEF Exists
  <1>13. SeparationOfDuties'
    BY <1>2, <1>4, <1>12 DEF IInv, SeparationOfDuties, Executed
  <1>14. ExecutedInTime'
    BY <1>2, <1>4, <1>12 DEF IInv, ExecutedInTime, Executed
  <1> QED
    BY <1>6, <1>7, <1>9, <1>10, <1>11, <1>13, <1>14 DEF IInv

LEMMA RecordDecisionIInv ==
    ASSUME IInv, TypeOK', NEW s \in Sessions, RecordRejection(s) \/ RecordApproval(s)
    PROVE  IInv'
  <1>. DEFINE call == calls[s]
              ref == call.ref
  <1>1. /\ ref \in Refs /\ call.at \in Nat /\ call.actor \in Approvers
        /\ call.pc \in {"reject_txn", "approve_txn"}
        /\ call.pc = "approve_txn" => call.grant \in Grant
    BY CallKinds DEF IInv, TypeOK, RecordRejection, RecordApproval, RejectCall, ApproveCall
  <1>2. proposals[ref].status = "pending" /\ proposals[ref] \in Proposal
    BY <1>1 DEF RecordRejection, RecordApproval, IsDecidable, IInv, TypeOK, NoProposal
  <1>3. /\ \A r \in Refs : r # ref =>
             proposals'[r] = proposals[r] /\ decisions'[r] = decisions[r] /\ nonces'[r] = nonces[r]
        /\ proposals'[ref].requester = proposals[ref].requester
        /\ proposals'[ref].expires = proposals[ref].expires
        /\ decisions'[ref].approver = call.actor
        /\ decisions'[ref].at = call.at
        /\ \/ /\ proposals'[ref].status = "rejected" /\ decisions'[ref].verdict = "reject"
              /\ nonces'[ref] = nonces[ref]
           \/ /\ proposals'[ref].status = "approved" /\ decisions'[ref].verdict = "approve"
              /\ nonces'[ref].used = FALSE
              /\ nonces'[ref].expires = call.grant.expires
              /\ call.grant.expires <= proposals[ref].expires
    <2>1. CASE RecordRejection(s)
      BY <1>1, <1>2, <2>1 DEF RecordRejection, IInv, TypeOK, Proposal
    <2>2. CASE RecordApproval(s)
      BY <1>1, <1>2, <2>2 DEF RecordApproval, IInv, TypeOK, Proposal
    <2> QED
      BY <2>1, <2>2
  <1>4. UNCHANGED <<executions, audit, writes, clock>>
    BY DEF RecordRejection, RecordApproval, history
  <1>5. nonces[ref] = NoNonce /\ ~Executed(ref)
        /\ decisions[ref].verdict # "approve"
    BY <1>1, <1>2 DEF IInv, DecisionsMatchStatus
  <1>6. \A t \in Sessions : calls'[t] = calls[t] \/ calls'[t].pc = "idle"
    BY DEF RecordRejection, RecordApproval, NoCall, IInv, TypeOK
  <1>7. OneLiveVersion'
    BY <1>1, <1>2, <1>3 DEF IInv, OneLiveVersion, Exists
  <1>8. DecisionsMatchStatus'
    BY <1>1, <1>3, <1>4, <1>5 DEF IInv, DecisionsMatchStatus, Executed
  <1>9. DecidersAreOthers'
    <2>1. proposals[ref].requester # call.actor
      BY DEF RecordRejection, RecordApproval, IsDecidable
    <2> QED
      BY <1>3, <2>1 DEF IInv, DecidersAreOthers
  <1>10. DecisionsPrecedeCalls'
    <2>1. decisions'[ref].at <= clock'
      BY <1>1, <1>3, <1>4 DEF IInv, DecisionsPrecedeCalls
    <2>2. nonces'[ref].expires <= proposals'[ref].expires
      <3>1. NoNonce.expires <= proposals[ref].expires
        BY <1>2 DEF NoNonce, Proposal
      <3> QED
        BY <1>3, <1>5, <3>1
    <2>3. \A t \in Sessions : calls[t].pc \in {"execute", "execute_txn", "recover"} =>
             calls[t].ref \in Refs /\ calls[t].ref # ref
      BY <1>5, CallKinds DEF IInv, DecisionsPrecedeCalls, TypeOK, ExecuteCall
    <2> QED
      BY <1>3, <1>4, <1>6, <2>1, <2>2, <2>3 DEF IInv, DecisionsPrecedeCalls
  <1>11. ExactlyOnce'
    <2>1. \A r \in Refs : nonces'[r].used <=> Executed(r)
      BY <1>3, <1>5 DEF IInv, ExactlyOnce, NoNonce
    <2> QED
      BY <1>4, <2>1 DEF IInv, ExactlyOnce, Executed
  <1>12. SeparationOfDuties'
    BY <1>3, <1>4, <1>5 DEF IInv, SeparationOfDuties, Executed
  <1>13. ExecutedInTime'
    BY <1>3, <1>4, <1>5 DEF IInv, ExecutedInTime, Executed
  <1> QED
    BY <1>7, <1>8, <1>9, <1>10, <1>11, <1>12, <1>13 DEF IInv

LEMMA ExecuteCommitIInv ==
    ASSUME IInv, TypeOK', NEW s \in Sessions, ExecuteCommit(s)
    PROVE  IInv'
  <1>. DEFINE call == calls[s]
              ref == call.ref
  <1>1. ref \in Refs /\ call.pc = "execute_txn" /\ call.at \in Nat
    BY CallKinds DEF IInv, TypeOK, ExecuteCommit, ExecuteCall
  <1>2. /\ proposals[ref].status = "approved"
        /\ decisions[ref].verdict = "approve"
        /\ decisions[ref].approver = call.actor
        /\ ~Executed(ref)
        /\ nonces[ref].expires > call.at
    BY DEF ExecuteCommit, IsBound, ClaimsNonce
  <1>3. nonces[ref] \in Nonce
    BY <1>1, NullAssumption, CallKinds
       DEF ExecuteCommit, ClaimsNonce, IInv, TypeOK, NoNonce, Grant, ExecuteCall
  <1>4. /\ \A r \in Refs : r # ref =>
             executions'[r] = executions[r] /\ nonces'[r] = nonces[r] /\ writes'[r] = writes[r]
        /\ executions'[ref].status = "succeeded"
        /\ executions'[ref].actor = call.actor
        /\ executions'[ref].at = call.at
        /\ nonces'[ref].used = TRUE
        /\ nonces'[ref].expires = nonces[ref].expires
        /\ writes'[ref] = writes[ref] + 1
        /\ audit' = audit \cup {ref}
    BY <1>1, <1>3 DEF ExecuteCommit, IInv, TypeOK, Nonce
  <1>5. UNCHANGED <<proposals, decisions, clock>>
    BY DEF ExecuteCommit
  <1>6. \A t \in Sessions : calls'[t] = calls[t] \/ calls'[t].pc = "idle"
    BY DEF ExecuteCommit, NoCall, IInv, TypeOK
  <1>7. OneLiveVersion'
    BY <1>5 DEF IInv, OneLiveVersion, Exists
  <1>8. DecisionsMatchStatus'
    BY <1>2, <1>4, <1>5 DEF IInv, DecisionsMatchStatus, Executed
  <1>9. DecidersAreOthers'
    BY <1>5 DEF IInv, DecidersAreOthers
  <1>10. DecisionsPrecedeCalls'
    BY <1>4, <1>5, <1>6 DEF IInv, DecisionsPrecedeCalls
  <1>11. ExactlyOnce'
    <2>1. writes[ref] = 0
      BY <1>1, <1>2 DEF IInv, ExactlyOnce
    <2> QED
      BY <1>1, <1>2, <1>4, <2>1 DEF IInv, ExactlyOnce, Executed
  <1>12. SeparationOfDuties'
    <2>1. decisions[ref].approver # proposals[ref].requester
      BY <1>1, <1>2 DEF IInv, DecidersAreOthers
    <2> QED
      BY <1>2, <1>4, <1>5, <2>1 DEF IInv, SeparationOfDuties, Executed
  <1>13. ExecutedInTime'
    <2>1. /\ decisions[ref].at <= call.at
          /\ nonces[ref].expires <= proposals[ref].expires
      BY <1>1 DEF IInv, DecisionsPrecedeCalls
    <2>2. call.at < nonces[ref].expires
      BY <1>1, <1>2, <1>3 DEF Nonce
    <2> QED
      BY <1>4, <1>5, <2>1, <2>2 DEF IInv, ExecutedInTime, Executed
  <1> QED
    BY <1>7, <1>8, <1>9, <1>10, <1>11, <1>12, <1>13 DEF IInv

LEMMA NextIInv == IInv /\ [Next]_vars => IInv'
  <1>. SUFFICES ASSUME IInv, [Next]_vars
                PROVE  IInv'
    OBVIOUS
  <1>1. TypeOK'
    BY NextTypeOK DEF IInv
  <1>2. CASE UNCHANGED vars
    BY <1>1, <1>2, QuietIInv DEF vars, tables, IInv, DecisionsPrecedeCalls
  <1>3. CASE Tick
    <2>1. UNCHANGED <<tables, writes, calls>> /\ clock <= clock'
      BY <1>3 DEF Tick, history, IInv, TypeOK
    <2>2. DecisionsPrecedeCalls'
      <3>1. clock \in Nat /\ clock' \in Nat
        BY <1>1 DEF IInv, TypeOK
      <3>2. \A r \in Refs : decisions[r].at \in Nat
        BY DEF IInv, TypeOK, Decision, NoDecision
      <3>3. \A t \in Sessions : calls[t].pc \in {"reject_txn", "approve_txn"} => calls[t].at \in Nat
        BY CallKinds DEF IInv, TypeOK, RejectCall, ApproveCall
      <3> QED
        BY <2>1, <3>1, <3>2, <3>3 DEF IInv, DecisionsPrecedeCalls, tables
    <2> QED
      BY <1>1, <2>1, <2>2, QuietIInv DEF IInv
  <1>4. ASSUME NEW s \in Sessions, NewCall(s)
        PROVE  IInv'
    <2>1. ASSUME NEW actor \in Analysts, NEW c \in Commands, NEW key \in Keys,
                 NEW revises \in Refs \cup {NoRef}, CallPropose(s, actor, c, key, revises)
          PROVE  IInv'
      BY <1>1, <2>1, QuietCall DEF CallPropose, history
    <2>2. ASSUME NEW actor \in Approvers, NEW ref \in Refs, CallReject(s, actor, ref)
          PROVE  IInv'
      BY <1>1, <2>2, QuietCall DEF CallReject, history
    <2>3. ASSUME NEW actor \in Approvers, NEW ref \in Refs, NEW nonce \in Nonces,
                 CallApprove(s, actor, ref, nonce)
          PROVE  IInv'
      BY <1>1, <2>3, QuietCall DEF CallApprove, history
    <2>4. ASSUME NEW actor \in Approvers, NEW g \in grants, ExecuteReplay(s, actor, g)
          PROVE  IInv'
      BY <1>1, <2>4, QuietCall DEF ExecuteReplay, Return, NoCall, tables
    <2>5. ASSUME NEW actor \in Approvers, NEW g \in grants, CallExecute(s, actor, g)
          PROVE  IInv'
      BY <1>1, <2>5, QuietCall DEF CallExecute, MayExecute, history
    <2> QED
      BY <1>4, <2>1, <2>2, <2>3, <2>4, <2>5 DEF NewCall
  <1>5. ASSUME NEW s \in Sessions, ProposeStep(s)
        PROVE  IInv'
    <2>1. CASE ProposeReplay(s)
      BY <1>1, <2>1, QuietCall DEF ProposeReplay, NoCall, tables
    <2>2. CASE ProposeMiss(s)
      <3>1. calls[s] \in ProposeCall
        BY <2>2, CallKinds DEF ProposeMiss, IInv, TypeOK
      <3>2. [calls[s] EXCEPT !.pc = "insert"].pc = "insert"
        BY <3>1 DEF ProposeCall
      <3>3. calls' = [calls EXCEPT ![s] = [calls[s] EXCEPT !.pc = "insert"]]
        BY <2>2 DEF ProposeMiss
      <3> QED
        BY <1>1, <2>2, <3>2, <3>3, QuietCall DEF ProposeMiss, history
    <2>3. ASSUME NEW ref \in Refs, ProposeInsert(s, ref)
          PROVE  IInv'
      BY <1>1, <2>3, ProposeInsertIInv
    <2> QED
      BY <1>5, <2>1, <2>2, <2>3 DEF ProposeStep
  <1>6. ASSUME NEW s \in Sessions, DecideStep(s)
        PROVE  IInv'
    <2>1. CASE BeginDecision(s)
      <3>. DEFINE step == IF calls[s].pc = "reject" THEN "reject_txn" ELSE "approve_txn"
                  call == [calls[s] EXCEPT !.at = clock, !.pc = step]
      <3>1. calls[s] \in RejectCall \cup ApproveCall
        BY <2>1, CallKinds DEF BeginDecision, IInv, TypeOK
      <3>2. /\ calls' = [calls EXCEPT ![s] = call]
            /\ call.pc = step /\ call.at = clock
        BY <2>1, <3>1 DEF BeginDecision, RejectCall, ApproveCall, IInv, TypeOK
      <3>3. clock <= clock
        BY DEF IInv, TypeOK
      <3>. HIDE DEF call
      <3> QED
        BY <1>1, <2>1, <3>2, <3>3, QuietCall DEF BeginDecision, history
    <2>2. CASE RecordRejection(s) \/ RecordApproval(s)
      BY <1>1, <2>2, RecordDecisionIInv
    <2> QED
      BY <1>6, <2>1, <2>2 DEF DecideStep
  <1>7. ASSUME NEW s \in Sessions, ExecuteStep(s)
        PROVE  IInv'
    <2>1. CASE ExecuteFound(s) \/ ExecuteRecover(s)
      BY <1>1, <2>1, QuietCall DEF ExecuteFound, ExecuteRecover, Return, NoCall, tables
    <2>2. CASE ExecuteMiss(s)
      <3>. DEFINE call == [calls[s] EXCEPT !.pc = "execute_txn", !.at = clock]
      <3>1. calls[s] \in ExecuteCall
        BY <2>2, CallKinds DEF ExecuteMiss, IInv, TypeOK
      <3>2. /\ calls' = [calls EXCEPT ![s] = call]
            /\ call.pc = "execute_txn" /\ call.at = clock /\ call.ref = calls[s].ref
        BY <2>2, <3>1 DEF ExecuteMiss, ExecuteCall, IInv, TypeOK
      <3>3. decisions[call.ref].verdict = "approve"
        BY <2>2, <3>2 DEF ExecuteMiss, IInv, DecisionsPrecedeCalls
      <3>4. decisions[call.ref].at <= call.at
        BY <3>1, <3>2 DEF IInv, DecisionsPrecedeCalls, ExecuteCall
      <3>. HIDE DEF call
      <3> QED
        BY <1>1, <2>2, <3>2, <3>3, <3>4, QuietCall DEF ExecuteMiss, history
    <2>3. CASE ExecuteDuplicate(s)
      <3>. DEFINE call == [calls[s] EXCEPT !.pc = "recover"]
      <3>1. calls[s] \in ExecuteCall
        BY <2>3, CallKinds DEF ExecuteDuplicate, IInv, TypeOK
      <3>2. /\ calls' = [calls EXCEPT ![s] = call]
            /\ call.pc = "recover" /\ call.ref = calls[s].ref
        BY <2>3, <3>1 DEF ExecuteDuplicate, ExecuteCall, IInv, TypeOK
      <3>3. decisions[call.ref].verdict = "approve"
        BY <2>3, <3>2 DEF ExecuteDuplicate, IsBound
      <3>. HIDE DEF call
      <3> QED
        BY <1>1, <2>3, <3>2, <3>3, QuietCall DEF ExecuteDuplicate, history
    <2>4. CASE ExecuteCommit(s)
      BY <1>1, <2>4, ExecuteCommitIInv
    <2> QED
      BY <1>7, <2>1, <2>2, <2>3, <2>4 DEF ExecuteStep
  <1>8. ASSUME NEW s \in Sessions, Abort(s)
        PROVE  IInv'
    BY <1>1, <1>8, QuietCall DEF Abort, NoCall, history
  <1> QED
    BY <1>2, <1>3, <1>4, <1>5, <1>6, <1>7, <1>8 DEF Next

LEMMA Invariance == Spec => []IInv
  BY InitIInv, NextIInv, PTL DEF Spec

\* The mutation of a proposal is committed exactly once, together with its
\* receipt, its nonce and its audit event, in any interleaving of any number
\* of concurrent, repeated, lost and crashing calls.
THEOREM ExactlyOnceAlways == Spec => []ExactlyOnce
  BY Invariance, PTL DEF IInv

\* No execution without the approval of a second person, on the proposal as
\* it was approved.
THEOREM SeparationOfDutiesAlways == Spec => []SeparationOfDuties
  BY Invariance, PTL DEF IInv

\* By the database's own timestamps every execution follows its approval and
\* lies in the grant's window, and that in the proposal's.
THEOREM ExecutedInTimeAlways == Spec => []ExecutedInTime
  BY Invariance, PTL DEF IInv

\* Only the latest version of a proposal is ever pending, approved or
\* rejected.
THEOREM OneLiveVersionAlways == Spec => []OneLiveVersion
  BY Invariance, PTL DEF IInv

------------------------------------------------------------------------------
(* The refinement of OperationLifecycle, and the properties that speak of   *)
(* steps and of what callers were told.                                      *)

-----------------------------------------------------------------------------
(* What the steps that write do to the rows, and that no others write.       *)

\* Steps that leave proposals, decisions, nonces, executions and the business
\* tables alone.
rows == <<proposals, decisions, nonces, executions, db>>

LEMMA WritingSteps ==
    ASSUME [Next]_vars
    PROVE  \/ UNCHANGED rows
           \/ \E s \in Sessions :
                \/ \E ref \in Refs : ProposeInsert(s, ref)
                \/ RecordRejection(s) \/ RecordApproval(s)
                \/ ExecuteCommit(s)
  <1>1. CASE UNCHANGED vars
    BY <1>1 DEF vars, rows
  <1>2. CASE Tick
    BY <1>2 DEF Tick, tables, rows
  <1>3. ASSUME NEW s \in Sessions, NewCall(s) \/ Abort(s)
        PROVE  UNCHANGED rows
    BY <1>3 DEF NewCall, Abort, CallPropose, CallReject, CallApprove, ExecuteReplay, CallExecute,
                Return, tables, rows
  <1>4. ASSUME NEW s \in Sessions, ProposeStep(s), \A ref \in Refs : ~ProposeInsert(s, ref)
        PROVE  UNCHANGED rows
    BY <1>4 DEF ProposeStep, ProposeReplay, ProposeMiss, tables, rows
  <1>5. ASSUME NEW s \in Sessions, BeginDecision(s)
        PROVE  UNCHANGED rows
    BY <1>5 DEF BeginDecision, tables, rows
  <1>6. ASSUME NEW s \in Sessions, ExecuteStep(s), ~ExecuteCommit(s)
        PROVE  UNCHANGED rows
    BY <1>6 DEF ExecuteStep, ExecuteFound, ExecuteMiss, ExecuteDuplicate, ExecuteRecover,
                Return, tables, rows
  <1> QED
    BY <1>1, <1>2, <1>3, <1>4, <1>5, <1>6 DEF Next, DecideStep

\* A new row, and the pending version it takes the place of.
LEMMA InsertedRows ==
    ASSUME IInv, NEW s \in Sessions, NEW ref \in Refs, ProposeInsert(s, ref),
           NEW call, call = calls[s]
    PROVE  /\ call \in ProposeCall
           /\ proposals[ref].status = "absent"
           /\ proposals'[ref] = NewRow(call)
           /\ IsKeyFree(call)
           /\ call.revises # NoRef =>
                /\ call.revises \in Refs \ {ref}
                /\ proposals[call.revises].status = "pending"
                /\ proposals[call.revises].requester = call.actor
                /\ proposals'[call.revises].status = "superseded"
           /\ \A r \in Refs \ {ref} :
                /\ r # call.revises => proposals'[r] = proposals[r]
                /\ proposals'[r].requester = proposals[r].requester
                /\ proposals'[r].command = proposals[r].command
                /\ proposals'[r].key = proposals[r].key
           /\ UNCHANGED <<decisions, nonces, executions, db>>
  <1>1. call \in ProposeCall
    BY CallKinds DEF IInv, TypeOK, ProposeInsert
  <1>2. /\ proposals' = InsertedOver(call, ref) /\ IsKeyFree(call)
        /\ UNCHANGED <<decisions, nonces, executions, db>>
        /\ call.revises # NoRef => proposals[call.revises].requester = call.actor
    BY DEF ProposeInsert, CanInsertAs
  <1>3. /\ proposals[ref].status = "absent"
        /\ call.revises # NoRef => /\ call.revises \in Refs
                                   /\ proposals[call.revises].status = "pending"
    BY InsertIsFresh DEF Exists
  <1>4. \A r \in Refs : proposals[r] \in Proposal \cup {NoProposal}
    BY DEF IInv, TypeOK
  <1>5. \A r \in Refs : proposals'[r] = IF r = ref THEN NewRow(call)
                                      ELSE IF r = call.revises
                                           THEN [proposals[r] EXCEPT !.status = "superseded"]
                                           ELSE proposals[r]
    BY <1>2 DEF InsertedOver
  <1>6. ASSUME NEW r \in Refs, NEW p, p = [proposals[r] EXCEPT !.status = "superseded"]
        PROVE  /\ p.status = "superseded" /\ p.requester = proposals[r].requester
               /\ p.command = proposals[r].command /\ p.key = proposals[r].key
    <2>1. CASE proposals[r] \in Proposal
      BY <1>6, <2>1 DEF Proposal
    <2>2. CASE proposals[r] = NoProposal
      BY <1>6, <2>2 DEF NoProposal
    <2> QED
      BY <1>4, <2>1, <2>2
  <1>7. ASSUME call.revises # NoRef
        PROVE  /\ call.revises \in Refs \ {ref}
               /\ proposals'[call.revises].status = "superseded"
    <2>1. call.revises \in Refs \ {ref}
      BY <1>3, <1>7
    <2> QED
      BY <1>5, <1>6, <2>1, ZenonT(60)
  <1>8. ASSUME NEW r \in Refs \ {ref}
        PROVE  /\ r # call.revises => proposals'[r] = proposals[r]
               /\ proposals'[r].requester = proposals[r].requester
               /\ proposals'[r].command = proposals[r].command
               /\ proposals'[r].key = proposals[r].key
    BY <1>5, <1>6
  <1>9. proposals'[ref] = NewRow(call)
    BY <1>5
  <1> QED
    BY <1>1, <1>2, <1>3, <1>7, <1>8, <1>9

\* A pending row, its decision and, when approved, its nonce.
LEMMA SettledRows ==
    ASSUME IInv, NEW s \in Sessions, RecordRejection(s) \/ RecordApproval(s),
           NEW call, call = calls[s], NEW ref, ref = call.ref
    PROVE  /\ call \in RejectCall \cup ApproveCall
           /\ ref \in Refs
           /\ proposals[ref].status = "pending" /\ proposals[ref].requester # call.actor
           /\ proposals'[ref].status \in {"approved", "rejected"}
           /\ proposals'[ref].requester = proposals[ref].requester
           /\ proposals'[ref].command = proposals[ref].command
           /\ proposals'[ref].key = proposals[ref].key
           /\ decisions'[ref].approver = call.actor
           /\ \A r \in Refs \ {ref} : /\ proposals'[r] = proposals[r]
                                      /\ decisions'[r] = decisions[r]
                                      /\ nonces'[r] = nonces[r]
           /\ RecordApproval(s) => /\ call \in ApproveCall
                                   /\ decisions'[ref].verdict = "approve"
                                   /\ nonces'[ref].nonce = call.grant.nonce
           /\ UNCHANGED <<executions, db>>
  <1>1. /\ call \in RejectCall \cup ApproveCall
        /\ RecordApproval(s) => call \in ApproveCall
    BY CallKinds DEF IInv, TypeOK, RecordRejection, RecordApproval
  <1>2. ref \in Refs
    BY <1>1 DEF RejectCall, ApproveCall
  <1>3. /\ proposals \in [Refs -> Proposal \cup {NoProposal}]
        /\ decisions \in [Refs -> Decision \cup {NoDecision}]
        /\ nonces \in [Refs -> Nonce \cup {NoNonce}]
    BY DEF IInv, TypeOK
  <1>4. proposals[ref].status = "pending" /\ proposals[ref].requester # call.actor
    BY DEF RecordRejection, RecordApproval, IsDecidable
  <1>5. PICK verdict \in {"approved", "rejected"} :
           proposals' = [proposals EXCEPT ![ref].status = verdict]
    BY DEF RecordRejection, RecordApproval
  <1>6. /\ proposals'[ref].status = verdict
        /\ proposals'[ref].requester = proposals[ref].requester
        /\ proposals'[ref].command = proposals[ref].command
        /\ proposals'[ref].key = proposals[ref].key
        /\ \A r \in Refs \ {ref} : proposals'[r] = proposals[r]
    BY <1>2, <1>3, <1>5 DEF Proposal, NoProposal
  <1>7. /\ decisions'[ref].approver = call.actor
        /\ RecordApproval(s) => decisions'[ref].verdict = "approve"
        /\ \A r \in Refs \ {ref} : decisions'[r] = decisions[r]
    BY <1>2, <1>3 DEF RecordRejection, RecordApproval
  <1>8. /\ RecordApproval(s) => nonces'[ref].nonce = call.grant.nonce
        /\ \A r \in Refs \ {ref} : nonces'[r] = nonces[r]
    BY <1>2, <1>3 DEF RecordRejection, RecordApproval
  <1>9. UNCHANGED <<executions, db>>
    BY DEF RecordRejection, RecordApproval
  <1> QED
    BY <1>1, <1>2, <1>4, <1>5, <1>6, <1>7, <1>8, <1>9

\* An approved row gets its execution, and the business tables its effect.
LEMMA CommittedRows ==
    ASSUME IInv, NEW s \in Sessions, ExecuteCommit(s), NEW ref, ref = calls[s].ref
    PROVE  /\ ref \in Refs
           /\ proposals[ref].status = "approved" /\ proposals[ref].command \in Commands
           /\ ~Executed(ref) /\ Executed(ref)'
           /\ \A r \in Refs \ {ref} : executions'[r] = executions[r] /\ nonces'[r] = nonces[r]
           /\ executions'[ref].before = PreviewVersion(proposals[ref].command)
           /\ executions'[ref].after = PreviewVersion(proposals[ref].command) + 1
           /\ CanApply(ref, proposals[ref].command, db)
           /\ db' = Apply(ref, proposals[ref].command, db)
           /\ UNCHANGED <<proposals, decisions>>
  <1>1. calls[s] \in ExecuteCall
    BY CallKinds DEF IInv, TypeOK, ExecuteCommit
  <1>2. ref \in Refs
    BY <1>1 DEF ExecuteCall
  <1>3. proposals[ref].status = "approved"
    BY DEF ExecuteCommit, IsBound
  <1>4. proposals[ref].command \in Commands
    BY <1>2, <1>3 DEF IInv, TypeOK, Proposal, NoProposal
  <1>5. /\ executions \in [Refs -> Execution \cup {NoExecution}]
        /\ nonces \in [Refs -> Nonce \cup {NoNonce}]
    BY DEF IInv, TypeOK
  <1>6. /\ \A r \in Refs \ {ref} : executions'[r] = executions[r] /\ nonces'[r] = nonces[r]
        /\ executions'[ref].status = "succeeded"
        /\ executions'[ref].before = PreviewVersion(proposals[ref].command)
        /\ executions'[ref].after = PreviewVersion(proposals[ref].command) + 1
    BY <1>2, <1>5 DEF ExecuteCommit
  <1>7. /\ ~Executed(ref) /\ CanApply(ref, proposals[ref].command, db)
        /\ db' = Apply(ref, proposals[ref].command, db)
        /\ UNCHANGED <<proposals, decisions>>
    BY DEF ExecuteCommit
  <1> QED
    BY <1>2, <1>3, <1>4, <1>6, <1>7 DEF Executed

-----------------------------------------------------------------------------
(* Steps *)

\* The step property of SettledIsFinal.
SettledStep ==
    \A r \in Refs :
        /\ proposals[r].status \in {"approved", "rejected", "superseded"} =>
             proposals'[r] = proposals[r] /\ decisions'[r] = decisions[r]
        /\ Executed(r) => executions'[r] = executions[r] /\ nonces'[r] = nonces[r]
        /\ \A q \in Refs : Executed(r)' /\ ~Executed(r) /\ Executed(q)' /\ ~Executed(q)
                              => r = q

LEMMA SettledSteps == IInv /\ [Next]_vars => SettledStep
  <1>. SUFFICES ASSUME IInv, [Next]_vars
                PROVE  SettledStep
    OBVIOUS
  <1>0. \A r \in Refs : Executed(r) => proposals[r].status = "approved"
    BY DEF IInv, SeparationOfDuties
  <1>1. CASE UNCHANGED rows
    BY <1>1 DEF rows, SettledStep, Executed
  <1>2. ASSUME NEW s \in Sessions, NEW ref \in Refs, ProposeInsert(s, ref)
        PROVE  SettledStep
    <2>. DEFINE old == calls[s].revises
    <2>1. /\ proposals[ref].status = "absent"
          /\ old # NoRef => proposals[old].status = "pending"
          /\ \A r \in Refs \ {ref} : r # old => proposals'[r] = proposals[r]
          /\ UNCHANGED <<decisions, nonces, executions>>
      BY <1>2, InsertedRows
    <2>2. ASSUME NEW r \in Refs, proposals[r].status \in {"approved", "rejected", "superseded"}
          PROVE  proposals'[r] = proposals[r]
      BY <2>1, <2>2, NoRefAssumption
    <2> QED
      BY <2>1, <2>2 DEF SettledStep, Executed
  <1>3. ASSUME NEW s \in Sessions, RecordRejection(s) \/ RecordApproval(s)
        PROVE  SettledStep
    BY <1>0, <1>3, SettledRows DEF SettledStep, Executed
  <1>4. ASSUME NEW s \in Sessions, ExecuteCommit(s)
        PROVE  SettledStep
    <2>. DEFINE ref == calls[s].ref
    <2>1. /\ ref \in Refs /\ ~Executed(ref)
          /\ \A r \in Refs \ {ref} : executions'[r] = executions[r] /\ nonces'[r] = nonces[r]
          /\ UNCHANGED <<proposals, decisions>>
      BY <1>4, CommittedRows
    <2> QED
      BY <2>1 DEF SettledStep, Executed
  <1> QED
    BY <1>1, <1>2, <1>3, <1>4, WritingSteps

\* What is settled stays settled, and an execution is for ever.
THEOREM SettledIsFinalAlways == Spec => SettledIsFinal
  <1>1. IInv /\ [Next]_vars => [SettledStep]_vars
    BY SettledSteps
  <1> QED
    BY <1>1, Invariance, PTL DEF Spec, SettledIsFinal, SettledStep

\* The step property of AppliesToShownVersion.
AppliedStep ==
    \A r \in Refs : Executed(r)' /\ ~Executed(r) =>
        LET c == proposals[r].command IN
        c.type \notin NewTargetTypes =>
            /\ db.tasks[c.task].version = executions'[r].before
            /\ db'.tasks[c.task].version = executions'[r].after

LEMMA AppliedSteps == IInv /\ [Next]_vars => AppliedStep
  <1>. SUFFICES ASSUME IInv, [Next]_vars, NEW r \in Refs, Executed(r)', ~Executed(r),
                       proposals[r].command.type \notin NewTargetTypes
                PROVE  /\ db.tasks[proposals[r].command.task].version = executions'[r].before
                       /\ db'.tasks[proposals[r].command.task].version = executions'[r].after
    BY DEF AppliedStep
  <1>1. PICK s \in Sessions : ExecuteCommit(s)
    BY WritingSteps, InsertedRows, SettledRows DEF rows, Executed
  <1>. DEFINE c == proposals[r].command
  <1>2. r = calls[s].ref
    BY <1>1, CommittedRows DEF Executed
  <1>3. /\ c \in OperationCommand /\ CanApply(r, c, db) /\ db' = Apply(r, c, db) /\ db \in Tables
        /\ executions'[r].before = PreviewVersion(c)
        /\ executions'[r].after = PreviewVersion(c) + 1
    BY <1>1, <1>2, CommittedRows, CommandsAssumption DEF IInv, TypeOK
  <1>. HIDE DEF c
  <1>4. TasksMove(r, c, db, db')
    BY <1>3, TaskEffect
  <1>5. db.tasks[c.task].version = c.version /\ db'.tasks[c.task].version = c.version + 1
    BY <1>4 DEF TasksMove, c
  <1>6. PreviewVersion(c) = c.version
    BY DEF PreviewVersion, c
  <1> QED
    BY <1>3, <1>5, <1>6 DEF c

\* An execution applies to the version the approver was shown.
THEOREM AppliesToShownVersionAlways == Spec => AppliesToShownVersion
  <1>1. IInv /\ [Next]_vars => [AppliedStep]_vars
    BY AppliedSteps
  <1> QED
    BY <1>1, Invariance, PTL DEF Spec, AppliesToShownVersion, AppliedStep

-----------------------------------------------------------------------------
(* What callers were told *)

\* Replays and recoveries return what the first execution returned.
THEOREM ReceiptsAgreeAlways == Spec => []ReceiptsAgree
  <1>1. Init => ReceiptsAgree
    BY DEF Init, ReceiptsAgree
  <1>2. IInv /\ IInv' /\ ReceiptsAgree /\ [Next]_vars => ReceiptsAgree'
    <2>. SUFFICES ASSUME IInv, IInv', ReceiptsAgree, [Next]_vars, NEW x \in receipts'
                  PROVE  x.execution = executions'[x.ref]
      BY DEF ReceiptsAgree
    <2>1. CASE x \in receipts
      <3>1. x.ref \in Refs /\ x.execution.status = "succeeded"
        BY <2>1 DEF IInv, TypeOK, Execution
      <3>2. x.execution = executions[x.ref]
        BY <2>1 DEF ReceiptsAgree
      <3>3. Executed(x.ref)
        BY <3>1, <3>2 DEF Executed
      <3> QED
        BY <3>1, <3>2, <3>3, SettledSteps DEF SettledStep
    <2>2. ASSUME NEW s \in Sessions, NEW ref, Return(s, ref), x \notin receipts
          PROVE  x.execution = executions'[x.ref]
      BY <2>2 DEF Return, tables
    <2>3. ASSUME NEW s \in Sessions, ExecuteCommit(s), x \notin receipts
          PROVE  x.execution = executions'[x.ref]
      <3>1. calls[s].ref \in Refs /\ executions \in [Refs -> Execution \cup {NoExecution}]
        BY <2>3, CommittedRows DEF IInv, TypeOK
      <3> QED
        BY <2>3, <3>1 DEF ExecuteCommit
    <2>4. CASE x \notin receipts
      <3>1. receipts' # receipts
        BY <2>4
      <3>2. ~UNCHANGED vars /\ ~UNCHANGED history /\ ~UNCHANGED receipts
        BY <3>1 DEF vars, history
      <3>3. PICK s \in Sessions : \/ ExecuteCommit(s)
                                  \/ \E ref \in Refs : Return(s, ref)
        <4>1. ~Tick
          BY <3>2 DEF Tick
        <4>2. PICK s \in Sessions :
                 NewCall(s) \/ ProposeStep(s) \/ DecideStep(s) \/ ExecuteStep(s) \/ Abort(s)
          BY <3>2, <4>1 DEF Next
        <4>3. ~ProposeStep(s) /\ ~DecideStep(s) /\ ~Abort(s)
          BY <3>2 DEF ProposeStep, ProposeReplay, ProposeMiss, ProposeInsert, DecideStep,
                      BeginDecision, RecordRejection, RecordApproval, Abort, history
        <4>5. CASE NewCall(s)
          <5>1. PICK actor \in Approvers, g \in grants : ExecuteReplay(s, actor, g)
            BY <3>2, <4>5 DEF NewCall, CallPropose, CallReject, CallApprove, CallExecute, history
          <5>2. g.ref \in Refs
            BY DEF IInv, TypeOK, Grant
          <5> QED
            BY <5>1, <5>2 DEF ExecuteReplay
        <4>6. CASE ExecuteStep(s)
          <5>1. ExecuteCommit(s) \/ ExecuteFound(s) \/ ExecuteRecover(s)
            BY <3>2, <4>6 DEF ExecuteStep, ExecuteMiss, ExecuteDuplicate, history
          <5>2. ExecuteFound(s) \/ ExecuteRecover(s) => calls[s].ref \in Refs
            BY CallKinds DEF ExecuteFound, ExecuteRecover, IInv, TypeOK, ExecuteCall
          <5> QED
            BY <5>1, <5>2 DEF ExecuteFound, ExecuteRecover
        <4> QED
          BY <4>2, <4>3, <4>5, <4>6
      <3> QED
        BY <2>2, <2>3, <2>4, <3>3
    <2> QED
      BY <2>1, <2>4
  <1> QED
    BY <1>1, <1>2, Invariance, PTL DEF Spec

\* The strengthening of KeysNameOneProposal: a row belongs to the key it was
\* made with, no two rows to one requester's key, and an answer names a row of
\* the key it was asked for.
KeysAreUnique ==
    /\ \A q, r \in Refs : /\ Exists(q) /\ Exists(r)
                          /\ proposals[q].requester = proposals[r].requester
                          /\ proposals[q].key = proposals[r].key
                          => q = r
    /\ \A x \in acks : /\ Exists(x.ref)
                       /\ proposals[x.ref].requester = x.actor
                       /\ proposals[x.ref].key = x.key

\* Answers to a propose call are added with the row they name.
LEMMA NewAcks ==
    ASSUME IInv, [Next]_vars, NEW x \in acks', x \notin acks
    PROVE  \/ /\ UNCHANGED rows /\ x.ref \in Refs /\ Exists(x.ref)
              /\ proposals[x.ref].requester = x.actor /\ proposals[x.ref].key = x.key
           \/ \E s \in Sessions, ref \in Refs :
                /\ ProposeInsert(s, ref)
                /\ x = [actor |-> calls[s].actor, key |-> calls[s].key, ref |-> ref]
  <1>1. ~UNCHANGED acks
    OBVIOUS
  <1>2. ~UNCHANGED vars /\ ~UNCHANGED history
    BY <1>1 DEF vars, history
  <1>3. ~Tick
    BY <1>2 DEF Tick
  <1>4. PICK s \in Sessions :
           NewCall(s) \/ ProposeStep(s) \/ DecideStep(s) \/ ExecuteStep(s) \/ Abort(s)
    BY <1>2, <1>3 DEF Next
  <1>5. ~NewCall(s) /\ ~DecideStep(s) /\ ~ExecuteStep(s) /\ ~Abort(s)
    BY <1>1, <1>2 DEF NewCall, CallPropose, CallReject, CallApprove, ExecuteReplay, CallExecute,
                      Return, DecideStep, BeginDecision, RecordRejection, RecordApproval,
                      ExecuteStep, ExecuteFound, ExecuteMiss, ExecuteDuplicate, ExecuteRecover,
                      ExecuteCommit, Abort, history
  <1>6. CASE ProposeReplay(s)
    <2>1. PICK r \in KeyedBy(calls[s].actor, calls[s].key) :
             acks' = acks \cup {[actor |-> calls[s].actor, key |-> calls[s].key, ref |-> r]}
      BY <1>6 DEF ProposeReplay
    <2>2. x = [actor |-> calls[s].actor, key |-> calls[s].key, ref |-> r]
      BY <2>1
    <2> QED
      BY <1>6, <2>2 DEF ProposeReplay, KeyedBy, rows, tables
  <1>7. ASSUME NEW ref \in Refs, ProposeInsert(s, ref)
        PROVE  x = [actor |-> calls[s].actor, key |-> calls[s].key, ref |-> ref]
    BY <1>7 DEF ProposeInsert
  <1> QED
    BY <1>2, <1>4, <1>5, <1>6, <1>7 DEF ProposeStep, ProposeMiss

\* A repeated propose call gets the reference of the first, however the calls
\* interleave.
THEOREM KeysNameOneProposalAlways == Spec => []KeysNameOneProposal
  <1>1. Init => KeysAreUnique
    BY DEF Init, KeysAreUnique, Exists, NoProposal
  <1>2. IInv /\ KeysAreUnique /\ [Next]_vars => KeysAreUnique'
    <2>. SUFFICES ASSUME IInv, KeysAreUnique, [Next]_vars
                  PROVE  KeysAreUnique'
      OBVIOUS
    <2>1. \A x \in acks : x.ref \in Refs
      BY DEF IInv, TypeOK
    <2>2. ASSUME UNCHANGED rows
          PROVE  KeysAreUnique'
      <3>1. \A x \in acks' : /\ Exists(x.ref) /\ proposals[x.ref].requester = x.actor
                             /\ proposals[x.ref].key = x.key
        <4>. SUFFICES ASSUME NEW x \in acks', x \notin acks
                      PROVE  /\ Exists(x.ref) /\ proposals[x.ref].requester = x.actor
                             /\ proposals[x.ref].key = x.key
          BY DEF KeysAreUnique
        <4>1. ASSUME NEW s \in Sessions, NEW ref \in Refs, ProposeInsert(s, ref)
              PROVE  FALSE
          <5>1. proposals[ref].status = "absent" /\ proposals'[ref] = NewRow(calls[s])
            BY <4>1, InsertedRows
          <5>2. proposals'[ref].status = "pending"
            BY <5>1 DEF NewRow
          <5> QED
            BY <2>2, <5>1, <5>2 DEF rows
        <4> QED
          BY <4>1, NewAcks
      <3> QED
        BY <2>2, <3>1 DEF KeysAreUnique, rows, Exists
    <2>3. ASSUME NEW s \in Sessions, NEW ref \in Refs, ProposeInsert(s, ref)
          PROVE  KeysAreUnique'
      <3>. DEFINE call == calls[s]
      <3>1. /\ proposals[ref].status = "absent" /\ proposals'[ref] = NewRow(call) /\ IsKeyFree(call)
            /\ \A r \in Refs \ {ref} : /\ proposals'[r].requester = proposals[r].requester
                                       /\ proposals'[r].key = proposals[r].key
        BY <2>3, InsertedRows
      <3>2. ASSUME NEW r \in Refs \ {ref}
            PROVE  Exists(r)' <=> Exists(r)
        <4>1. CASE r = call.revises
          <5>1. proposals[r].status = "pending" /\ proposals'[r].status = "superseded"
            BY <2>3, <4>1, InsertedRows, NoRefAssumption
          <5> QED
            BY <5>1 DEF Exists
        <4>2. CASE r # call.revises
          <5>1. proposals'[r] = proposals[r]
            BY <2>3, <4>2, InsertedRows
          <5> QED
            BY <5>1 DEF Exists
        <4> QED
          BY <4>1, <4>2
      <3>3. /\ proposals'[ref].requester = call.actor /\ proposals'[ref].key = call.key
            /\ Exists(ref)' /\ ~Exists(ref)
        BY <3>1 DEF NewRow, Exists
      <3>4. \A r \in Refs : Exists(r) => ~(/\ proposals[r].requester = call.actor
                                          /\ proposals[r].key = call.key)
        BY <3>1 DEF IsKeyFree, KeyedBy
      <3>. HIDE DEF call
      <3>5. \A q, r \in Refs : /\ Exists(q)' /\ Exists(r)'
                               /\ proposals'[q].requester = proposals'[r].requester
                               /\ proposals'[q].key = proposals'[r].key
                              => q = r
        BY <3>1, <3>2, <3>3, <3>4 DEF KeysAreUnique
      <3>6. ASSUME NEW x \in acks'
            PROVE  /\ Exists(x.ref)' /\ proposals'[x.ref].requester = x.actor
                   /\ proposals'[x.ref].key = x.key
        <4>1. CASE x \in acks
          <5>1. x.ref \in Refs \ {ref}
            BY <2>1, <3>3, <4>1 DEF KeysAreUnique
          <5> QED
            BY <3>1, <3>2, <4>1, <5>1 DEF KeysAreUnique
        <4>2. CASE x \notin acks
          <5>1. x = [actor |-> call.actor, key |-> call.key, ref |-> ref]
            BY <2>3, <4>2 DEF ProposeInsert, call
          <5> QED
            BY <3>3, <5>1
        <4> QED
          BY <4>1, <4>2
      <3> QED
        BY <3>5, <3>6 DEF KeysAreUnique
    <2>4. ASSUME NEW s \in Sessions, RecordRejection(s) \/ RecordApproval(s)
          PROVE  KeysAreUnique'
      <3>1. \A r \in Refs : /\ proposals'[r].requester = proposals[r].requester
                            /\ proposals'[r].key = proposals[r].key
                            /\ Exists(r)' <=> Exists(r)
        BY <2>4, SettledRows DEF Exists
      <3>2. acks' = acks
        BY <2>4 DEF RecordRejection, RecordApproval, history
      <3>3. ASSUME NEW q \in Refs, NEW r \in Refs, Exists(q)', Exists(r)',
                   proposals'[q].requester = proposals'[r].requester,
                   proposals'[q].key = proposals'[r].key
            PROVE  q = r
        <4>1. /\ Exists(q) /\ Exists(r)
              /\ proposals[q].requester = proposals[r].requester
              /\ proposals[q].key = proposals[r].key
          BY <3>1, <3>3
        <4> QED
          BY <4>1 DEF KeysAreUnique
      <3>4. \A x \in acks' : /\ Exists(x.ref)' /\ proposals'[x.ref].requester = x.actor
                             /\ proposals'[x.ref].key = x.key
        BY <2>1, <3>1, <3>2 DEF KeysAreUnique
      <3> QED
        BY <3>3, <3>4 DEF KeysAreUnique
    <2>5. ASSUME NEW s \in Sessions, ExecuteCommit(s)
          PROVE  KeysAreUnique'
      BY <2>5 DEF ExecuteCommit, KeysAreUnique, Exists
    <2> QED
      BY <2>2, <2>3, <2>4, <2>5, WritingSteps
  <1>3. TypeOK /\ KeysAreUnique => KeysNameOneProposal
    BY DEF TypeOK, KeysAreUnique, KeysNameOneProposal
  <1> QED
    BY <1>1, <1>2, <1>3, Invariance, TypeCorrectness, PTL DEF Spec

\* The strengthening of GrantsAreUnique: a grant is in circulation only once
\* its approval is recorded, and one that is about to be recorded was signed
\* over the proposal as it is.
GrantsMatchApprovals ==
    /\ GrantsAreUnique
    /\ \A g \in grants : decisions[g.ref].verdict = "approve"
    /\ \A s \in Sessions :
         calls[s].pc \in {"approve", "approve_txn"} =>
           /\ Exists(calls[s].ref)
           /\ calls[s].grant.ref = calls[s].ref
           /\ calls[s].grant.command = proposals[calls[s].ref].command

\* Only an approving call carries a grant to be recorded: it is signed by
\* CallApprove and kept by BeginDecision.
LEMMA ApprovingCalls ==
    ASSUME IInv, [Next]_vars, NEW s \in Sessions, calls'[s].pc \in {"approve", "approve_txn"}
    PROVE  \/ /\ calls[s].pc \in {"approve", "approve_txn"}
              /\ calls'[s].ref = calls[s].ref /\ calls'[s].grant = calls[s].grant
           \/ /\ UNCHANGED rows
              /\ calls'[s].ref \in Refs /\ Exists(calls'[s].ref)
              /\ calls'[s].grant.ref = calls'[s].ref
              /\ calls'[s].grant.command = proposals[calls'[s].ref].command
  <1>0. calls \in [Sessions -> Call]
    BY DEF IInv, TypeOK
  <1>1. CASE calls'[s] = calls[s]
    BY <1>1
  <1>2. CASE calls'[s] # calls[s]
    <2>1. ~UNCHANGED vars /\ ~Tick
      BY <1>2 DEF vars, Tick
    <2>2. PICK t \in Sessions :
             NewCall(t) \/ ProposeStep(t) \/ DecideStep(t) \/ ExecuteStep(t) \/ Abort(t)
      BY <2>1, SMTT(30) DEF Next
    <2>3. \E call : calls' = [calls EXCEPT ![t] = call]
      BY <2>2 DEF NewCall, CallPropose, CallReject, CallApprove, ExecuteReplay, CallExecute,
                  Return, ProposeStep, ProposeReplay, ProposeMiss, ProposeInsert, DecideStep,
                  BeginDecision, RecordRejection, RecordApproval, ExecuteStep, ExecuteFound,
                  ExecuteMiss, ExecuteDuplicate, ExecuteRecover, ExecuteCommit, Abort
    <2>4. t = s
      BY <1>0, <1>2, <2>3
    <2>5. CASE NewCall(s)
      <3>1. PICK actor \in Approvers, ref \in Refs, nonce \in Nonces :
               CallApprove(s, actor, ref, nonce)
        BY <1>0, <2>5 DEF NewCall, CallPropose, CallReject, ExecuteReplay, CallExecute, Return, NoCall
      <3>2. /\ calls'[s].ref = ref
            /\ calls'[s].grant.ref = ref /\ calls'[s].grant.command = proposals[ref].command
        BY <1>0, <3>1 DEF CallApprove
      <3> QED
        BY <3>1, <3>2 DEF CallApprove, MayDecide, rows, tables
    <2>6. CASE BeginDecision(s)
      <3>1. calls[s].pc = "approve"
        <4>1. calls[s].pc = "reject" => calls'[s].pc = "reject_txn"
          BY <1>0, <2>6, CallKinds DEF BeginDecision, RejectCall
        <4> QED
          BY <2>6, <4>1 DEF BeginDecision
      <3>2. calls[s] \in ApproveCall
        BY <1>0, <3>1, CallKinds
      <3> QED
        BY <1>0, <2>6, <3>1, <3>2 DEF BeginDecision, ApproveCall
    <2>7. CASE ProposeMiss(s)
      <3>1. calls[s] \in ProposeCall
        BY <1>0, <2>7, CallKinds DEF ProposeMiss
      <3> QED
        BY <1>0, <2>7, <3>1 DEF ProposeMiss, ProposeCall
    <2>8. CASE ExecuteMiss(s) \/ ExecuteDuplicate(s)
      <3>1. calls[s] \in ExecuteCall
        BY <1>0, <2>8, CallKinds DEF ExecuteMiss, ExecuteDuplicate
      <3> QED
        BY <1>0, <2>8, <3>1 DEF ExecuteMiss, ExecuteDuplicate, ExecuteCall
    <2>9. ASSUME calls' = [calls EXCEPT ![s] = NoCall]
          PROVE  FALSE
      BY <1>0, <2>9 DEF NoCall
    <2> QED
      BY <2>2, <2>4, <2>5, <2>6, <2>7, <2>8, <2>9
         DEF ProposeStep, ProposeReplay, ProposeInsert, DecideStep, RecordRejection,
             RecordApproval, ExecuteStep, ExecuteFound, ExecuteRecover, ExecuteCommit, Return, Abort
  <1> QED
    BY <1>1, <1>2

\* Several approvers may sign concurrently; one grant gets out.
THEOREM GrantsAreUniqueAlways == Spec => []GrantsAreUnique
  <1>1. Init => GrantsMatchApprovals
    BY DEF Init, GrantsMatchApprovals, GrantsAreUnique, NoCall
  <1>2. IInv /\ GrantsMatchApprovals /\ [Next]_vars => GrantsMatchApprovals'
    <2>. SUFFICES ASSUME IInv, GrantsMatchApprovals, [Next]_vars
                  PROVE  GrantsMatchApprovals'
      OBVIOUS
    <2>0. /\ \A g \in grants : g.ref \in Refs
          /\ \A s \in Sessions : calls[s].pc \in {"approve", "approve_txn"} => calls[s].ref \in Refs
          /\ \A r \in Refs : decisions[r].verdict = "approve" => proposals[r].status = "approved"
      BY CallKinds DEF IInv, TypeOK, Grant, ApproveCall, DecisionsMatchStatus
    <2>1. \A r \in Refs : Exists(r) => Exists(r)' /\ proposals'[r].command = proposals[r].command
      <3>1. CASE UNCHANGED rows
        BY <3>1 DEF rows, Exists
      <3>2. ASSUME NEW s \in Sessions, NEW ref \in Refs, ProposeInsert(s, ref), NEW r \in Refs, Exists(r)
            PROVE  Exists(r)' /\ proposals'[r].command = proposals[r].command
        <4>1. r # ref
          BY <3>2, InsertedRows DEF Exists
        <4>2. \/ proposals'[r].status = "superseded"
              \/ proposals'[r] = proposals[r]
          BY <3>2, <4>1, InsertedRows, NoRefAssumption
        <4> QED
          BY <3>2, <4>1, <4>2, InsertedRows DEF Exists
      <3>3. ASSUME NEW s \in Sessions, RecordRejection(s) \/ RecordApproval(s), NEW r \in Refs, Exists(r)
            PROVE  Exists(r)' /\ proposals'[r].command = proposals[r].command
        BY <3>3, SettledRows DEF Exists
      <3>4. ASSUME NEW s \in Sessions, ExecuteCommit(s)
            PROVE  UNCHANGED proposals
        BY <3>4 DEF ExecuteCommit
      <3> QED
        BY <3>1, <3>2, <3>3, <3>4, WritingSteps DEF Exists
    <2>2. ASSUME NEW s \in Sessions, calls'[s].pc \in {"approve", "approve_txn"}
          PROVE  /\ proposals'[calls'[s].ref].status # "absent"
                 /\ calls'[s].grant.ref = calls'[s].ref
                 /\ calls'[s].grant.command = proposals'[calls'[s].ref].command
      <3>1. /\ calls'[s].ref \in Refs /\ Exists(calls'[s].ref)
            /\ calls'[s].grant.ref = calls'[s].ref
            /\ calls'[s].grant.command = proposals[calls'[s].ref].command
        BY <2>0, <2>2, ApprovingCalls DEF GrantsMatchApprovals
      <3> QED
        BY <2>1, <3>1 DEF Exists
    <2>3. ASSUME NEW g \in grants
          PROVE  /\ Exists(g.ref) /\ decisions'[g.ref] = decisions[g.ref]
                 /\ nonces'[g.ref].nonce = nonces[g.ref].nonce
      <3>1. g.ref \in Refs /\ proposals[g.ref].status = "approved"
        BY <2>0, <2>3 DEF GrantsMatchApprovals
      <3>2. decisions'[g.ref] = decisions[g.ref]
        BY <3>1, SettledSteps DEF SettledStep
      <3>3. ASSUME NEW s \in Sessions, ExecuteCommit(s)
            PROVE  nonces'[g.ref].nonce = nonces[g.ref].nonce
        <4>1. nonces[g.ref] \in Nonce \cup {NoNonce} /\ nonces \in [Refs -> Nonce \cup {NoNonce}]
          BY <3>1 DEF IInv, TypeOK
        <4>2. nonces' = [nonces EXCEPT ![calls[s].ref].used = TRUE]
          BY <3>3 DEF ExecuteCommit
        <4> QED
          BY <3>1, <4>1, <4>2 DEF Nonce, NoNonce
      <3>4. ASSUME NEW s \in Sessions, NEW ref \in Refs, ProposeInsert(s, ref)
            PROVE  nonces'[g.ref].nonce = nonces[g.ref].nonce
        BY <3>4, InsertedRows
      <3>5. ASSUME NEW s \in Sessions, RecordRejection(s) \/ RecordApproval(s)
            PROVE  nonces'[g.ref].nonce = nonces[g.ref].nonce
        BY <3>1, <3>5, SettledRows
      <3> QED
        BY <3>1, <3>2, <3>3, <3>4, <3>5, WritingSteps DEF rows, Exists
    <2>4. ASSUME NEW g \in grants', g \notin grants
          PROVE  /\ \A h \in grants' : g.ref = h.ref => g = h
                 /\ g.command = proposals'[g.ref].command
                 /\ g.nonce = nonces'[g.ref].nonce
                 /\ decisions'[g.ref].verdict = "approve"
      <3>1. PICK s \in Sessions : RecordApproval(s)
        <4>1. ~UNCHANGED grants
          BY <2>4
        <4>2. ~UNCHANGED vars /\ ~UNCHANGED history /\ ~Tick
          BY <4>1 DEF vars, history, Tick
        <4>3. PICK s \in Sessions :
                 NewCall(s) \/ ProposeStep(s) \/ DecideStep(s) \/ ExecuteStep(s) \/ Abort(s)
          BY <4>2 DEF Next
        <4>4. ~NewCall(s) /\ ~ProposeStep(s) /\ ~ExecuteStep(s) /\ ~Abort(s)
          BY <4>1, <4>2
             DEF NewCall, CallPropose, CallReject, CallApprove, ExecuteReplay, CallExecute, Return,
                 ProposeStep, ProposeReplay, ProposeMiss, ProposeInsert, ExecuteStep, ExecuteFound,
                 ExecuteMiss, ExecuteDuplicate, ExecuteRecover, ExecuteCommit, Abort, history
        <4> QED
          BY <4>2, <4>3, <4>4 DEF DecideStep, BeginDecision, RecordRejection
      <3>. DEFINE call == calls[s]
      <3>2. /\ call.pc = "approve_txn" /\ grants' = grants \cup {call.grant} /\ g = call.grant
        BY <2>4, <3>1 DEF RecordApproval
      <3>3. g.ref = call.ref /\ call.ref \in Refs /\ g.command = proposals[call.ref].command
            /\ Exists(call.ref)
        BY <2>0, <3>2 DEF GrantsMatchApprovals
      <3>4. /\ proposals[call.ref].status = "pending"
            /\ decisions'[call.ref].verdict = "approve" /\ nonces'[call.ref].nonce = call.grant.nonce
        BY <3>1, SettledRows
      <3>5. \A h \in grants : h.ref # g.ref
        BY <2>0, <3>3, <3>4 DEF GrantsMatchApprovals
      <3> QED
        BY <2>1, <3>2, <3>3, <3>4, <3>5
    <2>5. GrantsAreUnique'
      <3>. SUFFICES ASSUME NEW g \in grants'
                    PROVE  /\ g.command = proposals'[g.ref].command
                           /\ g.nonce = nonces'[g.ref].nonce
                           /\ \A h \in grants' : g.ref = h.ref => g = h
        BY DEF GrantsAreUnique
      <3>1. CASE g \in grants
        BY <2>0, <2>1, <2>3, <2>4, <3>1 DEF GrantsMatchApprovals, GrantsAreUnique
      <3>2. CASE g \notin grants
        BY <2>4, <3>2
      <3> QED
        BY <3>1, <3>2
    <2>6. \A g \in grants' : decisions'[g.ref].verdict = "approve"
      BY <2>3, <2>4 DEF GrantsMatchApprovals
    <2> QED
      BY <2>2, <2>5, <2>6 DEF GrantsMatchApprovals, Exists
  <1>3. GrantsMatchApprovals => GrantsAreUnique
    BY DEF GrantsMatchApprovals
  <1> QED
    BY <1>1, <1>2, <1>3, Invariance, PTL DEF Spec

-----------------------------------------------------------------------------
(* Refinement *)

\* The lifecycle speaks of the same commands.
LEMMA SameCommands ==
    ASSUME NEW ref, NEW c, NEW d
    PROVE  /\ Lifecycle!CanApply(ref, c, d) <=> CanApply(ref, c, d)
           /\ Lifecycle!Apply(ref, c, d) = Apply(ref, c, d)
  <1>1. Lifecycle!CanApply(ref, c, d) <=> CanApply(ref, c, d)
    BY DEF Lifecycle!CanApply, CanApply,
           Lifecycle!CanOpenSellerRiskCase, CanOpenSellerRiskCase,
           Lifecycle!CanCreateInvestigationTask, CanCreateInvestigationTask,
           Lifecycle!CanCreateFromAlertHit, CanCreateFromAlertHit,
           Lifecycle!CanCreateAlertRule, CanCreateAlertRule,
           Lifecycle!CanAssign, CanAssign, Lifecycle!CanTransition, CanTransition,
           Lifecycle!CanAddConclusion, CanAddConclusion, Lifecycle!CanClose, CanClose,
           Lifecycle!AtExpectedVersion, AtExpectedVersion,
           Lifecycle!AllowedTransitions, AllowedTransitions
  <1>2. Lifecycle!Apply(ref, c, d) = Apply(ref, c, d)
    BY DEF Lifecycle!Apply, Apply,
           Lifecycle!OpenSellerRiskCaseEffect, OpenSellerRiskCaseEffect,
           Lifecycle!CreateTaskEffect, CreateTaskEffect,
           Lifecycle!CreateAlertRuleEffect, CreateAlertRuleEffect,
           Lifecycle!AssignEffect, AssignEffect,
           Lifecycle!TransitionEffect, TransitionEffect,
           Lifecycle!AddConclusionEffect, AddConclusionEffect,
           Lifecycle!CloseEffect, CloseEffect, Lifecycle!NewTask, NewTask
  <1> QED
    BY <1>1, <1>2

\* The empty tables are those of the lifecycle.
LEMMA InitImplements == Init => Lifecycle!Init
  BY DEF Init, Lifecycle!Init, Lifecycle!NoRequest, Stage, Exists, NoProposal, NoDecision,
         Lifecycle!EmptyTables, EmptyTables, Lifecycle!NoTask, NoTask, Lifecycle!NoRisk, NoRisk,
         Lifecycle!NoConclusion, NoConclusion, Lifecycle!NoBacktest, NoBacktest

\* Every step of the workflow is a step of the lifecycle, or none.
LEMMA StepImplements == IInv /\ [Next]_vars => [Lifecycle!Next]_(Lifecycle!vars)
  <1>. SUFFICES ASSUME IInv, [Next]_vars
                PROVE  Lifecycle!Next \/ UNCHANGED Lifecycle!vars
    OBVIOUS
  <1>0. \A r \in Refs : Executed(r) => proposals[r].status = "approved"
    BY DEF IInv, SeparationOfDuties
  <1>1. CASE UNCHANGED rows
    BY <1>1 DEF rows, Lifecycle!vars, Stage, Exists, Executed
  <1>2. ASSUME NEW s \in Sessions, NEW ref \in Refs, ProposeInsert(s, ref)
        PROVE  Lifecycle!Next
    <2>1. PICK actor \in Actors, c \in Commands, old \in Refs \cup {NoRef} :
             /\ proposals[ref].status = "absent"
             /\ proposals'[ref].status = "pending"
             /\ proposals'[ref].requester = actor /\ proposals'[ref].command = c
             /\ old # NoRef => /\ old \in Refs \ {ref}
                               /\ proposals[old].status = "pending"
                               /\ proposals[old].requester = actor
                               /\ proposals'[old].status = "superseded"
             /\ \A r \in Refs \ {ref} : /\ r # old => proposals'[r] = proposals[r]
                                        /\ proposals'[r].requester = proposals[r].requester
                                        /\ proposals'[r].command = proposals[r].command
             /\ UNCHANGED <<decisions, executions, db>>
      <3>. DEFINE call == calls[s]
      <3>1. call \in ProposeCall /\ proposals'[ref] = NewRow(call)
        BY <1>2, InsertedRows
      <3>2. /\ call.actor \in Actors /\ call.command \in Commands
            /\ call.revises \in Refs \cup {NoRef}
        BY <3>1 DEF ProposeCall, Actors
      <3>3. /\ proposals'[ref].status = "pending" /\ proposals'[ref].requester = call.actor
            /\ proposals'[ref].command = call.command
        BY <3>1 DEF NewRow
      <3>4. /\ proposals[ref].status = "absent"
            /\ call.revises # NoRef => /\ call.revises \in Refs \ {ref}
                                       /\ proposals[call.revises].status = "pending"
                                       /\ proposals[call.revises].requester = call.actor
                                       /\ proposals'[call.revises].status = "superseded"
            /\ \A r \in Refs \ {ref} : /\ r # call.revises => proposals'[r] = proposals[r]
                                       /\ proposals'[r].requester = proposals[r].requester
                                       /\ proposals'[r].command = proposals[r].command
            /\ UNCHANGED <<decisions, nonces, executions, db>>
        BY <1>2, InsertedRows
      <3>. HIDE DEF call
      <3> QED
        BY <3>2, <3>3, <3>4
    <2>2. /\ Stage(ref) = "none"
          /\ old # NoRef => Stage(old) = "pending"
      BY <1>0, <2>1 DEF Stage, Exists
    <2>3. \A r \in Refs : Stage(r)' = IF r = ref THEN "pending"
                                      ELSE IF r = old THEN "superseded" ELSE Stage(r)
      <3>. SUFFICES ASSUME NEW r \in Refs
                    PROVE  Stage(r)' = IF r = ref THEN "pending"
                                       ELSE IF r = old THEN "superseded" ELSE Stage(r)
        OBVIOUS
      <3>1. CASE r = ref
        BY <1>0, <2>1, <3>1 DEF Stage, Exists, Executed
      <3>2. CASE r # ref /\ r = old
        BY <1>0, <2>1, <3>2, NoRefAssumption DEF Stage, Exists, Executed
      <3>3. CASE r # ref /\ r # old
        BY <2>1, <3>3 DEF Stage, Exists, Executed
      <3> QED
        BY <3>1, <3>2, <3>3
    <2>4. Lifecycle!Submit(ref, actor, c, old)
      BY <2>1, <2>2, <2>3 DEF Lifecycle!Submit
    <2> QED
      BY <2>4 DEF Lifecycle!Next
  <1>3. ASSUME NEW s \in Sessions, RecordRejection(s) \/ RecordApproval(s)
        PROVE  Lifecycle!Next
    <2>1. PICK ref \in Refs, actor \in Actors, verdict \in {"approved", "rejected"} :
             /\ proposals[ref].status = "pending" /\ proposals[ref].requester # actor
             /\ proposals'[ref].status = verdict
             /\ proposals'[ref].requester = proposals[ref].requester
             /\ proposals'[ref].command = proposals[ref].command
             /\ decisions'[ref].approver = actor
             /\ \A r \in Refs \ {ref} : /\ proposals'[r] = proposals[r]
                                        /\ decisions'[r] = decisions[r]
             /\ UNCHANGED <<executions, db>>
      <3>. DEFINE call == calls[s]
                  target == call.ref
      <3>1. /\ call \in RejectCall \cup ApproveCall
            /\ target \in Refs
            /\ proposals[target].status = "pending" /\ proposals[target].requester # call.actor
            /\ proposals'[target].status \in {"approved", "rejected"}
            /\ proposals'[target].requester = proposals[target].requester
            /\ proposals'[target].command = proposals[target].command
            /\ decisions'[target].approver = call.actor
            /\ \A r \in Refs \ {target} : /\ proposals'[r] = proposals[r]
                                          /\ decisions'[r] = decisions[r]
            /\ UNCHANGED <<executions, db>>
        BY <1>3, SettledRows
      <3>2. call.actor \in Actors
        BY <3>1 DEF RejectCall, ApproveCall, Actors
      <3>. HIDE DEF call, target
      <3> QED
        BY <3>1, <3>2
    <2>2. Stage(ref) = "pending" /\ Stage(ref)' = verdict
      BY <1>0, <2>1 DEF Stage, Exists, Executed
    <2>3. \A r \in Refs \ {ref} : Stage(r)' = Stage(r)
      BY <2>1 DEF Stage, Exists, Executed
    <2>4. Lifecycle!Settle(ref, actor, verdict)
      BY <2>1, <2>2, <2>3 DEF Lifecycle!Settle
    <2> QED
      BY <2>4 DEF Lifecycle!Next
  <1>4. ASSUME NEW s \in Sessions, ExecuteCommit(s)
        PROVE  Lifecycle!Next
    <2>1. PICK ref \in Refs :
             /\ proposals[ref].status = "approved"
             /\ executions[ref].status # "succeeded" /\ executions'[ref].status = "succeeded"
             /\ \A r \in Refs \ {ref} : executions'[r] = executions[r]
             /\ CanApply(ref, proposals[ref].command, db)
             /\ db' = Apply(ref, proposals[ref].command, db)
             /\ UNCHANGED <<proposals, decisions>>
      <3>. DEFINE target == calls[s].ref
      <3>1. /\ target \in Refs
            /\ proposals[target].status = "approved"
            /\ \A r \in Refs \ {target} : executions'[r] = executions[r]
            /\ CanApply(target, proposals[target].command, db)
            /\ db' = Apply(target, proposals[target].command, db)
            /\ UNCHANGED <<proposals, decisions>>
        BY <1>4, CommittedRows
      <3>2. executions[target].status # "succeeded" /\ executions'[target].status = "succeeded"
        <4>1. executions \in [Refs -> Execution \cup {NoExecution}]
          BY DEF IInv, TypeOK
        <4> QED
          BY <1>4, <3>1, <4>1 DEF ExecuteCommit, Executed
      <3>. HIDE DEF target
      <3> QED
        BY <3>1, <3>2
    <2>2. /\ Lifecycle!CanApply(ref, proposals[ref].command, db)
          /\ db' = Lifecycle!Apply(ref, proposals[ref].command, db)
      BY <2>1, SameCommands
    <2>3. Stage(ref) = "approved" /\ Stage(ref)' = "executed"
      BY <2>1 DEF Stage, Exists, Executed
    <2>4. \A r \in Refs \ {ref} : Stage(r)' = Stage(r)
      BY <2>1 DEF Stage, Exists, Executed
    <2>5. Lifecycle!Perform(ref)
      BY <2>1, <2>2, <2>3, <2>4 DEF Lifecycle!Perform
    <2> QED
      BY <2>5 DEF Lifecycle!Next
  <1> QED
    BY <1>1, <1>2, <1>3, <1>4, WritingSteps

\* The sessions, transactions, grants and clocks of the workflow add nothing
\* to the lifecycle that could be seen in the tables.
THEOREM WorkflowImplementsLifecycle == Spec => ImplementsLifecycle
  <1> QED
    BY InitImplements, StepImplements, Invariance, PTL
       DEF Spec, ImplementsLifecycle, Lifecycle!Spec
=============================================================================
