--------------------------- MODULE OperationWorkflow ---------------------------
(* OperationWorkflow (propose, decide, execute) over PostgresOperationStore. *)
(* Several sessions call the workflow concurrently.  A call is a sequence of *)
(* steps, cut where the code awaits a transaction whose result it uses later *)
(* and, inside a transaction, between the reads made before the proposal row *)
(* is locked and the statements made under that lock.                        *)
(*                                                                           *)
(* Under the row lock a trusted_schema function and its COMMIT are one step: *)
(* nobody else can see or change the rows in between.  A call may die at any *)
(* point with nothing written (Abort: a RAISE, lock_timeout, a dropped       *)
(* connection, a crash), or commit and lose the response                     *)
(* (OperationOutcomeUnknown).                                                *)
(*                                                                           *)
(* transaction_timestamp() is the time of BEGIN, so a transaction that waits *)
(* judges every expiry by a time that is already past.  The DSN checks pin   *)
(* the database to 127.0.0.1: one clock serves both sides.                   *)
EXTENDS InvestigationCommands

CONSTANTS
    Ids,          \* proposal_id values (uuid4)
    MaxRevision,  \* bound on the versions of one proposal
    Analysts,     \* actor_id values that can authenticate with role analyst
    Approvers,    \* actor_id values that can authenticate with role approver
    Keys,         \* idempotency keys of propose requests
    Nonces,       \* values of the nonce source
    Sessions,     \* concurrent callers
    Commands,     \* the commands analysts propose
    ProposalTTL,  \* 24 hours: expires_at of a proposal
    GrantTTL,     \* 10 minutes: expires_at of a grant
    MaxClock      \* bound on the clock

Actors == Analysts \cup Approvers

ASSUME RefsAssumption == Refs = Ids \X (1 .. MaxRevision) /\ MaxRevision \in Nat \ {0}
ASSUME CommandsAssumption == Commands \subseteq OperationCommand
ASSUME TimeAssumption ==
    /\ ProposalTTL \in Nat \ {0}
    /\ GrantTTL \in Nat \ {0}
    /\ MaxClock \in Nat
ASSUME NullAssumption ==
    NoRef \notin Actors /\ NoRef \notin Nonces /\ NoRef \notin Commands /\ NoRef \notin Keys

VARIABLES
    proposals,   \* ops.operation_proposal
    decisions,   \* ops.approval_decision
    nonces,      \* ops.approval_nonce
    executions,  \* ops.command_execution
    audit,       \* ops.audit_event: the executions that have one
    db,          \* the business tables
    clock,
    issued,      \* nonces the nonce source has given out
    calls,       \* the state of each session's call
    grants,      \* execution grants that reached an approver
    acks,        \* history: what propose returned, [actor, key, ref]
    receipts,    \* history: what execute returned, [ref, execution]
    writes       \* history: committed mutations per proposal

tables == <<proposals, decisions, nonces, executions, audit, db>>
history == <<grants, acks, receipts, writes>>
vars == <<proposals, decisions, nonces, executions, audit, db,
          clock, issued, calls, grants, acks, receipts, writes>>

-----------------------------------------------------------------------------
(* Rows *)

NoProposal == [status |-> "absent", requester |-> NoRef, command |-> NoRef,
               key |-> NoRef, expires |-> 0]
NoDecision == [verdict |-> "none", approver |-> NoRef, at |-> 0]
NoNonce == [nonce |-> NoRef, approver |-> NoRef, expires |-> 0, used |-> FALSE]
NoExecution == [status |-> "absent", actor |-> NoRef, before |-> 0, after |-> 0, at |-> 0]
NoCall == [pc |-> "idle"]

Proposal == [status : {"pending", "approved", "rejected", "superseded"},
             requester : Analysts, command : Commands, key : Keys, expires : Nat]
Decision == [verdict : {"approve", "reject"}, approver : Approvers, at : Nat]
Nonce == [nonce : Nonces, approver : Approvers, expires : Nat, used : BOOLEAN]
Execution == [status : {"succeeded"}, actor : Approvers, before : Nat, after : Nat, at : Nat]
Grant == [ref : Refs, command : Commands, requester : Analysts, approver : Approvers,
          expires : Nat, nonce : Nonces]

Call ==
    {NoCall}
    \cup [pc : {"propose", "insert"}, actor : Analysts, command : Commands, key : Keys,
          revises : Refs \cup {NoRef}, expires : Nat]
    \cup [pc : {"reject", "reject_txn"}, actor : Approvers, ref : Refs, at : Nat]
    \cup [pc : {"approve", "approve_txn"}, actor : Approvers, ref : Refs, grant : Grant, at : Nat]
    \cup [pc : {"execute", "execute_txn", "recover"}, actor : Approvers, ref : Refs,
          grant : Grant, at : Nat]

TypeOK ==
    /\ proposals \in [Refs -> Proposal \cup {NoProposal}]
    /\ decisions \in [Refs -> Decision \cup {NoDecision}]
    /\ nonces \in [Refs -> Nonce \cup {NoNonce}]
    /\ executions \in [Refs -> Execution \cup {NoExecution}]
    /\ audit \subseteq Refs
    /\ db \in Tables
    /\ clock \in Nat
    /\ issued \subseteq Nonces
    /\ calls \in [Sessions -> Call]
    /\ grants \subseteq Grant
    /\ acks \subseteq [actor : Analysts, key : Keys, ref : Refs]
    /\ receipts \subseteq [ref : Refs, execution : Execution]
    /\ writes \in [Refs -> Nat]

Exists(ref) == proposals[ref].status # "absent"
Executed(ref) == executions[ref].status = "succeeded"

Init ==
    /\ proposals = [r \in Refs |-> NoProposal]
    /\ decisions = [r \in Refs |-> NoDecision]
    /\ nonces = [r \in Refs |-> NoNonce]
    /\ executions = [r \in Refs |-> NoExecution]
    /\ audit = {}
    /\ db = EmptyTables
    /\ clock = 0
    /\ issued = {}
    /\ calls = [s \in Sessions |-> NoCall]
    /\ grants = {}
    /\ acks = {}
    /\ receipts = {}
    /\ writes = [r \in Refs |-> 0]

-----------------------------------------------------------------------------
(* propose *)

\* DefaultReferenceValidator binds the backtest snapshot of an alert rule as a
\* private binding, and _private_seller_binding admits none but a seller's.
HasStorableBinding(c) == c.type # "create_and_enable_metric_alert_rule"

CallPropose(s, actor, c, key, revises) ==
    /\ calls[s] = NoCall
    /\ HasStorableBinding(c)
    /\ calls' = [calls EXCEPT ![s] =
                   [pc |-> "propose", actor |-> actor, command |-> c, key |-> key,
                    revises |-> revises, expires |-> clock + ProposalTTL]]
    /\ UNCHANGED <<tables, clock, issued, history>>

\* The row a retry of the same request finds.
KeyedBy(actor, key) ==
    { r \in Refs : Exists(r) /\ proposals[r].requester = actor /\ proposals[r].key = key }

\* create_operation_proposal, the idempotency lookup: an equal request gets
\* the existing reference.  (A different payload under the key: Abort.)
ProposeReplay(s) ==
    /\ calls[s].pc = "propose"
    /\ \E r \in KeyedBy(calls[s].actor, calls[s].key) :
        /\ proposals[r].command = calls[s].command
        /\ acks' = acks \cup {[actor |-> calls[s].actor, key |-> calls[s].key, ref |-> r]}
    /\ calls' = [calls EXCEPT ![s] = NoCall]
    /\ UNCHANGED <<tables, clock, issued, grants, receipts, writes>>

\* No row yet.  created_at is the time of BEGIN; ck_operation_proposal_expiry
\* refuses a draft that has expired by then.
ProposeMiss(s) ==
    /\ calls[s].pc = "propose"
    /\ calls[s].expires > clock
    /\ KeyedBy(calls[s].actor, calls[s].key) = {}
    /\ calls' = [calls EXCEPT ![s].pc = "insert"]
    /\ UNCHANGED <<tables, clock, issued, history>>

\* The reference a new proposal gets: a fresh id, or the next version of a
\* pending proposal of the same requester.
CanInsertAs(call, ref) ==
    IF call.revises = NoRef
    THEN /\ ref[2] = 1
         /\ \A r \in Refs : r[1] = ref[1] => ~Exists(r)
    ELSE /\ ref[1] = call.revises[1]
         /\ ref[2] = call.revises[2] + 1
         /\ proposals[call.revises].requester = call.actor
         /\ proposals[call.revises].status = "pending"

NewRow(call) ==
    [status |-> "pending", requester |-> call.actor, command |-> call.command,
     key |-> call.key, expires |-> call.expires]

\* Mutant: the revised version stays as it is.
InsertedBeside(call, ref) == [proposals EXCEPT ![ref] = NewRow(call)]

\* The revised version is superseded by the new row.
InsertedOver(call, ref) ==
    [r \in Refs |-> IF r = ref THEN NewRow(call)
                    ELSE IF r = call.revises
                         THEN [proposals[r] EXCEPT !.status = "superseded"]
                         ELSE proposals[r]]

\* Mutant: no unique index on the requester and the key.
IsKeyUnchecked(call) == TRUE

\* uq_operation_proposal_requester_idempotency
IsKeyFree(call) == KeyedBy(call.actor, call.key) = {}

\* The rest of create_operation_proposal.
ProposeInsert(s, ref) ==
    LET call == calls[s] IN
    /\ call.pc = "insert"
    /\ IsKeyFree(call)
    /\ CanInsertAs(call, ref)
    /\ proposals' = InsertedOver(call, ref)
    /\ \/ acks' = acks \cup {[actor |-> call.actor, key |-> call.key, ref |-> ref]}
       \/ UNCHANGED acks
    /\ calls' = [calls EXCEPT ![s] = NoCall]
    /\ UNCHANGED <<decisions, nonces, executions, audit, db, clock, issued,
                   grants, receipts, writes>>

-----------------------------------------------------------------------------
(* decide *)

MayDecide(actor, ref) == Exists(ref) /\ proposals[ref].requester # actor

CallReject(s, actor, ref) ==
    /\ calls[s] = NoCall
    /\ MayDecide(actor, ref)
    /\ calls' = [calls EXCEPT ![s] = [pc |-> "reject", actor |-> actor, ref |-> ref, at |-> 0]]
    /\ UNCHANGED <<tables, clock, issued, history>>

\* issue_grant: a fresh nonce, signed over what was read of the proposal.
CallApprove(s, actor, ref, nonce) ==
    /\ calls[s] = NoCall
    /\ MayDecide(actor, ref)
    /\ nonce \notin issued
    /\ issued' = issued \cup {nonce}
    /\ calls' = [calls EXCEPT ![s] =
                   [pc |-> "approve", actor |-> actor, ref |-> ref, at |-> 0,
                    grant |-> [ref |-> ref, command |-> proposals[ref].command,
                               requester |-> proposals[ref].requester, approver |-> actor,
                               expires |-> clock + GrantTTL, nonce |-> nonce]]]
    /\ UNCHANGED <<tables, clock, history>>

\* BEGIN fixes transaction_timestamp(); the row lock may be granted later.
BeginDecision(s) ==
    /\ calls[s].pc \in {"reject", "approve"}
    /\ calls' = [calls EXCEPT ![s].at = clock,
                              ![s].pc = IF @ = "reject" THEN "reject_txn" ELSE "approve_txn"]
    /\ UNCHANGED <<tables, clock, issued, history>>

\* Mutant: what somebody else settled may be decided again.
IsDecidableAgain(call) ==
    proposals[call.ref].requester # call.actor /\ proposals[call.ref].expires > call.at

\* record_approval_decision, the conditions common to both verdicts.
IsDecidable(call) ==
    /\ proposals[call.ref].status = "pending"
    /\ proposals[call.ref].requester # call.actor
    /\ proposals[call.ref].expires > call.at

RecordRejection(s) ==
    LET call == calls[s] IN
    /\ call.pc = "reject_txn"
    /\ IsDecidable(call)
    /\ decisions' = [decisions EXCEPT ![call.ref] =
                       [verdict |-> "reject", approver |-> call.actor, at |-> call.at]]
    /\ proposals' = [proposals EXCEPT ![call.ref].status = "rejected"]
    /\ calls' = [calls EXCEPT ![s] = NoCall]
    /\ UNCHANGED <<nonces, executions, audit, db, clock, issued, history>>

\* The grant reaches the approver only if the commit's response does.
RecordApproval(s) ==
    LET call == calls[s]
        g    == call.grant
    IN
    /\ call.pc = "approve_txn"
    /\ IsDecidable(call)
    /\ g.expires > call.at
    /\ g.expires <= proposals[call.ref].expires
    /\ decisions' = [decisions EXCEPT ![call.ref] =
                       [verdict |-> "approve", approver |-> call.actor, at |-> call.at]]
    /\ nonces' = [nonces EXCEPT ![call.ref] =
                    [nonce |-> g.nonce, approver |-> call.actor,
                     expires |-> g.expires, used |-> FALSE]]
    /\ proposals' = [proposals EXCEPT ![call.ref].status = "approved"]
    /\ \/ grants' = grants \cup {g}
       \/ UNCHANGED grants
    /\ calls' = [calls EXCEPT ![s] = NoCall]
    /\ UNCHANGED <<executions, audit, db, clock, issued, acks, receipts, writes>>

-----------------------------------------------------------------------------
(* execute *)

\* The checks made before read_execution: an approved decision, by this actor.
MayExecute(actor, g) ==
    /\ decisions[g.ref].verdict = "approve"
    /\ actor = decisions[g.ref].approver
    /\ g.approver = decisions[g.ref].approver

\* Mutant: the receipt is made again from the current time.
ReturnAfresh(s, ref) ==
    /\ receipts' = receipts \cup {[ref |-> ref, execution |-> [executions[ref] EXCEPT !.at = clock]]}
    /\ calls' = [calls EXCEPT ![s] = NoCall]
    /\ UNCHANGED <<tables, clock, issued, grants, acks, writes>>

Return(s, ref) ==
    /\ receipts' = receipts \cup {[ref |-> ref, execution |-> executions[ref]]}
    /\ calls' = [calls EXCEPT ![s] = NoCall]
    /\ UNCHANGED <<tables, clock, issued, grants, acks, writes>>

\* Mutant: a receipt is returned before anything was executed.
ReplayUnexecuted(s, actor, g) ==
    /\ calls[s] = NoCall
    /\ MayExecute(actor, g)
    /\ g.nonce = nonces[g.ref].nonce
    /\ Return(s, g.ref)

\* A repeated call with the recorded grant gets the stored receipt, whatever
\* the time.
ExecuteReplay(s, actor, g) ==
    /\ calls[s] = NoCall
    /\ MayExecute(actor, g)
    /\ Executed(g.ref)
    /\ g.nonce = nonces[g.ref].nonce
    /\ Return(s, g.ref)

\* verify_grant: the stored bindings and the expiry, on the caller's clock.
CallExecute(s, actor, g) ==
    /\ calls[s] = NoCall
    /\ MayExecute(actor, g)
    /\ ~Executed(g.ref)
    /\ g.nonce = nonces[g.ref].nonce
    /\ g.command = proposals[g.ref].command
    /\ g.requester = proposals[g.ref].requester
    /\ clock < g.expires
    /\ calls' = [calls EXCEPT ![s] =
                   [pc |-> "execute", actor |-> actor, ref |-> g.ref, grant |-> g, at |-> 0]]
    /\ UNCHANGED <<tables, clock, issued, history>>

\* BEGIN and the first SELECT of the command function.
ExecuteFound(s) ==
    /\ calls[s].pc = "execute"
    /\ Executed(calls[s].ref)
    /\ executions[calls[s].ref].actor = calls[s].actor
    /\ Return(s, calls[s].ref)

ExecuteMiss(s) ==
    /\ calls[s].pc = "execute"
    /\ ~Executed(calls[s].ref)
    /\ calls' = [calls EXCEPT ![s].pc = "execute_txn", ![s].at = clock]
    /\ UNCHANGED <<tables, clock, issued, history>>

\* approval_binding_invalid, re-checked under the proposal row lock.
IsBound(call) ==
    LET p == proposals[call.ref] IN
    /\ p.status = "approved"
    /\ p.command = call.grant.command
    /\ p.expires > call.at
    /\ decisions[call.ref].verdict = "approve"
    /\ decisions[call.ref].approver = call.actor

\* The INSERT into command_execution hits uq_command_execution_proposal.
ExecuteDuplicate(s) ==
    /\ calls[s].pc = "execute_txn"
    /\ IsBound(calls[s])
    /\ Executed(calls[s].ref)
    /\ calls' = [calls EXCEPT ![s].pc = "recover"]
    /\ UNCHANGED <<tables, clock, issued, history>>

\* execute_once on operation_identity_conflict: read_execution.
ExecuteRecover(s) ==
    /\ calls[s].pc = "recover"
    /\ Executed(calls[s].ref)
    /\ Return(s, calls[s].ref)

\* Mutant: the expiry of the grant is left to the caller's check.
ClaimsNonceAnyTime(call) ==
    LET n == nonces[call.ref] IN
    n.nonce = call.grant.nonce /\ n.approver = call.actor /\ ~n.used

\* The UPDATE that claims the nonce finds its row.
ClaimsNonce(call) ==
    LET n == nonces[call.ref] IN
    /\ n.nonce = call.grant.nonce
    /\ n.approver = call.actor
    /\ ~n.used
    /\ n.expires > call.at

\* Insert the execution, claim the nonce, mutate, complete the execution,
\* append the audit event, commit.
ExecuteCommit(s) ==
    LET call == calls[s]
        c    == proposals[call.ref].command
        exec == [status |-> "succeeded", actor |-> call.actor, before |-> PreviewVersion(c),
                 after |-> PreviewVersion(c) + 1, at |-> call.at]
    IN
    /\ call.pc = "execute_txn"
    /\ IsBound(call)
    /\ ~Executed(call.ref)
    /\ ClaimsNonce(call)
    /\ CanApply(call.ref, c, db)
    /\ executions' = [executions EXCEPT ![call.ref] = exec]
    /\ nonces' = [nonces EXCEPT ![call.ref].used = TRUE]
    /\ db' = Apply(call.ref, c, db)
    /\ audit' = audit \cup {call.ref}
    /\ writes' = [writes EXCEPT ![call.ref] = @ + 1]
    /\ \/ receipts' = receipts \cup {[ref |-> call.ref, execution |-> exec]}
       \/ UNCHANGED receipts
    /\ calls' = [calls EXCEPT ![s] = NoCall]
    /\ UNCHANGED <<proposals, decisions, clock, issued, grants, acks>>

-----------------------------------------------------------------------------
\* Any call may end early with nothing written.
Abort(s) ==
    /\ calls[s] # NoCall
    /\ calls' = [calls EXCEPT ![s] = NoCall]
    /\ UNCHANGED <<tables, clock, issued, history>>

Tick ==
    /\ clock < MaxClock
    /\ clock' = clock + 1
    /\ UNCHANGED <<tables, issued, calls, history>>

ProposeStep(s) ==
    \/ ProposeReplay(s)
    \/ ProposeMiss(s)
    \/ \E ref \in Refs : ProposeInsert(s, ref)

DecideStep(s) ==
    \/ BeginDecision(s)
    \/ RecordRejection(s)
    \/ RecordApproval(s)

ExecuteStep(s) ==
    \/ ExecuteFound(s)
    \/ ExecuteMiss(s)
    \/ ExecuteDuplicate(s)
    \/ ExecuteRecover(s)
    \/ ExecuteCommit(s)

NewCall(s) ==
    \/ \E actor \in Analysts, c \in Commands, key \in Keys, revises \in Refs \cup {NoRef} :
         CallPropose(s, actor, c, key, revises)
    \/ \E actor \in Approvers, ref \in Refs :
         \/ CallReject(s, actor, ref)
         \/ \E nonce \in Nonces : CallApprove(s, actor, ref, nonce)
    \/ \E actor \in Approvers, g \in grants :
         \/ ExecuteReplay(s, actor, g)
         \/ CallExecute(s, actor, g)

Next ==
    \/ \E s \in Sessions : NewCall(s) \/ ProposeStep(s) \/ DecideStep(s) \/ ExecuteStep(s) \/ Abort(s)
    \/ Tick

Spec == Init /\ [][Next]_vars

-----------------------------------------------------------------------------
(* Properties *)

\* Exactly once, all or nothing: the mutation of a proposal is committed once
\* if there is a succeeded execution and never otherwise, and the nonce is
\* used and the audit event written in exactly the same cases, whatever
\* retries, duplicate calls, lost responses and crashes happened.
ExactlyOnce ==
    \A r \in Refs :
        /\ writes[r] = IF Executed(r) THEN 1 ELSE 0
        /\ nonces[r].used <=> Executed(r)
        /\ r \in audit <=> Executed(r)

\* Nothing is executed that a second person has not approved: the executing
\* actor is the recorded approver and not the requester, and the proposal is
\* still approved (never superseded or rejected).
SeparationOfDuties ==
    \A r \in Refs : Executed(r) =>
        /\ proposals[r].status = "approved"
        /\ decisions[r].verdict = "approve"
        /\ executions[r].actor = decisions[r].approver
        /\ decisions[r].approver # proposals[r].requester

\* By the timestamps the database recorded, an execution lies inside the
\* grant's window, and the grant's window inside the proposal's.
ExecutedInTime ==
    \A r \in Refs : Executed(r) =>
        /\ decisions[r].at <= executions[r].at
        /\ executions[r].at < nonces[r].expires
        /\ nonces[r].expires <= proposals[r].expires

Live(r) == proposals[r].status \in {"pending", "approved"}

\* At most one version of a proposal is pending or approved
\* (uq_operation_proposal_one_live_version is never what stops a step), and
\* it is the latest one: a settled version is never revised.
OneLiveVersion ==
    \A r, s \in Refs : r[1] = s[1] /\ Exists(s) /\ proposals[r].status # "superseded"
        /\ Exists(r) => s[2] <= r[2]

\* Every receipt that any execute call ever returned for a proposal is the
\* stored execution: first answers, replays and recoveries agree.
ReceiptsAgree == \A x \in receipts : x.execution = executions[x.ref]

\* One requester's idempotency key names one proposal for ever.
KeysNameOneProposal ==
    \A x, y \in acks : x.actor = y.actor /\ x.key = y.key => x.ref = y.ref

\* At most one grant per proposal is ever in circulation, although several
\* approvers may have signed one concurrently, and it is bound to the payload
\* and nonce on record.
GrantsAreUnique ==
    \A g \in grants :
        /\ g.command = proposals[g.ref].command
        /\ g.nonce = nonces[g.ref].nonce
        /\ \A h \in grants : g.ref = h.ref => g = h

\* An execution applies to the version its approver was shown: the task it
\* updates is, at the moment of commit, at the previewed version.
AppliesToShownVersion ==
    [][ \A r \in Refs : Executed(r)' /\ ~Executed(r) =>
          LET c == proposals[r].command IN
          c.type \notin NewTargetTypes =>
             /\ db.tasks[c.task].version = executions'[r].before
             /\ db'.tasks[c.task].version = executions'[r].after ]_vars

\* A settled proposal, its decision and a recorded execution never change
\* again, and no step ever executes more than one proposal.
SettledIsFinal ==
    [][ \A r \in Refs :
          /\ proposals[r].status \in {"approved", "rejected", "superseded"} =>
               proposals'[r] = proposals[r] /\ decisions'[r] = decisions[r]
          /\ Executed(r) => executions'[r] = executions[r] /\ nonces'[r] = nonces[r]
          /\ \A q \in Refs : Executed(r)' /\ ~Executed(r) /\ Executed(q)' /\ ~Executed(q)
                                => r = q ]_vars

-----------------------------------------------------------------------------
(* Refinement of OperationLifecycle *)

Stage(r) ==
    IF ~Exists(r) THEN "none" ELSE IF Executed(r) THEN "executed" ELSE proposals[r].status

Lifecycle == INSTANCE OperationLifecycle WITH
    stage <- [r \in Refs |-> Stage(r)],
    request <- [r \in Refs |-> [by |-> proposals[r].requester,
                                command |-> proposals[r].command]],
    decider <- [r \in Refs |-> decisions[r].approver]

\* Every behaviour of the concurrent workflow over the database is, table for
\* table, one of the promised lifecycle.
ImplementsLifecycle == Lifecycle!Spec
=============================================================================
