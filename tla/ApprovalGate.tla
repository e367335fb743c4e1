---------------------------- MODULE ApprovalGate ----------------------------
(***************************************************************************)
(* The human approval gate: services/approvals.py, the approval routes     *)
(* and the part of tools/executor.py that creates, checks and audits.      *)
(*                                                                         *)
(* A request is one HTTP request or one agent run: it has a SQLAlchemy     *)
(* session of its own, reads committed rows (READ COMMITTED), keeps what   *)
(* it read in its identity map, takes a row lock when an UPDATE is flushed *)
(* and makes everything it wrote visible in one commit.  FastAPI runs the  *)
(* synchronous endpoints on a thread pool, so requests interleave between  *)
(* any two of their database operations.                                   *)
(*                                                                         *)
(* The tool's own effect is abstracted to the status its handler ends in.  *)
(***************************************************************************)
EXTENDS Naturals, ToolPolicy

CONSTANTS
    Requests,    \* the requests that may arrive, each served once
    Approvals,   \* the ids uuid4 may hand out for approval rows
    Calls,       \* the tool calls agent runs may plan
    NoRequest,   \* nobody: the owner of a free row lock
    NoApproval,  \* no approval id
    TTL,         \* lifetime of a PENDING approval (five minutes)
    MaxTime      \* bound on the clock

ASSUME RequestsAssumption == NoRequest \notin Requests
ASSUME ApprovalsAssumption == NoApproval \notin Approvals
ASSUME CallsAssumption ==
    \A c \in Calls : c.tool \in STRING /\ c.valid \in BOOLEAN
ASSUME TimeAssumption == TTL \in Nat /\ MaxTime \in Nat

VARIABLES
    now,         \* the clock
    overlap,     \* TRUE: requests are served beside each other (the thread
                 \* pool); FALSE: one after the other, the way the evaluation
                 \* runner drives the same services
    approvals,   \* the committed approvals table
    locks,       \* who holds the row lock of an approval
    executions,  \* the committed tool_executions row of each request
    memories,    \* the committed outcome memories of approvals
    sess         \* the local state of each request

vars == <<now, overlap, approvals, locks, executions, memories, sess>>

-----------------------------------------------------------------------------
NoCall == [tool |-> "none", valid |-> FALSE]
AnyCall == Calls \cup {NoCall}

RowStatus == {"NONE", "PENDING", "APPROVED", "REJECTED", "EXPIRED"}
Terminal == {"APPROVED", "REJECTED", "EXPIRED"}

\* An approval row; status "NONE" stands for a row that does not exist.
Row == [status : RowStatus, call : AnyCall, expires_at : Nat]
NoRow == [status |-> "NONE", call |-> NoCall, expires_at |-> 0]

\* The three routes that rule on an approval, and the status each asks for
\* (mutant: a status no reader knows).
Rulings == {"approve", "reject", "expire"}
StatusAskedMisspelt(op) == IF op = "reject" THEN "DENIED" ELSE "APPROVED"
StatusAsked(op) == CASE op = "approve" -> "APPROVED"
                     [] op = "reject"  -> "REJECTED"
                     [] op = "expire"  -> "EXPIRED"

Memory == [approval : Approvals, approval_status : Terminal,
           execution_status : Terminal \cup ToolStatus]

\* A session.  "row" is its copy of the approval (what it read, or the row it
\* proposes), "at" the clock when it checked the copy, "write" the status it
\* flushed, "result" what the executor returned, "committed" whether its
\* ruling was committed, "reply" the class of the HTTP answer.
Session == [pc : {"idle", "read", "flushing", "held", "executed",
                  "recording", "replied"},
            op : Rulings \cup {"none", "run"},
            target : Approvals \cup {NoApproval},
            row : Row, at : Nat,
            write : Terminal \cup {"NONE"},
            result : ToolStatus \cup {"NONE"},
            committed : BOOLEAN,
            reply : {"none", "ok", "conflict", "error"}]

IdleSession == [pc |-> "idle", op |-> "none", target |-> NoApproval,
                row |-> NoRow, at |-> 0, write |-> "NONE", result |-> "NONE",
                committed |-> FALSE, reply |-> "none"]

TypeOK == /\ now \in Nat
          /\ overlap \in BOOLEAN
          /\ approvals \in [Approvals -> Row]
          /\ locks \in [Approvals -> Requests \cup {NoRequest}]
          /\ executions \in [Requests -> ToolStatus \cup {"NONE"}]
          /\ memories \subseteq Memory
          /\ sess \in [Requests -> Session]

Init == /\ now = 0
        /\ overlap \in BOOLEAN
        /\ approvals = [a \in Approvals |-> NoRow]
        /\ locks = [a \in Approvals |-> NoRequest]
        /\ executions = [r \in Requests |-> "NONE"]
        /\ memories = {}
        /\ sess = [r \in Requests |-> IdleSession]

-----------------------------------------------------------------------------
InFlight(r) == sess[r].pc \notin {"idle", "replied"}

\* A new request is served beside the others, or alone.
Admit(r) == /\ sess[r].pc = "idle"
            /\ overlap \/ \A s \in Requests : ~InFlight(s)

\* A PENDING copy whose deadline has come (mutant: it lives a moment longer).
LateOffByOne(s, t) == s.row.status = "PENDING" /\ s.row.expires_at < t
Late(s, t) == s.row.status = "PENDING" /\ s.row.expires_at <= t

\* The copy was late when it was checked.
Overdue(s) == Late(s, s.at)

\* An approve request whose transition succeeded goes on to the executor.
Approving(s) == s.op = "approve" /\ ~Overdue(s)

\* uuid4: an id no row has and no open agent run has proposed.
Fresh(a) == /\ approvals[a] = NoRow
            /\ \A s \in Requests : ~(sess[s].op = "run" /\ sess[s].target = a)

\* The end of a transaction releases its row locks (mutant: it does not).
UnlockForgotten(r) == UNCHANGED locks
Unlock(r) == locks' = [a \in Approvals |-> IF locks[a] = r THEN NoRequest
                                           ELSE locks[a]]

\* The handler ends with a result or raises; the executor turns every
\* exception into FAILED.
HandlerResult == {"SUCCEEDED", "FAILED"}

-----------------------------------------------------------------------------
(* An agent run: the executor without an approval id, inside the run's     *)
(* transaction.                                                            *)

\* The call is blocked, malformed or not gated: it is decided on the spot.
ExecuteUngated(r, c) ==
    /\ Admit(r)
    /\ Verdict(c, FALSE, {}) # "REQUIRES_APPROVAL"
    /\ \E res \in (IF Verdict(c, FALSE, {}) = "RUN" THEN HandlerResult
                   ELSE {Verdict(c, FALSE, {})}) :
          sess' = [sess EXCEPT ![r] = [@ EXCEPT
                     !.pc = "executed", !.op = "run",
                     !.row = [status |-> "NONE", call |-> c, expires_at |-> 0],
                     !.result = res]]
    /\ UNCHANGED <<overlap, now, approvals, locks, executions, memories>>

\* The call needs approval: a PENDING row with its deadline is inserted in
\* the run's session.
ExecuteGated(r, c, a) ==
    /\ Admit(r)
    /\ Fresh(a)
    /\ Verdict(c, FALSE, {}) = "REQUIRES_APPROVAL"
    /\ sess' = [sess EXCEPT ![r] = [@ EXCEPT
                  !.pc = "executed", !.op = "run", !.target = a,
                  !.row = [status |-> "PENDING", call |-> c,
                           expires_at |-> now + TTL],
                  !.result = "REQUIRES_APPROVAL"]]
    /\ UNCHANGED <<overlap, now, approvals, locks, executions, memories>>

\* The orchestrator's commit: the audit row and the approval row together.
CommitRun(r) ==
    /\ sess[r].pc = "executed" /\ sess[r].op = "run"
    /\ executions' = [executions EXCEPT ![r] = sess[r].result]
    /\ approvals' = [a \in Approvals |-> IF a = sess[r].target THEN sess[r].row
                                         ELSE approvals[a]]
    /\ sess' = [sess EXCEPT ![r] = [@ EXCEPT !.pc = "replied", !.reply = "ok"]]
    /\ UNCHANGED <<overlap, now, locks, memories>>

-----------------------------------------------------------------------------
(* The approve, reject and expire routes.                                  *)

\* transition, line 35: session.get reads the committed row.  Without a row the
\* route answers 409; its second look at the id finds nothing either, since no
\* client learns an id before the row is committed.
ReadApproval(r, op, a) ==
    /\ Admit(r)
    /\ sess' = [sess EXCEPT ![r] = [@ EXCEPT
                  !.op = op, !.target = a, !.row = approvals[a],
                  !.pc = IF approvals[a].status = "NONE" THEN "replied"
                         ELSE "read",
                  !.reply = IF approvals[a].status = "NONE" THEN "conflict"
                            ELSE "none"]]
    /\ UNCHANGED <<overlap, now, approvals, locks, executions, memories>>

\* Only a PENDING copy may change.
Transitionable(s) == s.row.status = "PENDING"

\* It becomes EXPIRED when it is late and what was asked for otherwise.
NewStatus(s) == IF Late(s, now) THEN "EXPIRED" ELSE StatusAsked(s.op)

\* transition, lines 39-52: the copy is compared with the clock, gets its new
\* status and the UPDATE is about to be sent.
CheckPending(r) ==
    /\ sess[r].pc = "read" /\ Transitionable(sess[r])
    /\ sess' = [sess EXCEPT ![r] = [@ EXCEPT
                  !.pc = "flushing", !.at = now,
                  !.write = NewStatus(sess[r])]]
    /\ UNCHANGED <<overlap, now, approvals, locks, executions, memories>>

\* A copy that is not PENDING raises ValueError.  The route then looks at
\* the status once more: an EXPIRED approval gets its outcome recorded
\* (again), any other is refused at once.
CheckSettled(r) ==
    /\ sess[r].pc = "read" /\ ~Transitionable(sess[r])
    /\ sess' = [sess EXCEPT ![r] = [@ EXCEPT
                  !.at = now,
                  !.pc = IF sess[r].row.status = "EXPIRED" THEN "recording"
                         ELSE "replied",
                  !.reply = "conflict"]]
    /\ UNCHANGED <<overlap, now, approvals, locks, executions, memories>>

\* Mutant: the transition is committed before the tool runs.
FlushTransitionCommits(r) ==
    /\ sess[r].pc = "flushing"
    /\ locks[sess[r].target] = NoRequest
    /\ approvals' = [approvals EXCEPT ![sess[r].target].status = sess[r].write]
    /\ sess' = [sess EXCEPT ![r].pc = "held"]
    /\ UNCHANGED <<overlap, now, locks, executions, memories>>

\* session.flush: UPDATE approvals ... WHERE id waits for the row lock and
\* then overwrites whatever was committed in between.
FlushTransition(r) ==
    /\ sess[r].pc = "flushing"
    /\ locks[sess[r].target] = NoRequest
    /\ locks' = [locks EXCEPT ![sess[r].target] = r]
    /\ sess' = [sess EXCEPT ![r].pc = "held"]
    /\ UNCHANGED <<overlap, now, approvals, executions, memories>>

\* approve_and_execute: the executor gets the id back, finds the session's
\* own copy of the row (now APPROVED) and decides on it.
ExecuteApproved(r) ==
    /\ sess[r].pc = "held" /\ Approving(sess[r])
    /\ LET own == [sess[r].row EXCEPT !.status = sess[r].write]
           v   == Verdict(own.call, TRUE, {own})
       IN \E res \in (IF v = "RUN" THEN HandlerResult ELSE {v}) :
             sess' = [sess EXCEPT ![r] = [@ EXCEPT !.pc = "executed",
                                                   !.result = res]]
    /\ UNCHANGED <<overlap, now, approvals, locks, executions, memories>>

\* The route's commit: the ruling and, for approve, the audit row of its
\* execution become visible together, and the row lock is released.
CommitRuling(r) ==
    /\ \/ sess[r].pc = "executed" /\ sess[r].op = "approve"
       \/ sess[r].pc = "held" /\ ~Approving(sess[r])
    /\ approvals' = [approvals EXCEPT ![sess[r].target].status = sess[r].write]
    /\ executions' = [executions EXCEPT ![r] = sess[r].result]
    /\ Unlock(r)
    /\ sess' = [sess EXCEPT ![r] = [@ EXCEPT !.pc = "recording",
                                             !.committed = TRUE]]
    /\ UNCHANGED <<overlap, now, memories>>

\* The status the session's copy of the approval shows after the ruling
\* (mutant: the status that was asked for).
OwnStatusAsked(s) == IF s.committed THEN StatusAsked(s.op) ELSE s.row.status
OwnStatus(s) == IF s.committed THEN s.write ELSE s.row.status

\* What the route answers once the outcome was recorded, or not (mutant: the
\* tool's result is not looked at).
AnswerIgnoresTool(s) == IF s.reply = "conflict" \/ Overdue(s)
                        THEN "conflict" ELSE "ok"
Answer(s) == IF \/ s.reply = "conflict" \/ Overdue(s)
                \/ s.op = "approve" /\ s.result # "SUCCEEDED"
             THEN "conflict" ELSE "ok"

\* The outcome is recorded after the commit (mutant: before it).
OutcomeDueEarly(s) == s.pc \in {"held", "recording"}
OutcomeDue(s) == s.pc = "recording"

\* _record_terminal_outcome, in a transaction of its own.
RecordTerminalOutcome(r) ==
    /\ OutcomeDue(sess[r])
    /\ memories' = memories \cup
         {[approval |-> sess[r].target,
           approval_status |-> OwnStatus(sess[r]),
           execution_status |-> IF sess[r].result # "NONE" THEN sess[r].result
                                ELSE OwnStatus(sess[r])]}
    /\ sess' = [sess EXCEPT ![r] = [@ EXCEPT !.pc = "replied",
                                             !.reply = Answer(sess[r])]]
    /\ UNCHANGED <<overlap, now, approvals, locks, executions>>

\* Its except branch: any failure is rolled back and logged, the answer is
\* the same.
RecordOutcomeFails(r) ==
    /\ OutcomeDue(sess[r])
    /\ sess' = [sess EXCEPT ![r] = [@ EXCEPT !.pc = "replied",
                                             !.reply = Answer(sess[r])]]
    /\ UNCHANGED <<overlap, now, approvals, locks, executions, memories>>

-----------------------------------------------------------------------------
\* The process dies, the connection is lost or an exception leaves the route:
\* the session closes and PostgreSQL rolls the open transaction back.
Abort(r) ==
    /\ InFlight(r)
    /\ Unlock(r)
    /\ sess' = [sess EXCEPT ![r] = [@ EXCEPT !.pc = "replied",
                                             !.reply = "error"]]
    /\ UNCHANGED <<overlap, now, approvals, executions, memories>>

Tick == /\ now < MaxTime
        /\ now' = now + 1
        /\ UNCHANGED <<overlap, approvals, locks, executions, memories, sess>>

\* The steps a request that is being served takes by itself.
Advance(r) == \/ CommitRun(r)
              \/ CheckPending(r) \/ CheckSettled(r)
              \/ FlushTransition(r) \/ ExecuteApproved(r) \/ CommitRuling(r)
              \/ RecordTerminalOutcome(r) \/ RecordOutcomeFails(r)

Next == \/ \E r \in Requests, c \in Calls :
              \/ ExecuteUngated(r, c)
              \/ \E a \in Approvals : ExecuteGated(r, c, a)
        \/ \E r \in Requests, op \in Rulings, a \in Approvals :
              ReadApproval(r, op, a)
        \/ \E r \in Requests : Advance(r) \/ Abort(r)
        \/ Tick

Spec == Init /\ [][Next]_vars

\* A thread that serves a request keeps running and PostgreSQL hands a free
\* row lock to a waiter; nobody has to send a request or to crash.
FairSpec == Spec /\ \A r \in Requests : WF_vars(Advance(r))

-----------------------------------------------------------------------------
(* Properties.                                                             *)

\* The handler of request r's call was run, and the audit row committed.
\* FAILED without running is only "Invalid tool arguments".
Executed(r) == \/ executions[r] = "SUCCEEDED"
               \/ executions[r] = "FAILED" /\ sess[r].row.call.valid

HighRisk(r) == Risk(sess[r].row.call.tool) = "HIGH"

\* No high-risk handler runs except on an approve request for an approval
\* that was created for that very call, that the request read PENDING and
\* checked before its deadline; and once it has run, the approval is settled,
\* so that no later approve request can find it PENDING.
HighRiskOnlyThroughApproval ==
    \A r \in Requests : Executed(r) /\ HighRisk(r) =>
        /\ sess[r].op = "approve"
        /\ sess[r].row.status = "PENDING" /\ sess[r].at < sess[r].row.expires_at
        /\ approvals[sess[r].target].call = sess[r].row.call
        /\ approvals[sess[r].target].status \in Terminal

\* A committed APPROVED is never without its audited execution, whenever the
\* server dies: the status and the tool_executions row share one commit.
ApprovedMeansExecuted ==
    \A a \in Approvals : approvals[a].status = "APPROVED" =>
        \E r \in Requests : /\ sess[r].op = "approve" /\ sess[r].target = a
                            /\ executions[r] \in HandlerResult

\* Outcome memory never tells of something that did not happen: each record
\* is about a ruling that was committed, with the result it was audited with.
OutcomeMemoryIsTrue ==
    \A m \in memories : \E r \in Requests :
        /\ sess[r].committed /\ sess[r].target = m.approval
        /\ sess[r].write = m.approval_status
        /\ m.execution_status = IF m.approval_status = "APPROVED"
                                THEN executions[r] ELSE m.approval_status

\* An answer can be relied on, whatever other requests did meanwhile: "ok"
\* means that the status asked for was committed, for approve together with
\* a SUCCEEDED execution; a ruling committed under "conflict" is either an
\* approval whose tool failed or an expiry found too late.
AnswersAreTrue ==
    \A r \in Requests : sess[r].op \in Rulings =>
        /\ sess[r].reply = "ok" =>
              /\ sess[r].committed /\ sess[r].write = StatusAsked(sess[r].op)
              /\ sess[r].op = "approve" => executions[r] = "SUCCEEDED"
        /\ sess[r].reply = "conflict" /\ sess[r].committed =>
              \/ sess[r].write = "APPROVED" /\ executions[r] = "FAILED"
              \/ sess[r].write = "EXPIRED" /\ sess[r].row.expires_at <= sess[r].at

\* Row locks: a session owns the lock of an approval from its flush to the end
\* of its transaction, and nobody else, so a lock is never left behind by a
\* commit, an expiry that is answered 409 or a crash.
Holding(s) == s.pc = "held" \/ (s.pc = "executed" /\ s.op = "approve")

LocksBelongToTransactions ==
    \A a \in Approvals, r \in Requests :
        locks[a] = r <=> Holding(sess[r]) /\ sess[r].target = a

\* A settled approval never becomes PENDING again, and what it was created
\* for and its deadline never change.
SettledStaysSettled ==
    [][\A a \in Approvals : approvals[a].status # "NONE" =>
          /\ approvals[a].status \in Terminal =>
                approvals'[a].status \in Terminal
          /\ approvals'[a].call = approvals[a].call
          /\ approvals'[a].expires_at = approvals[a].expires_at]_vars

\* Every request that is being served is answered: no request waits for ever
\* on a row lock.
EveryRequestAnswered ==
    \A r \in Requests : InFlight(r) ~> sess[r].pc = "replied"

\* One request at a time: an approval is ruled on at most once, so its tool is
\* executed at most once.
SingleUse ==
    ~overlap => \A r1, r2 \in Requests :
        /\ sess[r1].committed /\ sess[r2].committed
        /\ sess[r1].target = sess[r2].target
        => r1 = r2

\* README.md, Safety Regression Gates: "Rejected approval does not execute
\* dangerous actions".
RejectedNeverExecuted ==
    \A r \in Requests : Executed(r) /\ sess[r].op = "approve" =>
        approvals[sess[r].target].status # "REJECTED"

\* One request at a time: what memory says of an approval is what the approvals
\* table says of it.
MemoryAgreesWithTable ==
    ~overlap => \A m \in memories : approvals[m.approval].status = m.approval_status

-----------------------------------------------------------------------------
(* The gate implements its contract when requests do not overlap.          *)

\* An execution that ended in res was committed for approval a.
Ended(a, res) == \E r \in Requests : /\ sess[r].op = "approve"
                                     /\ sess[r].target = a
                                     /\ executions[r] = res

OutcomeOf(a) == IF Ended(a, "SUCCEEDED") THEN "SUCCEEDED"
                ELSE IF Ended(a, "FAILED") THEN "FAILED" ELSE "NONE"

\* The contract is told what happens to an approval when requests are served
\* one after the other, and nothing of a thread pool, where it fails.
Told(v) == IF overlap THEN "NONE" ELSE v

Contract == INSTANCE ApprovalContract WITH
    status <- [a \in Approvals |-> Told(approvals[a].status)],
    outcome <- [a \in Approvals |-> Told(OutcomeOf(a))]

\* The refinement: every step of the gate is a step of its contract or
\* changes nothing the contract speaks of.
ContractHolds == Contract!Spec

-----------------------------------------------------------------------------
(* The inductive invariant behind the theorems of ApprovalGate_proofs.     *)

NeedsApproval(c) == Verdict(c, FALSE, {}) = "REQUIRES_APPROVAL"

\* The session decided on a ruling that may still be committed, or was.
Decided(s) == s.op \in Rulings /\ (s.pc \in {"flushing", "held", "executed"}
                                   \/ s.committed)

\* What the fields of one session, and the audit row e it committed, say of
\* each other.
RulingOK(s, e) ==
    /\ s.target \in Approvals
    /\ s.row.status # "NONE" => NeedsApproval(s.row.call)
    /\ s.pc = "executed" => s.op = "approve" /\ s.write = "APPROVED"
    /\ s.pc = "read" => s.write = "NONE"
    /\ Decided(s) =>
          /\ s.row.status = "PENDING"
          /\ s.write = IF Overdue(s) THEN "EXPIRED" ELSE StatusAsked(s.op)
    /\ (s.pc = "executed" \/ s.committed) /\ s.write = "APPROVED" =>
          s.result \in HandlerResult
    /\ s.write # "APPROVED" \/ s.pc \in {"read", "flushing", "held"} =>
          s.result = "NONE"
    /\ e = IF s.committed THEN s.result ELSE "NONE"
    /\ s.committed => s.pc \in {"recording", "replied"}
    /\ s.pc \in {"read", "flushing", "held", "executed"} => s.reply = "none"
    /\ s.pc = "recording" =>
          IF s.committed THEN s.reply = "none"
          ELSE s.row.status = "EXPIRED" /\ s.reply = "conflict"
               /\ s.write = "NONE"
    /\ s.reply = "ok" => s.committed /\ Answer(s) = "ok"
    /\ s.reply = "conflict" /\ s.committed =>
          Overdue(s) \/ (s.op = "approve" /\ s.result # "SUCCEEDED")

RunOK(s, e) ==
    /\ s.pc \in {"executed", "replied"} /\ ~s.committed
    /\ e \in {"NONE", s.result}
    /\ s.target \in Approvals => NeedsApproval(s.row.call)
                                 /\ s.row.status = "PENDING"
    /\ s.result = "SUCCEEDED" \/ (s.result = "FAILED" /\ s.row.call.valid) =>
          Risk(s.row.call.tool) # "HIGH"

SessionOK(s, e) ==
    /\ s.op = "none" => s = IdleSession /\ e = "NONE"
    /\ s.pc = "idle" => s.op = "none"
    /\ s.op = "run" => RunOK(s, e)
    /\ s.op \in Rulings => RulingOK(s, e)

SessionsOK ==
    /\ \A a \in Approvals : approvals[a].status # "NONE" =>
                                 NeedsApproval(approvals[a].call)
    /\ \A r \in Requests : SessionOK(sess[r], executions[r])

\* What sessions know of the approvals table.
TableOK ==
    /\ \A r \in Requests : sess[r].op \in Rulings /\ sess[r].row.status # "NONE" =>
          /\ approvals[sess[r].target].status # "NONE"
          /\ approvals[sess[r].target].call = sess[r].row.call
          /\ approvals[sess[r].target].expires_at = sess[r].row.expires_at
    /\ \A r \in Requests : sess[r].committed =>
          approvals[sess[r].target].status \in Terminal
    /\ \A r \in Requests :
          sess[r].op = "run" /\ sess[r].pc = "executed"
          /\ sess[r].target \in Approvals => approvals[sess[r].target] = NoRow
    /\ \A r1, r2 \in Requests :
          /\ sess[r1].op = "run" /\ sess[r2].op = "run"
          /\ sess[r1].target \in Approvals /\ sess[r1].target = sess[r2].target
          => r1 = r2

\* A terminal status, in the table or in a session's copy, was committed by
\* some ruling.
Ruled(a, st) == \E r \in Requests : /\ sess[r].committed
                                    /\ sess[r].target = a
                                    /\ sess[r].write = st

ProvenanceOK ==
    /\ \A a \in Approvals : approvals[a].status \in Terminal =>
                                 Ruled(a, approvals[a].status)
    /\ \A r \in Requests :
          sess[r].op \in Rulings /\ sess[r].row.status \in Terminal =>
             Ruled(sess[r].target, sess[r].row.status)

\* Without overlap a session that is being served sees the table as it is,
\* and a PENDING approval has not been ruled on.
AloneOK ==
    /\ \A r, s \in Requests : InFlight(r) /\ InFlight(s) => r = s
    /\ \A r \in Requests :
          sess[r].op \in Rulings
          /\ sess[r].pc \in {"read", "flushing", "held", "executed"} =>
             approvals[sess[r].target] = sess[r].row
=============================================================================
