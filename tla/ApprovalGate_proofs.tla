------------------------ MODULE ApprovalGate_proofs ------------------------
(***************************************************************************)
(* Theorems about ApprovalGate, for every value of its constants: any      *)
(* number of requests, approvals and calls, any lifetime of an approval    *)
(* and an unbounded clock.                                                 *)
(***************************************************************************)
EXTENDS ApprovalGate, TLAPS

USE RequestsAssumption, ApprovalsAssumption, CallsAssumption,
    TimeAssumption

-----------------------------------------------------------------------------
(* The executor's verdict.                                                 *)

\* Whatever the executor decides is a tool status or the go-ahead.
LEMMA VerdictType ==
    ASSUME NEW c \in AnyCall, NEW cited \in BOOLEAN, NEW rows
    PROVE  Verdict(c, cited, rows) \in ToolStatus \cup {"RUN"}
BY DEF Verdict, ToolStatus, AnyCall, NoCall

\* A call that was sent to the approval gate runs once it comes back with an
\* APPROVED row created for it.
LEMMA ApprovedCallRuns ==
    ASSUME NEW c \in AnyCall, NeedsApproval(c),
           NEW row, row.status = "APPROVED", row.call = c
    PROVE  Verdict(c, TRUE, {row}) = "RUN"
BY DEF NeedsApproval, Verdict, Authorises, AnyCall, NoCall, Gated, PolicyCheck

\* A high-risk call never gets the go-ahead without citing an approval.
LEMMA UncitedHighRiskNeverRuns ==
    ASSUME NEW c \in AnyCall, Risk(c.tool) = "HIGH"
    PROVE  Verdict(c, FALSE, {}) \in {"FAILED", "REQUIRES_APPROVAL"}
BY DEF Verdict, Risk, HighRiskTools, MediumRiskTools, LowRiskTools, Catalog,
       Gated, ApprovalFlagged, AnyCall, NoCall, PolicyCheck

-----------------------------------------------------------------------------
(* Type correctness, with what the fields of one session say of each other.*)

Base == TypeOK /\ SessionsOK /\ TableOK

LEMMA InitBase == Init => Base
BY DEF Init, Base, TypeOK, SessionsOK, SessionOK, IdleSession, Session, NoRow,
       Row, NoCall, AnyCall, RowStatus, Rulings, Terminal, TableOK

\* Every step but the clock's replaces one session, and the audit row of that
\* session at most.
LEMMA OneSession ==
    ASSUME Base, NEW r \in Requests,
           NEW s \in Session, sess' = [sess EXCEPT ![r] = s],
           NEW e \in ToolStatus \cup {"NONE"},
           executions' = [executions EXCEPT ![r] = e],
           SessionOK(s, e)
    PROVE  /\ sess' \in [Requests -> Session]
           /\ executions' \in [Requests -> ToolStatus \cup {"NONE"}]
           /\ \A q \in Requests : SessionOK(sess'[q], executions'[q])
<1>1. sess' \in [Requests -> Session]
  BY DEF Base, TypeOK
<1>2. executions' \in [Requests -> ToolStatus \cup {"NONE"}]
  BY DEF Base, TypeOK
<1>3. ASSUME NEW q \in Requests PROVE SessionOK(sess'[q], executions'[q])
  <2>1. CASE q = r
    <3>1. sess'[q] = s /\ executions'[q] = e
      BY <2>1 DEF Base, TypeOK
    <3>. QED  BY <3>1
  <2>2. CASE q # r
    <3>1. sess'[q] = sess[q] /\ executions'[q] = executions[q]
      BY <2>2 DEF Base, TypeOK
    <3>2. SessionOK(sess[q], executions[q])
      BY DEF Base, SessionsOK
    <3>. QED  BY <3>1, <3>2
  <2>. QED  BY <2>1, <2>2
<1>. QED  BY <1>1, <1>2, <1>3

\* The steps of an agent run.
LEMMA ExecuteUngatedSessions ==
    ASSUME Base, NEW r \in Requests, NEW c \in Calls, ExecuteUngated(r, c)
    PROVE  TypeOK' /\ SessionsOK'
<1>1. sess[r] = IdleSession /\ executions[r] = "NONE"
  BY DEF Base, SessionsOK, SessionOK, ExecuteUngated, Admit
<1>2. c \in AnyCall
  BY DEF AnyCall
<1>3. PICK res \in (IF Verdict(c, FALSE, {}) = "RUN" THEN HandlerResult
                    ELSE {Verdict(c, FALSE, {})}) :
        sess' = [sess EXCEPT ![r] = [@ EXCEPT
                   !.pc = "executed", !.op = "run",
                   !.row = [status |-> "NONE", call |-> c, expires_at |-> 0],
                   !.result = res]]
  BY DEF ExecuteUngated
<1>4. res \in ToolStatus
  BY <1>2, <1>3, VerdictType DEF HandlerResult, ToolStatus
<1> DEFINE s == [sess[r] EXCEPT
                   !.pc = "executed", !.op = "run",
                   !.row = [status |-> "NONE", call |-> c, expires_at |-> 0],
                   !.result = res]
<1>5. s \in Session
  <2>1. sess[r] \in Session
    BY DEF Base, TypeOK
  <2>2. [status |-> "NONE", call |-> c, expires_at |-> 0] \in Row
    BY <1>2 DEF Row, RowStatus
  <2>. QED  BY <1>4, <2>1, <2>2 DEF Session
<1>6. SessionOK(s, "NONE")
  <2>1. res = "SUCCEEDED" \/ (res = "FAILED" /\ c.valid) => Risk(c.tool) # "HIGH"
    <3>1. res = "FAILED" /\ c.valid => Verdict(c, FALSE, {}) = "RUN"
      BY <1>3 DEF Verdict
    <3>2. res = "SUCCEEDED" => Verdict(c, FALSE, {}) = "RUN"
      BY <1>3 DEF Verdict
    <3>. QED  BY <1>2, <3>1, <3>2, UncitedHighRiskNeverRuns
  <2>. QED
    BY <1>1, <2>1 DEF SessionOK, RunOK, IdleSession, Rulings
<1>7. sess' = [sess EXCEPT ![r] = s] /\ executions' = [executions EXCEPT ![r] = "NONE"]
  BY <1>1, <1>3 DEF ExecuteUngated, Base, TypeOK
<1> HIDE DEF s
<1>. QED
  BY <1>5, <1>6, <1>7, OneSession DEF Base, ExecuteUngated, TypeOK, SessionsOK

LEMMA ExecuteGatedSessions ==
    ASSUME Base, NEW r \in Requests, NEW c \in Calls, NEW a \in Approvals,
           ExecuteGated(r, c, a)
    PROVE  TypeOK' /\ SessionsOK'
<1> DEFINE s == [sess[r] EXCEPT
                   !.pc = "executed", !.op = "run", !.target = a,
                   !.row = [status |-> "PENDING", call |-> c,
                            expires_at |-> now + TTL],
                   !.result = "REQUIRES_APPROVAL"]
<1>1. sess[r] = IdleSession /\ executions[r] = "NONE"
  BY DEF Base, SessionsOK, SessionOK, ExecuteGated, Admit
<1>2. c \in AnyCall /\ now + TTL \in Nat
  BY DEF AnyCall, Base, TypeOK
<1>3. s \in Session
  <2>1. sess[r] \in Session
    BY DEF Base, TypeOK
  <2>2. [status |-> "PENDING", call |-> c, expires_at |-> now + TTL] \in Row
    BY <1>2 DEF Row, RowStatus
  <2>. QED  BY <2>1, <2>2 DEF Session, ToolStatus
<1>4. SessionOK(s, "NONE")
  <2>1. /\ s.op = "run" /\ s.pc = "executed" /\ ~s.committed
        /\ s.row.call = c /\ s.row.status = "PENDING"
        /\ s.result = "REQUIRES_APPROVAL"
    BY <1>1 DEF IdleSession
  <2>. QED
    BY <2>1 DEF SessionOK, RunOK, Rulings, ExecuteGated, NeedsApproval
<1>5. sess' = [sess EXCEPT ![r] = s] /\ executions' = [executions EXCEPT ![r] = "NONE"]
  BY <1>1 DEF ExecuteGated, Base, TypeOK
<1> HIDE DEF s
<1>. QED
  BY <1>3, <1>4, <1>5, OneSession DEF Base, ExecuteGated, TypeOK, SessionsOK

LEMMA CommitRunSessions ==
    ASSUME Base, NEW r \in Requests, CommitRun(r)
    PROVE  TypeOK' /\ SessionsOK'
<1> DEFINE s == [sess[r] EXCEPT !.pc = "replied", !.reply = "ok"]
<1>1. sess[r] \in Session /\ SessionOK(sess[r], executions[r])
  BY DEF Base, TypeOK, SessionsOK
<1>2. s \in Session /\ sess[r].result \in ToolStatus \cup {"NONE"}
  BY <1>1 DEF Session
<1>3. RunOK(sess[r], executions[r])
  BY <1>1 DEF CommitRun, SessionOK
<1>4. SessionOK(s, sess[r].result)
  BY <1>1, <1>3 DEF CommitRun, SessionOK, RunOK, Session, Rulings
<1>5. /\ sess' = [sess EXCEPT ![r] = s]
      /\ executions' = [executions EXCEPT ![r] = sess[r].result]
  BY DEF CommitRun
<1> HIDE DEF s
<1>6. approvals' \in [Approvals -> Row]
  BY <1>1 DEF CommitRun, Base, TypeOK, Session
<1>7. \A a \in Approvals : approvals'[a].status # "NONE" =>
                             NeedsApproval(approvals'[a].call)
  BY <1>3 DEF CommitRun, RunOK, Base, SessionsOK, TypeOK
<1>. QED
  BY <1>2, <1>4, <1>5, <1>6, <1>7, OneSession
  DEF Base, CommitRun, TypeOK, SessionsOK

\* The steps of a ruling.
LEMMA ReadApprovalSessions ==
    ASSUME Base, NEW r \in Requests, NEW op \in Rulings, NEW a \in Approvals,
           ReadApproval(r, op, a)
    PROVE  TypeOK' /\ SessionsOK'
<1> DEFINE none == approvals[a].status = "NONE"
           s == [sess[r] EXCEPT
                   !.op = op, !.target = a, !.row = approvals[a],
                   !.pc = IF none THEN "replied" ELSE "read",
                   !.reply = IF none THEN "conflict" ELSE "none"]
<1>1. sess[r] = IdleSession /\ executions[r] = "NONE"
  BY DEF Base, SessionsOK, SessionOK, ReadApproval, Admit
<1>2. approvals[a] \in Row /\ (~none => NeedsApproval(approvals[a].call))
  BY DEF Base, TypeOK, SessionsOK
<1>3. s \in Session
  <2>1. sess[r] \in Session
    BY DEF Base, TypeOK
  <2>. QED  BY <1>2, <2>1 DEF Session
<1>4. SessionOK(s, "NONE")
  <2>1. RulingOK(s, "NONE")
    BY <1>1, <1>2 DEF RulingOK, Decided, IdleSession
  <2>. QED
    BY <1>1, <2>1 DEF SessionOK, IdleSession, Rulings
<1>5. sess' = [sess EXCEPT ![r] = s] /\ executions' = [executions EXCEPT ![r] = "NONE"]
  BY <1>1 DEF ReadApproval, Base, TypeOK
<1> HIDE DEF s
<1>. QED
  BY <1>3, <1>4, <1>5, OneSession DEF Base, ReadApproval, TypeOK, SessionsOK

\* A session past its first step is a ruling, unless it is a run's.
LEMMA IsRuling ==
    ASSUME Base, NEW r \in Requests,
           sess[r].pc \in {"read", "flushing", "held", "recording"}
           \/ (sess[r].pc = "executed" /\ sess[r].op = "approve")
    PROVE  /\ sess[r] \in Session
           /\ sess[r].op \in Rulings
           /\ RulingOK(sess[r], executions[r])
           /\ executions[r] \in ToolStatus \cup {"NONE"}
<1>1. /\ sess[r] \in Session /\ SessionOK(sess[r], executions[r])
      /\ executions[r] \in ToolStatus \cup {"NONE"}
  BY DEF Base, TypeOK, SessionsOK
<1>. QED
  BY <1>1 DEF SessionOK, RunOK, Session, IdleSession, Rulings

LEMMA CheckPendingSessions ==
    ASSUME Base, NEW r \in Requests, CheckPending(r)
    PROVE  TypeOK' /\ SessionsOK'
<1> DEFINE s == [sess[r] EXCEPT !.pc = "flushing", !.at = now,
                                !.write = NewStatus(sess[r])]
<1>1. /\ sess[r] \in Session /\ sess[r].op \in Rulings
      /\ RulingOK(sess[r], executions[r])
      /\ executions[r] \in ToolStatus \cup {"NONE"}
  BY IsRuling DEF CheckPending
<1>2. s \in Session
  BY <1>1 DEF Base, TypeOK, Session, NewStatus, Late, StatusAsked, Terminal, Rulings
<1>3. SessionOK(s, executions[r])
  <2>1. RulingOK(s, executions[r])
    BY <1>1 DEF CheckPending, Transitionable, RulingOK, Decided, Overdue, Late,
                NewStatus, Session
  <2>. QED
    BY <1>1, <2>1 DEF SessionOK, Session, Rulings
<1>4. /\ sess' = [sess EXCEPT ![r] = s]
      /\ executions' = [executions EXCEPT ![r] = executions[r]]
  BY DEF CheckPending, Base, TypeOK
<1> HIDE DEF s
<1>. QED
  BY <1>1, <1>2, <1>3, <1>4, OneSession DEF Base, CheckPending, TypeOK, SessionsOK

LEMMA CheckSettledSessions ==
    ASSUME Base, NEW r \in Requests, CheckSettled(r)
    PROVE  TypeOK' /\ SessionsOK'
<1> DEFINE s == [sess[r] EXCEPT
                   !.at = now,
                   !.pc = IF sess[r].row.status = "EXPIRED" THEN "recording"
                          ELSE "replied",
                   !.reply = "conflict"]
<1>1. /\ sess[r] \in Session /\ sess[r].op \in Rulings
      /\ RulingOK(sess[r], executions[r])
      /\ executions[r] \in ToolStatus \cup {"NONE"}
  BY IsRuling DEF CheckSettled
<1>2. s \in Session
  BY <1>1 DEF Base, TypeOK, Session
<1>3. SessionOK(s, executions[r])
  <2>1. RulingOK(s, executions[r])
    BY <1>1 DEF CheckSettled, RulingOK, Decided, Session
  <2>. QED
    BY <1>1, <2>1 DEF SessionOK, Session, Rulings
<1>4. /\ sess' = [sess EXCEPT ![r] = s]
      /\ executions' = [executions EXCEPT ![r] = executions[r]]
  BY DEF CheckSettled, Base, TypeOK
<1> HIDE DEF s
<1>. QED
  BY <1>1, <1>2, <1>3, <1>4, OneSession DEF Base, CheckSettled, TypeOK, SessionsOK

LEMMA FlushTransitionSessions ==
    ASSUME Base, NEW r \in Requests, FlushTransition(r)
    PROVE  TypeOK' /\ SessionsOK'
<1> DEFINE s == [sess[r] EXCEPT !.pc = "held"]
<1>1. /\ sess[r] \in Session /\ sess[r].op \in Rulings
      /\ RulingOK(sess[r], executions[r])
      /\ executions[r] \in ToolStatus \cup {"NONE"}
  BY IsRuling DEF FlushTransition
<1>2. s \in Session
  BY <1>1 DEF Session
<1>3. SessionOK(s, executions[r])
  <2>1. RulingOK(s, executions[r])
    BY <1>1 DEF FlushTransition, RulingOK, Decided, Overdue, Late, Session
  <2>. QED
    BY <1>1, <2>1 DEF SessionOK, Session, Rulings
<1>4. /\ sess' = [sess EXCEPT ![r] = s]
      /\ executions' = [executions EXCEPT ![r] = executions[r]]
  BY DEF FlushTransition, Base, TypeOK
<1>5. locks' \in [Approvals -> Requests \cup {NoRequest}]
  BY DEF FlushTransition, Base, TypeOK
<1> HIDE DEF s
<1>. QED
  BY <1>1, <1>2, <1>3, <1>4, <1>5, OneSession
  DEF Base, FlushTransition, TypeOK, SessionsOK

LEMMA ExecuteApprovedSessions ==
    ASSUME Base, NEW r \in Requests, ExecuteApproved(r)
    PROVE  TypeOK' /\ SessionsOK'
<1> DEFINE own == [sess[r].row EXCEPT !.status = sess[r].write]
<1>1. /\ sess[r] \in Session /\ sess[r].op \in Rulings
      /\ RulingOK(sess[r], executions[r])
      /\ executions[r] \in ToolStatus \cup {"NONE"}
  BY IsRuling DEF ExecuteApproved
<1>2. sess[r].write = "APPROVED" /\ NeedsApproval(sess[r].row.call)
  BY <1>1 DEF ExecuteApproved, Approving, RulingOK, Decided, StatusAsked
<1>3. Verdict(own.call, TRUE, {own}) = "RUN"
  <2>1. /\ own.status = "APPROVED" /\ own.call = sess[r].row.call
        /\ sess[r].row.call \in AnyCall
    BY <1>1, <1>2 DEF Session, Row
  <2>. HIDE DEF own
  <2>. QED  BY <1>2, <2>1, ApprovedCallRuns
<1>4. PICK res \in HandlerResult :
        sess' = [sess EXCEPT ![r] = [@ EXCEPT !.pc = "executed", !.result = res]]
  BY <1>3 DEF ExecuteApproved
<1> DEFINE s == [sess[r] EXCEPT !.pc = "executed", !.result = res]
<1>5. s \in Session
  BY <1>1, <1>4 DEF Session, HandlerResult, ToolStatus
<1>6. SessionOK(s, executions[r])
  <2>1. RulingOK(s, executions[r])
    BY <1>1, <1>2, <1>4 DEF ExecuteApproved, Approving, RulingOK, Decided, Overdue, Late,
                            Session
  <2>. QED
    BY <1>1, <2>1 DEF SessionOK, Session, Rulings
<1>7. /\ sess' = [sess EXCEPT ![r] = s]
      /\ executions' = [executions EXCEPT ![r] = executions[r]]
  BY <1>4 DEF ExecuteApproved, Base, TypeOK
<1> HIDE DEF s
<1>. QED
  BY <1>1, <1>5, <1>6, <1>7, OneSession DEF Base, ExecuteApproved, TypeOK, SessionsOK

LEMMA CommitRulingSessions ==
    ASSUME Base, NEW r \in Requests, CommitRuling(r)
    PROVE  TypeOK' /\ SessionsOK'
<1> DEFINE s == [sess[r] EXCEPT !.pc = "recording", !.committed = TRUE]
<1>1. /\ sess[r] \in Session /\ sess[r].op \in Rulings
      /\ RulingOK(sess[r], executions[r])
  BY IsRuling DEF CommitRuling
<1>2. s \in Session /\ sess[r].result \in ToolStatus \cup {"NONE"}
  BY <1>1 DEF Session
<1>3. SessionOK(s, sess[r].result)
  <2>1. RulingOK(s, sess[r].result)
    BY <1>1 DEF CommitRuling, RulingOK, Decided, Overdue, Late, Session, Rulings,
                Approving, StatusAsked
  <2>. QED
    BY <1>1, <2>1 DEF SessionOK, Session, Rulings
<1>4. /\ sess' = [sess EXCEPT ![r] = s]
      /\ executions' = [executions EXCEPT ![r] = sess[r].result]
  BY DEF CommitRuling, Base, TypeOK
<1> HIDE DEF s
<1>5. approvals' \in [Approvals -> Row]
  <2>1. sess[r].write \in RowStatus
    BY <1>1 DEF Session, RowStatus, Terminal
  <2>. QED  BY <2>1 DEF CommitRuling, Base, TypeOK, Row
<1>6. \A a \in Approvals : approvals'[a].status # "NONE" =>
                             NeedsApproval(approvals'[a].call)
  <2>1. approvals[sess[r].target].status # "NONE"
    BY <1>1 DEF CommitRuling, RulingOK, Decided, Base, TableOK
  <2>2. ASSUME NEW a \in Approvals
        PROVE  /\ approvals'[a].call = approvals[a].call
               /\ approvals'[a].status # "NONE" => approvals[a].status # "NONE"
    BY <1>1, <2>1 DEF RulingOK, CommitRuling, Base, TypeOK, Row
  <2>. QED  BY <2>2 DEF Base, SessionsOK
<1>. QED
  BY <1>2, <1>3, <1>4, <1>5, <1>6, OneSession
  DEF Base, CommitRuling, TypeOK, SessionsOK, Unlock

\* A session that records an outcome: its own status is terminal, and the
\* answer it gives is the one Answer computes.
LEMMA RecordedSession ==
    ASSUME Base, NEW r \in Requests, sess[r].pc = "recording"
    PROVE  LET s == [sess[r] EXCEPT !.pc = "replied", !.reply = Answer(sess[r])]
           IN  s \in Session /\ SessionOK(s, executions[r])
<1> DEFINE s == [sess[r] EXCEPT !.pc = "replied", !.reply = Answer(sess[r])]
<1>1. /\ sess[r] \in Session /\ sess[r].op \in Rulings
      /\ RulingOK(sess[r], executions[r])
  BY IsRuling
<1>2. Answer(sess[r]) \in {"ok", "conflict"}
  BY DEF Answer
<1>3. s \in Session
  BY <1>1, <1>2 DEF Session
<1>4. RulingOK(s, executions[r])
  BY <1>1 DEF RulingOK, Decided, Overdue, Late, Answer, Session
<1>. QED
  BY <1>1, <1>3, <1>4 DEF SessionOK, Session, Rulings

LEMMA RecordTerminalOutcomeSessions ==
    ASSUME Base, NEW r \in Requests, RecordTerminalOutcome(r)
    PROVE  TypeOK' /\ SessionsOK'
<1> DEFINE s == [sess[r] EXCEPT !.pc = "replied", !.reply = Answer(sess[r])]
<1>1. /\ sess[r] \in Session /\ sess[r].op \in Rulings
      /\ RulingOK(sess[r], executions[r])
      /\ executions[r] \in ToolStatus \cup {"NONE"}
  BY IsRuling DEF RecordTerminalOutcome, OutcomeDue
<1>2. s \in Session /\ SessionOK(s, executions[r])
  BY RecordedSession DEF RecordTerminalOutcome, OutcomeDue
<1>3. sess[r].target \in Approvals /\ OwnStatus(sess[r]) \in Terminal
  BY <1>1 DEF RecordTerminalOutcome, OutcomeDue, RulingOK, Decided, OwnStatus,
              Session, Terminal, StatusAsked, Rulings
<1>4. memories' \subseteq Memory
  BY <1>1, <1>3 DEF RecordTerminalOutcome, Memory, Session, Base, TypeOK
<1>5. /\ sess' = [sess EXCEPT ![r] = s]
      /\ executions' = [executions EXCEPT ![r] = executions[r]]
  BY DEF RecordTerminalOutcome, Base, TypeOK
<1> HIDE DEF s
<1>. QED
  BY <1>1, <1>2, <1>4, <1>5, OneSession
  DEF Base, RecordTerminalOutcome, TypeOK, SessionsOK

LEMMA RecordOutcomeFailsSessions ==
    ASSUME Base, NEW r \in Requests, RecordOutcomeFails(r)
    PROVE  TypeOK' /\ SessionsOK'
<1> DEFINE s == [sess[r] EXCEPT !.pc = "replied", !.reply = Answer(sess[r])]
<1>1. s \in Session /\ SessionOK(s, executions[r])
  BY RecordedSession DEF RecordOutcomeFails, OutcomeDue
<1>2. /\ sess' = [sess EXCEPT ![r] = s]
      /\ executions' = [executions EXCEPT ![r] = executions[r]]
      /\ executions[r] \in ToolStatus \cup {"NONE"}
  BY DEF RecordOutcomeFails, Base, TypeOK
<1> HIDE DEF s
<1>. QED
  BY <1>1, <1>2, OneSession DEF Base, RecordOutcomeFails, TypeOK, SessionsOK

LEMMA AbortSessions ==
    ASSUME Base, NEW r \in Requests, Abort(r)
    PROVE  TypeOK' /\ SessionsOK'
<1> DEFINE s == [sess[r] EXCEPT !.pc = "replied", !.reply = "error"]
<1>1. sess[r] \in Session /\ SessionOK(sess[r], executions[r])
  BY DEF Base, TypeOK, SessionsOK
<1>2. s \in Session
  BY <1>1 DEF Session
<1>3. SessionOK(s, executions[r])
  BY <1>1, <1>2 DEF Abort, InFlight, SessionOK, RunOK, RulingOK, Decided, Overdue, Late,
                    Session, Rulings, IdleSession
<1>4. /\ sess' = [sess EXCEPT ![r] = s]
      /\ executions' = [executions EXCEPT ![r] = executions[r]]
      /\ executions[r] \in ToolStatus \cup {"NONE"}
  BY DEF Abort, Base, TypeOK
<1> HIDE DEF s
<1>. QED
  BY <1>2, <1>3, <1>4, OneSession DEF Base, Abort, TypeOK, SessionsOK, Unlock

LEMMA NextSessions == Base /\ [Next]_vars => TypeOK' /\ SessionsOK'
<1> SUFFICES ASSUME Base, [Next]_vars PROVE TypeOK' /\ SessionsOK'
  OBVIOUS
<1>1. CASE Tick
  BY <1>1 DEF Tick, Base, TypeOK, SessionsOK
<1>2. CASE UNCHANGED vars
  BY <1>2 DEF vars, Base, TypeOK, SessionsOK
<1>3. ASSUME NEW r \in Requests, Advance(r) PROVE TypeOK' /\ SessionsOK'
  BY <1>3, CommitRunSessions, CheckPendingSessions, CheckSettledSessions,
     FlushTransitionSessions, ExecuteApprovedSessions, CommitRulingSessions,
     RecordTerminalOutcomeSessions, RecordOutcomeFailsSessions DEF Advance
<1>. QED
  BY <1>1, <1>2, <1>3, ExecuteUngatedSessions, ExecuteGatedSessions,
     ReadApprovalSessions, AbortSessions DEF Next

-----------------------------------------------------------------------------
(* What one step can do to a row and to a session.  Everything below only  *)
(* uses these two facts.                                                   *)

\* A row stays, appears PENDING when the run that proposed it commits, or is
\* given the status a ruling wrote when that ruling commits.
RowStep(a) ==
    \/ approvals'[a] = approvals[a]
    \/ /\ approvals[a].status = "NONE" /\ approvals'[a].status = "PENDING"
       /\ \E p \in Requests : /\ sess[p].op = "run" /\ sess[p].target = a
                              /\ sess[p].pc = "executed"
                              /\ sess'[p].pc = "replied"
    \/ /\ approvals[a].status # "NONE" /\ approvals'[a].status \in Terminal
       /\ approvals'[a].call = approvals[a].call
       /\ approvals'[a].expires_at = approvals[a].expires_at
       /\ \E p \in Requests : /\ sess[p].target = a /\ sess[p].op \in Rulings
                              /\ sess[p].pc \in {"held", "executed"}
                              /\ sess'[p].committed /\ sess'[p].target = a
                              /\ sess'[p].write = approvals'[a].status

\* A session stays, starts as a ruling or as a run, or goes on with the same
\* target and copy; what it committed it does not change.
SessionStep(q) ==
    \/ sess'[q] = sess[q]
    \/ /\ sess[q].op = "none" /\ sess'[q].op \in Rulings
       /\ sess'[q].target \in Approvals
       /\ sess'[q].row = approvals[sess'[q].target]
       /\ approvals' = approvals /\ ~sess'[q].committed
    \/ /\ sess[q].op = "none" /\ sess'[q].op = "run"
       /\ approvals' = approvals /\ ~sess'[q].committed
       /\ sess'[q].target \in Approvals => Fresh(sess'[q].target)
       /\ \A p \in Requests \ {q} : sess'[p] = sess[p]
    \/ /\ sess[q].op # "none"
       /\ sess'[q].op = sess[q].op /\ sess'[q].target = sess[q].target
       /\ sess'[q].row = sess[q].row
       /\ sess[q].op = "run" => sess'[q].pc = "replied"
       /\ sess[q].committed => /\ sess'[q].committed
                               /\ sess'[q].write = sess[q].write
                               /\ sess'[q].result = sess[q].result
       /\ sess'[q].committed /\ ~sess[q].committed =>
             approvals'[sess[q].target].status \in Terminal

LEMMA RowSteps ==
    ASSUME Base, [Next]_vars, NEW a \in Approvals
    PROVE  RowStep(a)
<1>1. CASE approvals' = approvals
  BY <1>1 DEF RowStep
<1>2. ASSUME NEW r \in Requests, CommitRun(r) PROVE RowStep(a)
  <2>1. sess[r] \in Session /\ RunOK(sess[r], executions[r])
    BY <1>2 DEF CommitRun, Base, TypeOK, SessionsOK, SessionOK
  <2>2. CASE a = sess[r].target
    <3>1. approvals[a].status = "NONE" /\ sess[r].row.status = "PENDING"
      BY <1>2, <2>1, <2>2 DEF CommitRun, Base, TableOK, RunOK, NoRow
    <3>2. approvals'[a] = sess[r].row /\ sess'[r].pc = "replied"
      BY <1>2, <2>1, <2>2 DEF CommitRun, Base, TypeOK, Session
    <3>. QED  BY <1>2, <2>2, <3>1, <3>2 DEF RowStep, CommitRun
  <2>3. CASE a # sess[r].target
    BY <1>2, <2>3 DEF CommitRun, RowStep
  <2>. QED  BY <2>2, <2>3
<1>3. ASSUME NEW r \in Requests, CommitRuling(r) PROVE RowStep(a)
  <2>1. /\ sess[r] \in Session /\ sess[r].op \in Rulings
        /\ RulingOK(sess[r], executions[r])
    BY <1>3, IsRuling DEF CommitRuling
  <2>2. CASE a = sess[r].target
    <3>1. sess[r].row.status = "PENDING" /\ sess[r].write \in Terminal
      BY <1>3, <2>1 DEF CommitRuling, RulingOK, Decided, StatusAsked, Terminal,
                        Rulings
    <3>2. approvals[a].status # "NONE"
      BY <2>1, <2>2, <3>1 DEF Base, TableOK
    <3>3. approvals'[a] = [approvals[a] EXCEPT !.status = sess[r].write]
      BY <1>3, <2>2 DEF CommitRuling, Base, TypeOK
    <3>4. /\ approvals'[a].status = sess[r].write
          /\ approvals'[a].call = approvals[a].call
          /\ approvals'[a].expires_at = approvals[a].expires_at
      BY <3>3 DEF Base, TypeOK, Row
    <3>5. /\ sess'[r].committed /\ sess'[r].write = sess[r].write
          /\ sess'[r].target = sess[r].target
      BY <1>3, <2>1 DEF CommitRuling, Base, TypeOK, Session
    <3>. QED
      BY <1>3, <2>1, <2>2, <3>1, <3>2, <3>4, <3>5 DEF RowStep, CommitRuling
  <2>3. CASE a # sess[r].target
    BY <1>3, <2>3 DEF CommitRuling, RowStep, Base, TypeOK
  <2>. QED  BY <2>2, <2>3
<1>4. \/ approvals' = approvals
      \/ \E r \in Requests : CommitRun(r) \/ CommitRuling(r)
  BY DEF Next, Advance, vars, ExecuteUngated, ExecuteGated, ReadApproval,
         CheckPending, CheckSettled, FlushTransition, ExecuteApproved,
         RecordTerminalOutcome, RecordOutcomeFails, Abort, Tick
<1>. QED  BY <1>1, <1>2, <1>3, <1>4

LEMMA SessionSteps ==
    ASSUME Base, [Next]_vars, NEW q \in Requests
    PROVE  SessionStep(q)
<1>0. sess[q] \in Session /\ SessionOK(sess[q], executions[q])
  BY DEF Base, TypeOK, SessionsOK
<1>1. CASE sess'[q] = sess[q]
  BY <1>1 DEF SessionStep
<1>2. ASSUME NEW c \in Calls, ExecuteUngated(q, c) PROVE SessionStep(q)
  <2>1. sess[q] = IdleSession
    BY <1>0, <1>2 DEF ExecuteUngated, Admit, SessionOK
  <2>2. /\ sess'[q].op = "run" /\ sess'[q].target = NoApproval
        /\ ~sess'[q].committed
        /\ \A p \in Requests \ {q} : sess'[p] = sess[p]
    BY <1>0, <1>2, <2>1 DEF ExecuteUngated, Base, TypeOK, Session, IdleSession
  <2>. QED
    BY <1>2, <2>1, <2>2 DEF SessionStep, ExecuteUngated, IdleSession
<1>3. ASSUME NEW c \in Calls, NEW a \in Approvals, ExecuteGated(q, c, a)
      PROVE  SessionStep(q)
  <2>1. sess[q] = IdleSession
    BY <1>0, <1>3 DEF ExecuteGated, Admit, SessionOK
  <2>2. /\ sess'[q].op = "run" /\ sess'[q].target = a /\ ~sess'[q].committed
        /\ \A p \in Requests \ {q} : sess'[p] = sess[p]
    BY <1>0, <1>3, <2>1 DEF ExecuteGated, Base, TypeOK, Session, IdleSession
  <2>. QED
    BY <1>3, <2>1, <2>2 DEF SessionStep, ExecuteGated, IdleSession
<1>4. ASSUME NEW op \in Rulings, NEW a \in Approvals, ReadApproval(q, op, a)
      PROVE  SessionStep(q)
  <2>1. sess[q] = IdleSession
    BY <1>0, <1>4 DEF ReadApproval, Admit, SessionOK
  <2>2. /\ sess'[q].op = op /\ sess'[q].target = a
        /\ sess'[q].row = approvals[a] /\ ~sess'[q].committed
    BY <1>0, <1>4, <2>1 DEF ReadApproval, Base, TypeOK, Session, IdleSession
  <2>. QED
    BY <1>4, <2>1, <2>2 DEF SessionStep, ReadApproval, IdleSession
<1>5. ASSUME CommitRuling(q) PROVE SessionStep(q)
  <2>1. sess[q].op \in Rulings /\ RulingOK(sess[q], executions[q])
    BY <1>5, IsRuling DEF CommitRuling
  <2>2. sess'[q] = [sess[q] EXCEPT !.pc = "recording", !.committed = TRUE]
    BY <1>5 DEF CommitRuling, Base, TypeOK
  <2>3. /\ sess'[q].op = sess[q].op /\ sess'[q].target = sess[q].target
        /\ sess'[q].row = sess[q].row /\ sess'[q].committed
        /\ sess'[q].write = sess[q].write /\ sess'[q].result = sess[q].result
    BY <1>0, <2>2 DEF Session
  <2>4. approvals'[sess[q].target].status \in Terminal
    BY <1>5, <2>1 DEF CommitRuling, RulingOK, Decided, StatusAsked, Terminal,
                      Rulings, Base, TypeOK, Row
  <2>. QED
    BY <2>1, <2>3, <2>4 DEF SessionStep, Rulings
<1>6. ASSUME sess[q].op # "none",
             sess'[q].op = sess[q].op, sess'[q].target = sess[q].target,
             sess'[q].row = sess[q].row,
             sess'[q].committed = sess[q].committed,
             sess[q].op = "run" => sess'[q].pc = "replied",
             sess[q].committed => /\ sess'[q].write = sess[q].write
                                  /\ sess'[q].result = sess[q].result
      PROVE  SessionStep(q)
  BY <1>6 DEF SessionStep
<1>9. \/ sess[q].pc \in {"read", "flushing", "held", "recording"}
      \/ (sess[q].pc = "executed" /\ sess[q].op = "approve")
      => /\ sess[q].op \in Rulings /\ sess[q].op # "none" /\ sess[q].op # "run"
         /\ RulingOK(sess[q], executions[q])
  BY IsRuling DEF Rulings
<1>10. ASSUME CommitRun(q) PROVE SessionStep(q)
  <2>1. sess'[q] = [sess[q] EXCEPT !.pc = "replied", !.reply = "ok"]
    BY <1>10 DEF CommitRun, Base, TypeOK
  <2>2. /\ sess'[q].op = sess[q].op /\ sess'[q].target = sess[q].target
        /\ sess'[q].row = sess[q].row
        /\ sess'[q].committed = sess[q].committed
        /\ sess'[q].write = sess[q].write /\ sess'[q].result = sess[q].result
        /\ sess'[q].pc = "replied"
    BY <1>0, <2>1 DEF Session
  <2>3. sess[q].op # "none"
    BY <1>10 DEF CommitRun
  <2>. QED  BY <1>6, <2>2, <2>3
<1>11. ASSUME CheckPending(q) PROVE SessionStep(q)
  <2>1. sess'[q] = [sess[q] EXCEPT !.pc = "flushing", !.at = now,
                                   !.write = NewStatus(sess[q])]
    BY <1>11 DEF CheckPending, Base, TypeOK
  <2>2. /\ sess'[q].op = sess[q].op /\ sess'[q].target = sess[q].target
        /\ sess'[q].row = sess[q].row
        /\ sess'[q].committed = sess[q].committed
    BY <1>0, <2>1 DEF Session
  <2>3. sess[q].pc = "read"
    BY <1>11 DEF CheckPending
  <2>4. ~sess[q].committed
    BY <1>9, <2>3 DEF RulingOK
  <2>. QED  BY <1>6, <1>9, <2>2, <2>3, <2>4
<1>12. ASSUME CheckSettled(q) PROVE SessionStep(q)
  <2>1. sess'[q] = [sess[q] EXCEPT
          !.at = now,
          !.pc = IF sess[q].row.status = "EXPIRED" THEN "recording"
                 ELSE "replied",
          !.reply = "conflict"]
    BY <1>12 DEF CheckSettled, Base, TypeOK
  <2>2. /\ sess'[q].op = sess[q].op /\ sess'[q].target = sess[q].target
        /\ sess'[q].row = sess[q].row
        /\ sess'[q].committed = sess[q].committed
        /\ sess'[q].write = sess[q].write /\ sess'[q].result = sess[q].result
    BY <1>0, <2>1 DEF Session
  <2>3. sess[q].pc = "read"
    BY <1>12 DEF CheckSettled
  <2>. QED  BY <1>6, <1>9, <2>2, <2>3
<1>13. ASSUME FlushTransition(q) PROVE SessionStep(q)
  <2>1. sess'[q] = [sess[q] EXCEPT !.pc = "held"]
    BY <1>13 DEF FlushTransition, Base, TypeOK
  <2>2. /\ sess'[q].op = sess[q].op /\ sess'[q].target = sess[q].target
        /\ sess'[q].row = sess[q].row
        /\ sess'[q].committed = sess[q].committed
        /\ sess'[q].write = sess[q].write /\ sess'[q].result = sess[q].result
    BY <1>0, <2>1 DEF Session
  <2>3. sess[q].pc = "flushing"
    BY <1>13 DEF FlushTransition
  <2>. QED  BY <1>6, <1>9, <2>2, <2>3
<1>14. ASSUME ExecuteApproved(q) PROVE SessionStep(q)
  <2>1. PICK res : sess'[q] = [sess[q] EXCEPT !.pc = "executed", !.result = res]
    BY <1>14 DEF ExecuteApproved, Base, TypeOK
  <2>2. /\ sess'[q].op = sess[q].op /\ sess'[q].target = sess[q].target
        /\ sess'[q].row = sess[q].row
        /\ sess'[q].committed = sess[q].committed
    BY <1>0, <2>1 DEF Session
  <2>3. sess[q].pc = "held"
    BY <1>14 DEF ExecuteApproved
  <2>4. ~sess[q].committed
    BY <1>9, <2>3 DEF RulingOK
  <2>. QED  BY <1>6, <1>9, <2>2, <2>3, <2>4
<1>15. ASSUME RecordTerminalOutcome(q) \/ RecordOutcomeFails(q)
       PROVE  SessionStep(q)
  <2>1. sess'[q] = [sess[q] EXCEPT !.pc = "replied", !.reply = Answer(sess[q])]
    BY <1>15 DEF RecordTerminalOutcome, RecordOutcomeFails, Base, TypeOK
  <2>2. /\ sess'[q].op = sess[q].op /\ sess'[q].target = sess[q].target
        /\ sess'[q].row = sess[q].row
        /\ sess'[q].committed = sess[q].committed
        /\ sess'[q].write = sess[q].write /\ sess'[q].result = sess[q].result
    BY <1>0, <2>1 DEF Session
  <2>3. sess[q].pc = "recording"
    BY <1>15 DEF RecordTerminalOutcome, RecordOutcomeFails, OutcomeDue
  <2>. QED  BY <1>6, <1>9, <2>2, <2>3
<1>16. ASSUME Abort(q) PROVE SessionStep(q)
  <2>1. sess'[q] = [sess[q] EXCEPT !.pc = "replied", !.reply = "error"]
    BY <1>16 DEF Abort, Base, TypeOK
  <2>2. /\ sess'[q].op = sess[q].op /\ sess'[q].target = sess[q].target
        /\ sess'[q].row = sess[q].row
        /\ sess'[q].committed = sess[q].committed
        /\ sess'[q].write = sess[q].write /\ sess'[q].result = sess[q].result
        /\ sess'[q].pc = "replied"
    BY <1>0, <2>1 DEF Session
  <2>3. sess[q].op # "none"
    BY <1>0, <1>16 DEF Abort, InFlight, SessionOK, IdleSession
  <2>. QED  BY <1>6, <2>2, <2>3
<1>7. ASSUME NEW r \in Requests, r # q,
             \/ \E c \in Calls : \/ ExecuteUngated(r, c)
                                 \/ \E a \in Approvals : ExecuteGated(r, c, a)
             \/ \E op \in Rulings, a \in Approvals : ReadApproval(r, op, a)
             \/ Advance(r) \/ Abort(r)
      PROVE  sess'[q] = sess[q]
  BY <1>7 DEF Advance, ExecuteUngated, ExecuteGated, ReadApproval, CommitRun,
              CheckPending, CheckSettled, FlushTransition, ExecuteApproved,
              CommitRuling, RecordTerminalOutcome, RecordOutcomeFails, Abort,
              Base, TypeOK
<1>8. Tick \/ UNCHANGED vars => sess'[q] = sess[q]
  BY DEF Tick, vars
<1>. QED
  BY <1>1, <1>2, <1>3, <1>4, <1>5, <1>7, <1>8, <1>10, <1>11, <1>12, <1>13, <1>14,
     <1>15, <1>16 DEF Next, Advance

LEMMA NextTable == Base /\ [Next]_vars => TableOK'
<1> SUFFICES ASSUME Base, [Next]_vars PROVE TableOK'
  OBVIOUS
<1>1. \A q \in Requests : SessionStep(q)
  BY SessionSteps
<1>2. \A a \in Approvals : RowStep(a)
  BY RowSteps
<1>3. /\ \A q \in Requests : sess[q] \in Session /\ sess'[q] \in Session
      /\ \A a \in Approvals : approvals[a] \in Row /\ approvals'[a] \in Row
      /\ \A q \in Requests : sess'[q].op \in Rulings => sess'[q].target \in Approvals
      /\ \A q \in Requests : sess[q].op \in Rulings => sess[q].target \in Approvals
      /\ \A q \in Requests : sess[q].committed => sess[q].op \in Rulings
      /\ \A q \in Requests : sess'[q].committed => sess'[q].op \in Rulings
  BY NextSessions DEF Base, TypeOK, SessionsOK, SessionOK, RunOK, RulingOK,
                      Session, IdleSession, Rulings
<1>4. ASSUME NEW q \in Requests, sess'[q].op \in Rulings,
             sess'[q].row.status # "NONE"
      PROVE  /\ approvals'[sess'[q].target].status # "NONE"
             /\ approvals'[sess'[q].target].call = sess'[q].row.call
             /\ approvals'[sess'[q].target].expires_at = sess'[q].row.expires_at
  <2>1. /\ approvals[sess'[q].target].status # "NONE"
        /\ approvals[sess'[q].target].call = sess'[q].row.call
        /\ approvals[sess'[q].target].expires_at = sess'[q].row.expires_at
    BY <1>1, <1>3, <1>4 DEF SessionStep, Base, TableOK, Rulings
  <2>. QED
    BY <1>2, <1>3, <1>4, <2>1 DEF RowStep, Terminal
<1>5. ASSUME NEW q \in Requests, sess'[q].committed
      PROVE  approvals'[sess'[q].target].status \in Terminal
  <2>1. CASE sess[q].committed
    <3>1. /\ sess'[q].target = sess[q].target /\ sess[q].target \in Approvals
          /\ approvals[sess[q].target].status \in Terminal
      BY <1>1, <1>3, <1>5, <2>1 DEF SessionStep, Base, TableOK, Rulings
    <3>. QED  BY <1>2, <3>1 DEF RowStep, Terminal
  <2>2. CASE ~sess[q].committed
    BY <1>1, <1>5, <2>2 DEF SessionStep
  <2>. QED  BY <2>1, <2>2
<1>6. ASSUME NEW q \in Requests, sess'[q].op = "run", sess'[q].pc = "executed",
             sess'[q].target \in Approvals
      PROVE  approvals'[sess'[q].target] = NoRow
  <2>0. SessionStep(q)
    BY <1>1
  <2>1. approvals[sess'[q].target] = NoRow
    <3>1. CASE sess'[q] = sess[q]
      BY <1>6, <3>1 DEF Base, TableOK
    <3>2. CASE sess'[q] # sess[q]
      BY <1>6, <2>0, <3>2 DEF SessionStep, Fresh, Rulings
    <3>. QED  BY <3>1, <3>2
  <2>2. ASSUME NEW p \in Requests, sess[p].op = "run",
               sess[p].target = sess'[q].target, sess[p].pc = "executed",
               sess'[p].pc = "replied"
        PROVE  FALSE
    <3>1. CASE sess'[q] = sess[q]
      <4>1. p = q
        BY <1>6, <2>2, <3>1 DEF Base, TableOK
      <4>. QED  BY <1>6, <2>2, <4>1
    <3>2. CASE sess'[q] # sess[q]
      <4>1. Fresh(sess'[q].target)
        BY <1>6, <2>0, <3>2 DEF SessionStep, Rulings
      <4>. QED  BY <2>2, <4>1 DEF Fresh
    <3>. QED  BY <3>1, <3>2
  <2>3. approvals[sess'[q].target].status = "NONE" /\ RowStep(sess'[q].target)
    BY <1>2, <1>6, <2>1 DEF NoRow
  <2>. QED
    BY <2>1, <2>2, <2>3 DEF RowStep
<1>7. ASSUME NEW p \in Requests, NEW q \in Requests,
             sess'[p].op = "run", sess'[q].op = "run",
             sess'[p].target \in Approvals, sess'[p].target = sess'[q].target
      PROVE  p = q
  <2>1. ASSUME NEW x \in Requests, NEW y \in Requests, x # y,
               sess[x].op = "none", sess'[x].op = "run", sess'[y].op = "run",
               sess'[x].target \in Approvals, sess'[x].target = sess'[y].target
        PROVE  FALSE
    <3>1. SessionStep(x)
      BY <1>1
    <3>2. sess'[y] = sess[y] /\ Fresh(sess'[x].target)
      BY <2>1, <3>1 DEF SessionStep, Rulings
    <3>. QED  BY <2>1, <3>2 DEF Fresh
  <2>2. CASE sess[p].op = "none" \/ sess[q].op = "none"
    BY <1>7, <2>1, <2>2
  <2>3. CASE sess[p].op # "none" /\ sess[q].op # "none"
    BY <1>1, <1>7, <2>3 DEF SessionStep, Base, TableOK
  <2>. QED  BY <2>2, <2>3
<1>. QED
  BY <1>4, <1>5, <1>6, <1>7 DEF TableOK

LEMMA Invariance == Spec => []Base
<1>1. Base /\ [Next]_vars => Base'
  BY NextSessions, NextTable DEF Base
<1>. QED  BY InitBase, <1>1, PTL DEF Spec

\* In every reachable state each variable has its type.
THEOREM TypeCorrect == Spec => []TypeOK
<1>1. Base => TypeOK
  BY DEF Base
<1>. QED  BY Invariance, <1>1, PTL

\* No high-risk tool runs except on an approval that was read PENDING and in
\* time, that was created for this very call, and that is settled since.
THEOREM HighRiskGated == Spec => []HighRiskOnlyThroughApproval
<1>1. Base => HighRiskOnlyThroughApproval
  <2> SUFFICES ASSUME Base, NEW r \in Requests, Executed(r), HighRisk(r)
      PROVE  /\ sess[r].op = "approve"
             /\ sess[r].row.status = "PENDING"
             /\ sess[r].at < sess[r].row.expires_at
             /\ approvals[sess[r].target].call = sess[r].row.call
             /\ approvals[sess[r].target].status \in Terminal
    BY DEF HighRiskOnlyThroughApproval
  <2>1. sess[r] \in Session /\ SessionOK(sess[r], executions[r])
    BY DEF Base, TypeOK, SessionsOK
  <2>2. sess[r].op \in Rulings /\ RulingOK(sess[r], executions[r])
    BY <2>1 DEF SessionOK, RunOK, Executed, HighRisk, Session, Rulings
  <2>3. sess[r].committed /\ Decided(sess[r])
    BY <2>2 DEF RulingOK, Executed, Decided
  <2>4. sess[r].write = "APPROVED" /\ sess[r].result \in HandlerResult
    BY <2>2, <2>3 DEF RulingOK, Executed
  <2>5. sess[r].op = "approve" /\ ~Overdue(sess[r]) /\ sess[r].row.status = "PENDING"
    BY <2>2, <2>3, <2>4 DEF RulingOK, StatusAsked, Rulings
  <2>6. sess[r].at < sess[r].row.expires_at
    BY <2>1, <2>5 DEF Overdue, Late, Session, Row
  <2>. QED
    BY <2>2, <2>3, <2>5, <2>6 DEF Base, TableOK
<1>. QED  BY Invariance, <1>1, PTL

\* Once settled, an approval is never PENDING again; its call and its
\* deadline never change.
THEOREM Settled == Spec => SettledStaysSettled
<1>1. Base /\ [Next]_vars =>
        [\A a \in Approvals : approvals[a].status # "NONE" =>
          /\ approvals[a].status \in Terminal =>
                approvals'[a].status \in Terminal
          /\ approvals'[a].call = approvals[a].call
          /\ approvals'[a].expires_at = approvals[a].expires_at]_vars
  BY RowSteps DEF RowStep
<1>. QED  BY Invariance, <1>1, PTL DEF Spec, SettledStaysSettled

\* "ok" is only answered for a committed ruling as asked for, and a ruling
\* committed under "conflict" is a failed tool or an expiry found too late.
THEOREM AnswersTrue == Spec => []AnswersAreTrue
<1>1. Base => AnswersAreTrue
  <2> SUFFICES ASSUME Base, NEW r \in Requests, sess[r].op \in Rulings
      PROVE  /\ sess[r].reply = "ok" =>
                  /\ sess[r].committed
                  /\ sess[r].write = StatusAsked(sess[r].op)
                  /\ sess[r].op = "approve" => executions[r] = "SUCCEEDED"
             /\ sess[r].reply = "conflict" /\ sess[r].committed =>
                  \/ sess[r].write = "APPROVED" /\ executions[r] = "FAILED"
                  \/ /\ sess[r].write = "EXPIRED"
                     /\ sess[r].row.expires_at <= sess[r].at
    BY DEF AnswersAreTrue
  <2>1. RulingOK(sess[r], executions[r])
    BY DEF Base, SessionsOK, SessionOK
  <2>2. sess[r].committed =>
          sess[r].write = IF Overdue(sess[r]) THEN "EXPIRED"
                          ELSE StatusAsked(sess[r].op)
    BY <2>1 DEF RulingOK, Decided
  <2>3. CASE sess[r].reply = "ok"
    <3>1. sess[r].committed /\ Answer(sess[r]) = "ok"
      BY <2>1, <2>3 DEF RulingOK
    <3>. QED  BY <2>1, <2>2, <2>3, <3>1 DEF Answer, RulingOK
  <2>4. CASE sess[r].reply = "conflict" /\ sess[r].committed
    <3>1. CASE Overdue(sess[r])
      BY <2>2, <2>4, <3>1 DEF Overdue, Late
    <3>2. CASE ~Overdue(sess[r])
      <4>1. /\ sess[r].op = "approve" /\ sess[r].result # "SUCCEEDED"
            /\ sess[r].write = "APPROVED"
        BY <2>1, <2>2, <2>4, <3>2 DEF RulingOK, StatusAsked
      <4>. QED  BY <2>1, <2>4, <4>1 DEF RulingOK, HandlerResult
    <3>. QED  BY <3>1, <3>2
  <2>. QED  BY <2>3, <2>4
<1>. QED  BY Invariance, <1>1, PTL

-----------------------------------------------------------------------------
(* Where a terminal status comes from.                                     *)


\* A ruling that was committed stays committed, with what it wrote.
LEMMA RulingStays ==
    ASSUME Base, [Next]_vars, NEW p \in Requests, sess[p].committed
    PROVE  /\ sess'[p].committed /\ sess'[p].target = sess[p].target
           /\ sess'[p].write = sess[p].write
           /\ sess'[p].result = sess[p].result
           /\ sess'[p].op = sess[p].op
<1>1. sess[p].op # "none"
  BY DEF Base, SessionsOK, SessionOK, IdleSession
<1>. QED  BY <1>1, SessionSteps DEF SessionStep

LEMMA NextProvenance == Base /\ ProvenanceOK /\ [Next]_vars => ProvenanceOK'
<1> SUFFICES ASSUME Base, ProvenanceOK, [Next]_vars PROVE ProvenanceOK'
  OBVIOUS
<1>1. ASSUME NEW a \in Approvals, approvals'[a].status \in Terminal
      PROVE  \E p \in Requests : /\ sess'[p].committed /\ sess'[p].target = a
                                 /\ sess'[p].write = approvals'[a].status
  <2>1. CASE approvals'[a] = approvals[a]
    BY <1>1, <2>1, RulingStays DEF ProvenanceOK, Ruled
  <2>2. CASE approvals'[a] # approvals[a]
    BY <1>1, <2>2, RowSteps DEF RowStep, Terminal
  <2>. QED  BY <2>1, <2>2
<1>2. ASSUME NEW q \in Requests, sess'[q].op \in Rulings,
             sess'[q].row.status \in Terminal
      PROVE  \E p \in Requests :
                /\ sess'[p].committed /\ sess'[p].target = sess'[q].target
                /\ sess'[p].write = sess'[q].row.status
  <2>1. SessionStep(q)
    BY SessionSteps
  <2>2. \E p \in Requests :
           /\ sess[p].committed /\ sess[p].target = sess'[q].target
           /\ sess[p].write = sess'[q].row.status
    BY <1>2, <2>1 DEF SessionStep, ProvenanceOK, Ruled, Rulings
  <2>. QED  BY <2>2, RulingStays
<1>. QED
  BY <1>1, <1>2 DEF ProvenanceOK, Ruled

LEMMA Provenance == Spec => [](Base /\ ProvenanceOK)
<1>1. Init => ProvenanceOK
  BY DEF Init, ProvenanceOK, NoRow, Terminal, IdleSession, Rulings
<1>. QED  BY <1>1, Invariance, NextProvenance, PTL DEF Spec

\* A ruling that wrote APPROVED is an approve request with an audited result.
LEMMA ApprovingRuling ==
    ASSUME Base, NEW r \in Requests, sess[r].committed,
           sess[r].write = "APPROVED"
    PROVE  sess[r].op = "approve" /\ executions[r] \in HandlerResult
<1>1. sess[r].op \in Rulings /\ RulingOK(sess[r], executions[r])
  BY DEF Base, TypeOK, SessionsOK, SessionOK, RunOK, IdleSession, Session,
         Rulings
<1>. QED  BY <1>1 DEF RulingOK, Decided, StatusAsked, Rulings

\* A committed APPROVED is never without its audited execution.
THEOREM ApprovedExecuted == Spec => []ApprovedMeansExecuted
<1>1. Base /\ ProvenanceOK => ApprovedMeansExecuted
  <2> SUFFICES ASSUME Base, ProvenanceOK, NEW a \in Approvals,
                      approvals[a].status = "APPROVED"
      PROVE  \E r \in Requests : /\ sess[r].op = "approve"
                                 /\ sess[r].target = a
                                 /\ executions[r] \in HandlerResult
    BY DEF ApprovedMeansExecuted
  <2>1. PICK p \in Requests : /\ sess[p].committed /\ sess[p].target = a
                              /\ sess[p].write = "APPROVED"
    BY DEF ProvenanceOK, Ruled, Terminal
  <2>. QED  BY <2>1, ApprovingRuling
<1>. QED  BY Provenance, <1>1, PTL

\* What outcome memory says of an approval, some request committed.
THEOREM MemoryTrue == Spec => []OutcomeMemoryIsTrue
<1>1. Init => OutcomeMemoryIsTrue
  BY DEF Init, OutcomeMemoryIsTrue
<1>2. Base /\ ProvenanceOK /\ OutcomeMemoryIsTrue /\ Base' /\ [Next]_vars
        => OutcomeMemoryIsTrue'
  <2> SUFFICES ASSUME Base, ProvenanceOK, OutcomeMemoryIsTrue, Base', [Next]_vars,
                      NEW m \in memories'
      PROVE  \E r \in Requests :
                /\ sess'[r].committed /\ sess'[r].target = m.approval
                /\ sess'[r].write = m.approval_status
                /\ m.execution_status = IF m.approval_status = "APPROVED"
                                        THEN executions'[r]
                                        ELSE m.approval_status
    BY DEF OutcomeMemoryIsTrue
  <2> DEFINE Backs(r) ==
         /\ sess[r].committed /\ sess[r].target = m.approval
         /\ sess[r].write = m.approval_status
         /\ m.execution_status = IF m.approval_status = "APPROVED"
                                 THEN sess[r].result ELSE m.approval_status
  <2>1. \A r \in Requests : sess[r].committed => executions[r] = sess[r].result
    BY DEF Base, SessionsOK, SessionOK, RunOK, RulingOK, IdleSession, Rulings,
           TypeOK, Session
  <2>2. \A r \in Requests : sess'[r].committed => executions'[r] = sess'[r].result
    BY DEF Base, SessionsOK, SessionOK, RunOK, RulingOK, IdleSession, Rulings,
           TypeOK, Session
  <2>3. \E r \in Requests : Backs(r)
    <3>1. CASE m \in memories
      BY <2>1, <3>1 DEF OutcomeMemoryIsTrue
    <3>2. CASE m \notin memories
      <4>1. PICK r \in Requests : RecordTerminalOutcome(r)
        BY <3>2 DEF Next, Advance, vars, ExecuteUngated, ExecuteGated,
                    ReadApproval, CommitRun, CheckPending, CheckSettled,
                    FlushTransition, ExecuteApproved, CommitRuling,
                    RecordOutcomeFails, Abort, Tick
      <4>2. /\ m.approval = sess[r].target
            /\ m.approval_status = OwnStatus(sess[r])
            /\ m.execution_status = IF sess[r].result # "NONE"
                                    THEN sess[r].result ELSE OwnStatus(sess[r])
        BY <3>2, <4>1 DEF RecordTerminalOutcome
      <4>3. /\ sess[r].op \in Rulings /\ RulingOK(sess[r], executions[r])
            /\ sess[r].pc = "recording"
        BY <4>1, IsRuling DEF RecordTerminalOutcome, OutcomeDue
      <4>4. CASE sess[r].committed
        <5>1. /\ sess[r].write = "APPROVED" => sess[r].result # "NONE"
              /\ sess[r].write # "APPROVED" => sess[r].result = "NONE"
          BY <4>3, <4>4 DEF RulingOK, HandlerResult
        <5>. QED  BY <4>2, <4>4, <5>1 DEF OwnStatus
      <4>5. CASE ~sess[r].committed
        <5>1. /\ sess[r].row.status = "EXPIRED" /\ sess[r].result = "NONE"
              /\ sess[r].op \in Rulings
          BY <4>3, <4>5 DEF RulingOK
        <5>2. PICK p \in Requests : /\ sess[p].committed
                                    /\ sess[p].target = sess[r].target
                                    /\ sess[p].write = "EXPIRED"
          BY <5>1 DEF ProvenanceOK, Ruled, Terminal
        <5>. QED  BY <4>2, <4>5, <5>1, <5>2 DEF OwnStatus
      <4>. QED  BY <4>4, <4>5
    <3>. QED  BY <3>1, <3>2
  <2>4. PICK r \in Requests : Backs(r)
    BY <2>3
  <2>. QED  BY <2>2, <2>4, RulingStays
<1>. QED  BY Provenance, Invariance, <1>1, <1>2, PTL DEF Spec

-----------------------------------------------------------------------------
(* Row locks.                                                              *)

\* A step of r, as far as locks are concerned: r neither holds a lock before
\* nor after, or keeps the one it holds, or takes a free one, or lets go.
LockStep(r) ==
    \/ /\ locks' = locks
       /\ \/ ~Holding(sess[r]) /\ ~Holding(sess'[r])
          \/ /\ Holding(sess[r]) /\ Holding(sess'[r])
             /\ sess'[r].target = sess[r].target
    \/ /\ ~Holding(sess[r]) /\ Holding(sess'[r])
       /\ sess'[r].target = sess[r].target
       /\ locks[sess[r].target] = NoRequest
       /\ locks' = [locks EXCEPT ![sess[r].target] = r]
    \/ ~Holding(sess'[r]) /\ Unlock(r)

LEMMA LockSteps ==
    ASSUME Base, [Next]_vars
    PROVE  \/ locks' = locks /\ sess' = sess
           \/ \E r \in Requests : /\ LockStep(r)
                                  /\ \A q \in Requests \ {r} : sess'[q] = sess[q]
<1>0. \A r \in Requests : sess[r] \in Session /\ SessionOK(sess[r], executions[r])
  BY DEF Base, TypeOK, SessionsOK
<1>1. ASSUME NEW r \in Requests, NEW c \in Calls,
             \/ ExecuteUngated(r, c)
             \/ \E a \in Approvals : ExecuteGated(r, c, a)
      PROVE  LockStep(r) /\ \A q \in Requests \ {r} : sess'[q] = sess[q]
  <2>1. ~Holding(sess[r])
    BY <1>1 DEF ExecuteUngated, ExecuteGated, Admit, Holding
  <2>2. sess'[r].op = "run" /\ sess'[r].pc = "executed"
    <3>1. CASE ExecuteUngated(r, c)
      BY <1>0, <3>1 DEF ExecuteUngated, Base, TypeOK, Session
    <3>2. CASE \E a \in Approvals : ExecuteGated(r, c, a)
      BY <1>0, <3>2 DEF ExecuteGated, Base, TypeOK, Session
    <3>. QED  BY <1>1, <3>1, <3>2
  <2>3. ~Holding(sess'[r])
    BY <2>2 DEF Holding
  <2>. QED
    BY <1>1, <2>1, <2>3 DEF LockStep, ExecuteUngated, ExecuteGated, Base, TypeOK
<1>2. ASSUME NEW r \in Requests, NEW op \in Rulings, NEW a \in Approvals,
             ReadApproval(r, op, a)
      PROVE  LockStep(r) /\ \A q \in Requests \ {r} : sess'[q] = sess[q]
  <2>1. ~Holding(sess[r])
    BY <1>2 DEF ReadApproval, Admit, Holding
  <2>2. sess'[r].pc \in {"replied", "read"}
    BY <1>0, <1>2 DEF ReadApproval, Base, TypeOK, Session
  <2>3. ~Holding(sess'[r])
    BY <2>2 DEF Holding
  <2>. QED
    BY <1>2, <2>1, <2>3 DEF LockStep, ReadApproval, Base, TypeOK
<1>3. ASSUME NEW r \in Requests,
             \/ CommitRun(r) \/ CheckPending(r) \/ CheckSettled(r)
             \/ RecordTerminalOutcome(r) \/ RecordOutcomeFails(r)
      PROVE  LockStep(r) /\ \A q \in Requests \ {r} : sess'[q] = sess[q]
  <2>1. ~Holding(sess[r])
    BY <1>3 DEF CommitRun, CheckPending, CheckSettled, RecordTerminalOutcome,
                RecordOutcomeFails, OutcomeDue, Holding
  <2>2. sess'[r].pc \in {"flushing", "recording", "replied"}
    <3>1. CASE CommitRun(r)
      BY <1>0, <3>1 DEF CommitRun, Base, TypeOK, Session
    <3>2. CASE CheckPending(r)
      BY <1>0, <3>2 DEF CheckPending, Base, TypeOK, Session
    <3>3. CASE CheckSettled(r)
      BY <1>0, <3>3 DEF CheckSettled, Base, TypeOK, Session
    <3>4. CASE RecordTerminalOutcome(r) \/ RecordOutcomeFails(r)
      <4>1. sess'[r] = [sess[r] EXCEPT !.pc = "replied",
                                       !.reply = Answer(sess[r])]
        BY <3>4 DEF RecordTerminalOutcome, RecordOutcomeFails, Base, TypeOK
      <4>. QED  BY <1>0, <4>1 DEF Session
    <3>. QED  BY <1>3, <3>1, <3>2, <3>3, <3>4
  <2>3. ~Holding(sess'[r])
    BY <2>2 DEF Holding
  <2>. QED
    BY <1>3, <2>1, <2>3 DEF LockStep, CommitRun, CheckPending, CheckSettled,
                  RecordTerminalOutcome, RecordOutcomeFails, Base, TypeOK
<1>4. ASSUME NEW r \in Requests, FlushTransition(r)
      PROVE  LockStep(r) /\ \A q \in Requests \ {r} : sess'[q] = sess[q]
  <2>1. sess'[r].pc = "held" /\ sess'[r].target = sess[r].target
    BY <1>0, <1>4 DEF FlushTransition, Base, TypeOK, Session
  <2>. QED
    BY <1>4, <2>1 DEF LockStep, Holding, FlushTransition, Base, TypeOK
<1>5. ASSUME NEW r \in Requests, ExecuteApproved(r)
      PROVE  LockStep(r) /\ \A q \in Requests \ {r} : sess'[q] = sess[q]
  <2>1. /\ sess'[r].pc = "executed" /\ sess'[r].target = sess[r].target
        /\ sess'[r].op = sess[r].op
    BY <1>0, <1>5 DEF ExecuteApproved, Base, TypeOK, Session
  <2>. QED
    BY <1>5, <2>1 DEF LockStep, Holding, ExecuteApproved, Approving, Base, TypeOK
<1>6. ASSUME NEW r \in Requests, CommitRuling(r) \/ Abort(r)
      PROVE  LockStep(r) /\ \A q \in Requests \ {r} : sess'[q] = sess[q]
  <2>1. sess'[r].pc \in {"recording", "replied"}
    <3>1. CASE CommitRuling(r)
      BY <1>0, <3>1 DEF CommitRuling, Base, TypeOK, Session
    <3>2. CASE Abort(r)
      BY <1>0, <3>2 DEF Abort, Base, TypeOK, Session
    <3>. QED  BY <1>6, <3>1, <3>2
  <2>. QED
    BY <1>6, <2>1 DEF LockStep, Holding, CommitRuling, Abort, Base, TypeOK
<1>7. Tick \/ UNCHANGED vars => locks' = locks /\ sess' = sess
  BY DEF Tick, vars
<1>. QED
  BY <1>1, <1>2, <1>3, <1>4, <1>5, <1>6, <1>7 DEF Next, Advance

\* An approval's row is locked by a request exactly while that request is
\* between its flush and the end of its transaction.
THEOREM LocksRight == Spec => []LocksBelongToTransactions
<1>1. Init => LocksBelongToTransactions
  BY RequestsAssumption
  DEF Init, LocksBelongToTransactions, Holding, IdleSession
<1>2. Base /\ LocksBelongToTransactions /\ [Next]_vars
        => LocksBelongToTransactions'
  <2> SUFFICES ASSUME Base, LocksBelongToTransactions, [Next]_vars,
                      NEW a \in Approvals, NEW q \in Requests
      PROVE  locks'[a] = q <=> Holding(sess'[q]) /\ sess'[q].target = a
    BY DEF LocksBelongToTransactions
  <2>1. locks[a] = q <=> Holding(sess[q]) /\ sess[q].target = a
    BY DEF LocksBelongToTransactions
  <2>2. CASE locks' = locks /\ sess' = sess
    BY <2>1, <2>2
  <2>3. ASSUME NEW r \in Requests, LockStep(r),
               \A p \in Requests \ {r} : sess'[p] = sess[p]
        PROVE  locks'[a] = q <=> Holding(sess'[q]) /\ sess'[q].target = a
    <3>1. CASE locks' = locks
                 /\ \/ ~Holding(sess[r]) /\ ~Holding(sess'[r])
                    \/ /\ Holding(sess[r]) /\ Holding(sess'[r])
                       /\ sess'[r].target = sess[r].target
      BY <2>1, <2>3, <3>1
    <3>2. CASE /\ ~Holding(sess[r]) /\ Holding(sess'[r])
               /\ sess'[r].target = sess[r].target
               /\ locks[sess[r].target] = NoRequest
               /\ locks' = [locks EXCEPT ![sess[r].target] = r]
      BY <2>1, <2>3, <3>2, RequestsAssumption DEF Base, TypeOK
    <3>3. CASE ~Holding(sess'[r]) /\ Unlock(r)
      BY <2>1, <2>3, <3>3, RequestsAssumption DEF Unlock, Base, TypeOK
    <3>. QED  BY <2>3, <3>1, <3>2, <3>3 DEF LockStep
  <2>. QED  BY <2>2, <2>3, LockSteps
<1>. QED  BY Invariance, <1>1, <1>2, PTL DEF Spec

-----------------------------------------------------------------------------
(* What the approval gate promises when its requests do not overlap, the   *)
(* way evaluation/runner.py and the tests drive it: an approval is ruled   *)
(* on once, memory agrees with the approvals table, and the gate           *)
(* implements ApprovalContract.  None of the three holds on a thread pool. *)


\* Only the request whose ruling is committed becomes committed.
LEMMA NewlyCommitted ==
    ASSUME Base, [Next]_vars, NEW q \in Requests,
           sess'[q].committed, ~sess[q].committed
    PROVE  CommitRuling(q)
<1>0. sess[q] \in Session /\ sess'[q] # sess[q]
  BY DEF Base, TypeOK
<1> SUFFICES ASSUME ~CommitRuling(q) PROVE FALSE
  OBVIOUS
<1>1. CASE \E c \in Calls : \/ ExecuteUngated(q, c)
                            \/ \E a \in Approvals : ExecuteGated(q, c, a)
  <2>1. PICK c \in Calls : \/ ExecuteUngated(q, c)
                           \/ \E a \in Approvals : ExecuteGated(q, c, a)
    BY <1>1
  <2>2. CASE ExecuteUngated(q, c)
    BY <1>0, <2>2 DEF ExecuteUngated, Base, TypeOK, Session
  <2>3. CASE \E a \in Approvals : ExecuteGated(q, c, a)
    BY <1>0, <2>3 DEF ExecuteGated, Base, TypeOK, Session
  <2>. QED  BY <2>1, <2>2, <2>3
<1>2. CASE \E op \in Rulings, a \in Approvals : ReadApproval(q, op, a)
  BY <1>0, <1>2 DEF ReadApproval, Base, TypeOK, Session
<1>3. CASE CommitRun(q)
  BY <1>0, <1>3 DEF CommitRun, Base, TypeOK, Session
<1>4. CASE CheckPending(q)
  BY <1>0, <1>4 DEF CheckPending, Base, TypeOK, Session
<1>5. CASE CheckSettled(q)
  BY <1>0, <1>5 DEF CheckSettled, Base, TypeOK, Session
<1>6. CASE FlushTransition(q)
  BY <1>0, <1>6 DEF FlushTransition, Base, TypeOK, Session
<1>7. CASE ExecuteApproved(q)
  BY <1>0, <1>7 DEF ExecuteApproved, Base, TypeOK, Session
<1>8. CASE RecordTerminalOutcome(q) \/ RecordOutcomeFails(q)
  <2>1. sess'[q] = [sess[q] EXCEPT !.pc = "replied", !.reply = Answer(sess[q])]
    BY <1>8 DEF RecordTerminalOutcome, RecordOutcomeFails, Base, TypeOK
  <2>. QED  BY <1>0, <2>1 DEF Session
<1>9. CASE Abort(q)
  BY <1>0, <1>9 DEF Abort, Base, TypeOK, Session
<1>10. ASSUME NEW r \in Requests, r # q,
              \/ \E c \in Calls : \/ ExecuteUngated(r, c)
                                  \/ \E a \in Approvals : ExecuteGated(r, c, a)
              \/ \E op \in Rulings, a \in Approvals : ReadApproval(r, op, a)
              \/ Advance(r) \/ Abort(r)
       PROVE  FALSE
  BY <1>0, <1>10
  DEF Advance, ExecuteUngated, ExecuteGated, ReadApproval, CommitRun,
      CheckPending, CheckSettled, FlushTransition, ExecuteApproved,
      CommitRuling, RecordTerminalOutcome, RecordOutcomeFails, Abort,
      Base, TypeOK
<1>11. CASE Tick \/ UNCHANGED vars
  BY <1>0, <1>11 DEF Tick, vars
<1>. QED
  BY <1>1, <1>2, <1>3, <1>4, <1>5, <1>6, <1>7, <1>8, <1>9, <1>10, <1>11
  DEF Next, Advance

-----------------------------------------------------------------------------
(* One request at a time.                                                  *)

\* Whoever moves is being served, or comes in while nobody is.
LEMMA MovesAlone ==
    ASSUME Base, [Next]_vars, ~overlap
    PROVE  \/ sess' = sess /\ approvals' = approvals
           \/ \E r \in Requests :
                 /\ \A q \in Requests \ {r} : sess'[q] = sess[q]
                 /\ InFlight(r) \/ \A q \in Requests : ~InFlight(q)
<1>1. ASSUME NEW r \in Requests,
             \/ \E c \in Calls : \/ ExecuteUngated(r, c)
                                 \/ \E a \in Approvals : ExecuteGated(r, c, a)
             \/ \E op \in Rulings, a \in Approvals : ReadApproval(r, op, a)
             \/ Advance(r) \/ Abort(r)
      PROVE  \A q \in Requests \ {r} : sess'[q] = sess[q]
  BY <1>1 DEF Advance, ExecuteUngated, ExecuteGated, ReadApproval, CommitRun,
              CheckPending, CheckSettled, FlushTransition, ExecuteApproved,
              CommitRuling, RecordTerminalOutcome, RecordOutcomeFails, Abort,
              Base, TypeOK
<1>2. ASSUME NEW r \in Requests,
             \/ \E c \in Calls : \/ ExecuteUngated(r, c)
                                 \/ \E a \in Approvals : ExecuteGated(r, c, a)
             \/ \E op \in Rulings, a \in Approvals : ReadApproval(r, op, a)
      PROVE  \A q \in Requests : ~InFlight(q)
  BY <1>2 DEF ExecuteUngated, ExecuteGated, ReadApproval, Admit
<1>3. ASSUME NEW r \in Requests, Advance(r) \/ Abort(r)
      PROVE  InFlight(r)
  BY <1>3 DEF Advance, CommitRun, CheckPending, CheckSettled, FlushTransition,
              ExecuteApproved, CommitRuling, RecordTerminalOutcome,
              RecordOutcomeFails, OutcomeDue, Abort, InFlight
<1>4. Tick \/ UNCHANGED vars => sess' = sess /\ approvals' = approvals
  BY DEF Tick, vars
<1>. QED
  BY <1>1, <1>2, <1>3, <1>4 DEF Next

\* A session that still has to commit its ruling started just now, with the
\* row as it is in the table, or went on without touching table or copy.
LEMMA CopyStep ==
    ASSUME Base, [Next]_vars, NEW r \in Requests, sess'[r] # sess[r],
           sess'[r].op \in Rulings,
           sess'[r].pc \in {"read", "flushing", "held", "executed"}
    PROVE  /\ approvals' = approvals
           /\ \/ sess'[r].row = approvals[sess'[r].target]
              \/ /\ sess'[r].row = sess[r].row /\ sess'[r].target = sess[r].target
                 /\ sess[r].op \in Rulings
                 /\ sess[r].pc \in {"read", "flushing", "held"}
<1>0. sess[r] \in Session /\ SessionOK(sess[r], executions[r])
  BY DEF Base, TypeOK, SessionsOK
<1>1. CASE \E op \in Rulings, a \in Approvals : ReadApproval(r, op, a)
  BY <1>0, <1>1 DEF ReadApproval, Base, TypeOK, Session
<1>2. CASE \E c \in Calls : \/ ExecuteUngated(r, c)
                            \/ \E a \in Approvals : ExecuteGated(r, c, a)
  <2>1. PICK c \in Calls : \/ ExecuteUngated(r, c)
                           \/ \E a \in Approvals : ExecuteGated(r, c, a)
    BY <1>2
  <2>2. CASE ExecuteUngated(r, c)
    BY <1>0, <2>2 DEF ExecuteUngated, Base, TypeOK, Session, Rulings
  <2>3. CASE \E a \in Approvals : ExecuteGated(r, c, a)
    BY <1>0, <2>3 DEF ExecuteGated, Base, TypeOK, Session, Rulings
  <2>. QED  BY <2>1, <2>2, <2>3
<1>3. CASE CheckPending(r)
  BY <1>0, <1>3 DEF CheckPending, Base, TypeOK, Session
<1>4. CASE FlushTransition(r)
  BY <1>0, <1>4 DEF FlushTransition, Base, TypeOK, Session
<1>5. CASE ExecuteApproved(r)
  BY <1>0, <1>5 DEF ExecuteApproved, Base, TypeOK, Session
<1>6. CASE CommitRun(r)
  BY <1>0, <1>6 DEF CommitRun, Base, TypeOK, Session
<1>7. CASE CheckSettled(r)
  BY <1>0, <1>7 DEF CheckSettled, Base, TypeOK, Session
<1>8. CASE CommitRuling(r)
  BY <1>0, <1>8 DEF CommitRuling, Base, TypeOK, Session
<1>9. CASE RecordTerminalOutcome(r) \/ RecordOutcomeFails(r)
  <2>1. sess'[r] = [sess[r] EXCEPT !.pc = "replied", !.reply = Answer(sess[r])]
    BY <1>9 DEF RecordTerminalOutcome, RecordOutcomeFails, Base, TypeOK
  <2>. QED  BY <1>0, <2>1 DEF Session
<1>10. CASE Abort(r)
  BY <1>0, <1>10 DEF Abort, Base, TypeOK, Session
<1>11. ASSUME NEW q \in Requests, r # q,
              \/ \E c \in Calls : \/ ExecuteUngated(q, c)
                                  \/ \E a \in Approvals : ExecuteGated(q, c, a)
              \/ \E op \in Rulings, a \in Approvals : ReadApproval(q, op, a)
              \/ Advance(q) \/ Abort(q)
       PROVE  FALSE
  BY <1>0, <1>11
  DEF Advance, ExecuteUngated, ExecuteGated, ReadApproval, CommitRun,
      CheckPending, CheckSettled, FlushTransition, ExecuteApproved,
      CommitRuling, RecordTerminalOutcome, RecordOutcomeFails, Abort,
      Base, TypeOK
<1>12. CASE Tick \/ UNCHANGED vars
  BY <1>12 DEF Tick, vars
<1>. QED
  BY <1>1, <1>2, <1>3, <1>4, <1>5, <1>6, <1>7, <1>8, <1>9, <1>10, <1>11, <1>12
  DEF Next, Advance

\* Requests overlap or they do not, in all of a behaviour.
LEMMA OverlapStays == [Next]_vars => overlap' = overlap
<1> SUFFICES ASSUME [Next]_vars PROVE overlap' = overlap
  OBVIOUS
<1>1. ASSUME NEW r \in Requests, Advance(r) \/ Abort(r) PROVE overlap' = overlap
  BY <1>1 DEF Advance, CommitRun, CheckPending, CheckSettled, FlushTransition,
              ExecuteApproved, CommitRuling, RecordTerminalOutcome,
              RecordOutcomeFails, Abort
<1>. QED
  BY <1>1 DEF Next, ExecuteUngated, ExecuteGated, ReadApproval, Tick, vars

LEMMA NextAlone ==
    ASSUME Base, AloneOK, [Next]_vars, ~overlap
    PROVE  AloneOK'
<1>1. CASE sess' = sess /\ approvals' = approvals
  BY <1>1 DEF AloneOK, InFlight
<1>2. ASSUME NEW r \in Requests,
             \A q \in Requests \ {r} : sess'[q] = sess[q],
             InFlight(r) \/ \A q \in Requests : ~InFlight(q)
      PROVE  AloneOK'
  <2>1. \A q \in Requests \ {r} : sess'[q] = sess[q] /\ ~InFlight(q)
    BY <1>2 DEF AloneOK
  <2>2. \A q \in Requests \ {r} : sess'[q].pc \in {"idle", "replied"}
    BY <2>1 DEF InFlight
  <2>3. \A p, q \in Requests : InFlight(p)' /\ InFlight(q)' => p = q
    BY <2>2 DEF InFlight
  <2>4. sess'[r].op \in Rulings
        /\ sess'[r].pc \in {"read", "flushing", "held", "executed"} =>
           approvals'[sess'[r].target] = sess'[r].row
    <3>1. CASE sess'[r] = sess[r]
      <4>1. sess' = sess
        BY <1>2, <3>1, NextSessions DEF Base, TypeOK
      <4>2. \A a \in Approvals : approvals'[a] = approvals[a]
        BY <4>1, RowSteps DEF RowStep, Base, SessionsOK, SessionOK, RulingOK,
                              Rulings
      <4>3. sess[r].op \in Rulings => sess[r].target \in Approvals
        BY DEF Base, SessionsOK, SessionOK, RulingOK
      <4>. QED  BY <3>1, <4>2, <4>3 DEF AloneOK
    <3>2. CASE sess'[r] # sess[r]
      BY <3>2, CopyStep DEF AloneOK
    <3>. QED  BY <3>1, <3>2
  <2>. QED  BY <2>2, <2>3, <2>4 DEF AloneOK
<1>. QED  BY <1>1, <1>2, MovesAlone

LEMMA Alone == Spec => [](Base /\ (~overlap => AloneOK))
<1>1. Init => AloneOK
  BY DEF Init, AloneOK, InFlight, IdleSession, Rulings
<1>2. Base /\ (~overlap => AloneOK) /\ [Next]_vars => (~overlap => AloneOK)'
  BY NextAlone, OverlapStays
<1>. QED  BY <1>1, <1>2, Invariance, PTL DEF Spec

\* Whoever commits a ruling finds the approval PENDING, so nobody ruled on it.
LEMMA FirstRuling ==
    ASSUME Base, AloneOK, NEW r \in Requests, CommitRuling(r)
    PROVE  /\ sess[r].target \in Approvals
           /\ approvals[sess[r].target].status = "PENDING"
           /\ \A q \in Requests : sess[q].committed =>
                                    sess[q].target # sess[r].target
<1>1. sess[r].op \in Rulings /\ RulingOK(sess[r], executions[r])
  BY IsRuling DEF CommitRuling
<1>2. /\ sess[r].target \in Approvals
      /\ approvals[sess[r].target].status = "PENDING"
  BY <1>1 DEF CommitRuling, RulingOK, Decided, AloneOK
<1>. QED  BY <1>2 DEF Base, TableOK, Terminal

\* Without overlap an approval is ruled on at most once.
THEOREM RuledOnOnce == Spec => []SingleUse
<1>1. Init => SingleUse
  BY DEF Init, SingleUse, IdleSession
<1>2. Base /\ (~overlap => AloneOK) /\ SingleUse /\ [Next]_vars => SingleUse'
  <2> SUFFICES ASSUME Base, ~overlap, AloneOK, SingleUse, [Next]_vars,
                      NEW p \in Requests, NEW q \in Requests,
                      sess'[p].committed, sess'[q].committed,
                      sess'[p].target = sess'[q].target, p # q
      PROVE  FALSE
    BY OverlapStays DEF SingleUse
  <2>1. ASSUME NEW x \in Requests, NEW y \in Requests, x # y,
               sess'[x].committed, ~sess[x].committed, sess'[y].committed,
               sess'[x].target = sess'[y].target
        PROVE  FALSE
    <3>1. CommitRuling(x)
      BY <2>1, NewlyCommitted
    <3>2. sess'[y] = sess[y]
      BY <2>1, <3>1 DEF CommitRuling, Base, TypeOK
    <3>3. sess'[x].target = sess[x].target
      BY <3>1 DEF CommitRuling, Base, TypeOK, Session
    <3>. QED  BY <2>1, <3>1, <3>2, <3>3, FirstRuling
  <2>2. CASE sess[p].committed /\ sess[q].committed
    BY <2>2, RulingStays DEF SingleUse
  <2>. QED  BY <2>1, <2>2
<1>. QED  BY Alone, <1>1, <1>2, PTL DEF Spec

\* Without overlap what memory tells of an approval is what the approvals
\* table shows of it, for ever.
THEOREM MemoryAgrees == Spec => []MemoryAgreesWithTable
<1>1. Base /\ ProvenanceOK /\ SingleUse /\ OutcomeMemoryIsTrue
        => MemoryAgreesWithTable
  <2> SUFFICES ASSUME Base, ProvenanceOK, SingleUse, OutcomeMemoryIsTrue,
                      ~overlap, NEW m \in memories
      PROVE  approvals[m.approval].status = m.approval_status
    BY DEF MemoryAgreesWithTable
  <2>1. PICK r \in Requests : /\ sess[r].committed
                              /\ sess[r].target = m.approval
                              /\ sess[r].write = m.approval_status
    BY DEF OutcomeMemoryIsTrue
  <2>2. m.approval \in Approvals /\ approvals[m.approval].status \in Terminal
    BY <2>1 DEF Base, TableOK, TypeOK, Memory
  <2>3. PICK p \in Requests : /\ sess[p].committed
                              /\ sess[p].target = m.approval
                              /\ sess[p].write = approvals[m.approval].status
    BY <2>2 DEF ProvenanceOK, Ruled
  <2>. QED  BY <2>1, <2>3 DEF SingleUse
<1>. QED  BY Provenance, RuledOnOnce, MemoryTrue, <1>1, PTL

-----------------------------------------------------------------------------
(* The gate implements its contract.                                       *)

\* A request's ruling was committed for approval a and its tool ended in res.
Carried(a, res) == \E r \in Requests : /\ sess[r].committed
                                       /\ sess[r].op = "approve"
                                       /\ sess[r].target = a
                                       /\ sess[r].result = res

LEMMA EndedIsCarried ==
    Base => \A a \in Approvals, res \in HandlerResult :
               Ended(a, res) <=> Carried(a, res)
<1>1. ASSUME Base, NEW r \in Requests, sess[r].op = "approve"
      PROVE  /\ RulingOK(sess[r], executions[r])
             /\ executions[r] = IF sess[r].committed THEN sess[r].result
                                ELSE "NONE"
  BY <1>1 DEF Base, SessionsOK, SessionOK, RulingOK, Rulings
<1>. QED  BY <1>1 DEF Ended, Carried, HandlerResult

\* Nothing the contract speaks of changes, unless a run that proposed an
\* approval or a ruling is committed.
LEMMA QuietStep ==
    ASSUME Base, Base', [Next]_vars, \A r \in Requests : ~CommitRuling(r)
    PROVE  \A a \in Approvals : OutcomeOf(a)' = OutcomeOf(a)
<1>1. \A r \in Requests : sess'[r].committed <=> sess[r].committed
  BY NewlyCommitted, RulingStays DEF Base, TypeOK, Session
<1>2. \A a \in Approvals, res \in HandlerResult : Carried(a, res)' <=> Carried(a, res)
  BY <1>1, RulingStays DEF Carried
<1>3. \A a \in Approvals, res \in HandlerResult : Ended(a, res)' <=> Ended(a, res)
  <2>1. \A a \in Approvals, res \in HandlerResult : Ended(a, res) <=> Carried(a, res)
    BY EndedIsCarried
  <2>2. (\A a \in Approvals, res \in HandlerResult :
           Ended(a, res) <=> Carried(a, res))'
    BY EndedIsCarried, PTL
  <2>. QED  BY <1>2, <2>1, <2>2 DEF HandlerResult
<1>. QED  BY <1>3 DEF OutcomeOf, HandlerResult

LEMMA CommitRunProposes ==
    ASSUME Base, Base', ~overlap, NEW r \in Requests, CommitRun(r), [Next]_vars
    PROVE  [Contract!Next]_<<[a \in Approvals |-> Told(approvals[a].status)],
                             [a \in Approvals |-> Told(OutcomeOf(a))]>>
<1>0. ~overlap'
  BY OverlapStays
<1>1. \A q \in Requests : ~CommitRuling(q)
  <2>1. ASSUME NEW q \in Requests, CommitRuling(q) PROVE FALSE
    <3>1. sess'[q].committed /\ ~sess[q].committed
      BY <2>1, IsRuling DEF CommitRuling, RulingOK, Base, TypeOK, Session
    <3>2. q # r
      BY <2>1 DEF CommitRun, CommitRuling
    <3>. QED  BY <3>1, <3>2 DEF CommitRun, Base, TypeOK
  <2>. QED  BY <2>1
<1>2. \A a \in Approvals : OutcomeOf(a)' = OutcomeOf(a)
  BY <1>1, QuietStep
<1>3. sess[r] \in Session /\ RunOK(sess[r], executions[r])
  BY DEF CommitRun, Base, TypeOK, SessionsOK, SessionOK
<1>4. CASE sess[r].target \in Approvals
  <2>0. PICK a0 \in Approvals : a0 = sess[r].target
    BY <1>4
  <2>1. approvals[a0].status = "NONE" /\ sess[r].row.status = "PENDING"
    BY <1>3, <2>0 DEF CommitRun, Base, TableOK, RunOK, NoRow
  <2>2. \A a \in Approvals : approvals'[a].status =
                               IF a = a0 THEN "PENDING" ELSE approvals[a].status
    BY <2>0, <2>1 DEF CommitRun
  <2>3. Contract!Propose(a0)
    BY <1>0, <1>2, <2>1, <2>2 DEF Contract!Propose, Told
  <2>. QED  BY <2>3 DEF Contract!Next
<1>5. CASE sess[r].target \notin Approvals
  BY <1>0, <1>2, <1>5 DEF CommitRun, Told
<1>. QED  BY <1>4, <1>5

LEMMA CommitRulingRules ==
    ASSUME Base, Base', ~overlap, AloneOK,
           NEW r \in Requests, CommitRuling(r), [Next]_vars
    PROVE  Contract!Next
<1>. ~overlap'
  BY OverlapStays
<1>0. PICK a0 \in Approvals : a0 = sess[r].target
  BY FirstRuling
<1>1. /\ sess[r] \in Session /\ sess[r].op \in Rulings
      /\ RulingOK(sess[r], executions[r])
  BY IsRuling DEF CommitRuling
<1>2. /\ approvals[a0].status = "PENDING"
      /\ \A q \in Requests : sess[q].committed => sess[q].target # a0
  BY <1>0, FirstRuling
<1>3. sess[r].write \in Terminal
  BY <1>1 DEF CommitRuling, RulingOK, Decided, StatusAsked, Terminal, Rulings
<1>4. \A a \in Approvals : approvals'[a].status =
                             IF a = a0 THEN sess[r].write ELSE approvals[a].status
  BY <1>0, <1>2 DEF CommitRuling, Base, TypeOK, Row
<1>5. /\ sess'[r].committed /\ sess'[r].target = a0 /\ sess'[r].op = sess[r].op
      /\ sess'[r].result = sess[r].result
      /\ \A q \in Requests \ {r} : sess'[q] = sess[q]
  BY <1>0, <1>1 DEF CommitRuling, Base, TypeOK, Session
<1>6. ~sess[r].committed
  BY <1>1 DEF CommitRuling, RulingOK
<1>7. \A a \in Approvals, res \in HandlerResult :
         /\ Ended(a, res) <=> Carried(a, res)
         /\ Ended(a, res)' <=> Carried(a, res)'
  <2>1. (\A a \in Approvals, res \in HandlerResult :
           Ended(a, res) <=> Carried(a, res))'
    BY EndedIsCarried, PTL
  <2>. QED  BY <2>1, EndedIsCarried
<1>8. \A res \in HandlerResult :
         /\ ~Carried(a0, res)
         /\ Carried(a0, res)' <=> sess[r].op = "approve" /\ sess[r].result = res
  BY <1>2, <1>5 DEF Carried
<1>9. \A a \in Approvals \ {a0}, res \in HandlerResult :
         Carried(a, res)' <=> Carried(a, res)
  BY <1>5, <1>6 DEF Carried
<1>10. \A a \in Approvals \ {a0} : OutcomeOf(a)' = OutcomeOf(a)
  BY <1>7, <1>9 DEF OutcomeOf, HandlerResult
<1>11. OutcomeOf(a0) = "NONE"
  BY <1>2, <1>7, <1>8 DEF OutcomeOf, HandlerResult
<1>12. CASE sess[r].write = "APPROVED"
  <2>1. sess[r].op = "approve" /\ sess[r].result \in HandlerResult
    BY <1>1, <1>12 DEF CommitRuling, RulingOK, Decided, StatusAsked, Rulings,
                       Approving
  <2>2. OutcomeOf(a0)' = sess[r].result
    BY <1>2, <1>7, <1>8, <2>1 DEF OutcomeOf, HandlerResult
  <2>3. Contract!Approve(a0)
    BY <1>2, <1>4, <1>10, <1>12, <2>1, <2>2
    DEF Contract!Approve, HandlerResult, Told
  <2>. QED  BY <1>2, <2>3 DEF Contract!Next
<1>13. CASE sess[r].write # "APPROVED"
  <2>1. sess[r].result = "NONE"
    BY <1>1, <1>13 DEF RulingOK
  <2>2. OutcomeOf(a0)' = OutcomeOf(a0)
    BY <1>2, <1>7, <1>8, <1>11, <2>1 DEF OutcomeOf, HandlerResult
  <2>3. Contract!Dismiss(a0)
    BY <1>2, <1>3, <1>4, <1>10, <1>13, <2>2
    DEF Contract!Dismiss, Terminal, Told
  <2>. QED  BY <1>2, <2>3 DEF Contract!Next
<1>. QED  BY <1>12, <1>13

\* Without overlap every behaviour of the gate is one its contract allows:
\* an approval is proposed once, ruled on once, and its tool is executed in
\* the very step that makes it APPROVED.
THEOREM GateImplementsContract == Spec => ContractHolds
<1> DEFINE Status == [a \in Approvals |-> Told(approvals[a].status)]
           Outcome == [a \in Approvals |-> Told(OutcomeOf(a))]
<1>1. Init => Contract!Init
  BY DEF Init, Contract!Init, NoRow, OutcomeOf, Ended, Told
<1>2. Base /\ (~overlap => AloneOK) /\ Base' /\ [Next]_vars =>
        [Contract!Next]_<<Status, Outcome>>
  <2> SUFFICES ASSUME Base, ~overlap => AloneOK, Base', [Next]_vars
      PROVE  [Contract!Next]_<<Status, Outcome>>
    OBVIOUS
  <2>0. overlap' = overlap
    BY OverlapStays
  <2>1. CASE ~overlap /\ \E r \in Requests : CommitRun(r)
    BY <2>1, CommitRunProposes
  <2>2. CASE ~overlap /\ \E r \in Requests : CommitRuling(r)
    BY <2>2, CommitRulingRules
  <2>3. CASE \A r \in Requests : ~CommitRun(r) /\ ~CommitRuling(r)
    <3>1. approvals' = approvals
      BY <2>3 DEF Next, Advance, vars, ExecuteUngated, ExecuteGated,
                  ReadApproval, CheckPending, CheckSettled, FlushTransition,
                  ExecuteApproved, RecordTerminalOutcome, RecordOutcomeFails,
                  Abort, Tick
    <3>. QED  BY <2>0, <2>3, <3>1, QuietStep DEF Told
  <2>4. CASE overlap
    BY <2>0, <2>4 DEF Told
  <2>. QED  BY <2>1, <2>2, <2>3, <2>4
<1>. QED
  BY Alone, Invariance, <1>1, <1>2, PTL DEF Spec, ContractHolds, Contract!Spec

-----------------------------------------------------------------------------
(* What is left of README.md's "Rejected approval does not execute         *)
(* dangerous actions", which gate_rejected refutes for a thread pool.      *)

\* An approve request whose tool was executed committed APPROVED.
LEMMA ExecutionWasApproved ==
    ASSUME Base, NEW r \in Requests, Executed(r), sess[r].op = "approve"
    PROVE  /\ sess[r].committed /\ sess[r].write = "APPROVED"
           /\ sess[r].row.status = "PENDING" /\ sess[r].target \in Approvals
<1>1. RulingOK(sess[r], executions[r]) /\ executions[r] # "NONE"
  BY DEF Base, SessionsOK, SessionOK, Rulings, Executed
<1>2. sess[r].committed /\ sess[r].result # "NONE"
  BY <1>1 DEF RulingOK
<1>. QED  BY <1>1, <1>2 DEF RulingOK, Decided, Rulings

\* Only one thing takes APPROVED away from an approval whose tool was executed:
\* another request, served beside the first, that read the approval while it
\* was still PENDING and committed its own ruling (services/approvals.py:35).
THEOREM OnlyOverlapOverrules ==
    Spec => []\A r \in Requests :
                 /\ Executed(r) /\ sess[r].op = "approve"
                 /\ approvals[sess[r].target].status # "APPROVED"
                 => /\ overlap
                    /\ \E p \in Requests \ {r} :
                          /\ sess[p].committed /\ sess[p].target = sess[r].target
                          /\ sess[p].row.status = "PENDING"
                          /\ sess[p].write = approvals[sess[r].target].status
<1> DEFINE Overruled(r, p) == /\ sess[p].committed /\ sess[p].target = sess[r].target
                              /\ sess[p].row.status = "PENDING"
                              /\ sess[p].write = approvals[sess[r].target].status
<1>1. ASSUME Base, ProvenanceOK, SingleUse, NEW r \in Requests, Executed(r),
             sess[r].op = "approve", approvals[sess[r].target].status # "APPROVED"
      PROVE  overlap /\ \E p \in Requests \ {r} : Overruled(r, p)
  <2>1. /\ sess[r].committed /\ sess[r].write = "APPROVED"
        /\ sess[r].target \in Approvals
    BY <1>1, ExecutionWasApproved
  <2>2. approvals[sess[r].target].status \in Terminal
    BY <1>1, <2>1 DEF Base, TableOK
  <2>3. PICK p \in Requests : /\ sess[p].committed
                              /\ sess[p].target = sess[r].target
                              /\ sess[p].write = approvals[sess[r].target].status
    BY <1>1, <2>1, <2>2 DEF ProvenanceOK, Ruled
  <2>4. p # r
    BY <1>1, <2>1, <2>3
  <2>5. sess[p].op \in Rulings /\ RulingOK(sess[p], executions[p])
    BY <1>1, <2>3
    DEF Base, TypeOK, SessionsOK, SessionOK, RunOK, IdleSession, Session
  <2>6. sess[p].row.status = "PENDING"
    BY <2>3, <2>5 DEF RulingOK, Decided
  <2>7. overlap
    BY <1>1, <2>1, <2>3, <2>4 DEF SingleUse
  <2>. QED  BY <2>3, <2>4, <2>6, <2>7
<1>2. Base /\ ProvenanceOK /\ SingleUse =>
        \A r \in Requests :
           /\ Executed(r) /\ sess[r].op = "approve"
           /\ approvals[sess[r].target].status # "APPROVED"
           => /\ overlap
              /\ \E p \in Requests \ {r} :
                    /\ sess[p].committed /\ sess[p].target = sess[r].target
                    /\ sess[p].row.status = "PENDING"
                    /\ sess[p].write = approvals[sess[r].target].status
  BY <1>1
<1>. QED  BY Provenance, RuledOnOnce, <1>2, PTL

\* One request at a time, a rejected approval's tool was never executed: what
\* README.md promises holds exactly there.
THEOREM SerialRejection == Spec => [](~overlap => RejectedNeverExecuted)
<1>1. (\A r \in Requests :
         /\ Executed(r) /\ sess[r].op = "approve"
         /\ approvals[sess[r].target].status # "APPROVED"
         => /\ overlap
            /\ \E p \in Requests \ {r} :
                  /\ sess[p].committed /\ sess[p].target = sess[r].target
                  /\ sess[p].row.status = "PENDING"
                  /\ sess[p].write = approvals[sess[r].target].status)
      => (~overlap => RejectedNeverExecuted)
  BY DEF RejectedNeverExecuted
<1>. QED  BY OnlyOverlapOverrules, <1>1, PTL

\* A ruling waits for a row lock only behind a request that has taken it and
\* waits for none: no circle of rulings can form (services/approvals.py:52).
THEOREM NoCircle ==
    Spec => []\A r \in Requests :
                 sess[r].pc = "flushing" /\ locks[sess[r].target] # NoRequest =>
                    \E q \in Requests \ {r} :
                       /\ locks[sess[r].target] = q /\ sess[q].target = sess[r].target
                       /\ sess[q].pc \in {"held", "executed"}
<1>1. ASSUME Base, LocksBelongToTransactions, NEW r \in Requests,
             sess[r].pc = "flushing", locks[sess[r].target] # NoRequest
      PROVE  \E q \in Requests \ {r} :
                /\ locks[sess[r].target] = q /\ sess[q].target = sess[r].target
                /\ sess[q].pc \in {"held", "executed"}
  <2>1. sess[r].target \in Approvals
    BY <1>1 DEF Base, TypeOK, SessionsOK, SessionOK, RunOK, RulingOK, IdleSession,
                Session
  <2>2. PICK q \in Requests : q = locks[sess[r].target]
    BY <1>1, <2>1 DEF Base, TypeOK
  <2>3. Holding(sess[q]) /\ sess[q].target = sess[r].target
    BY <1>1, <2>1, <2>2 DEF LocksBelongToTransactions
  <2>. QED  BY <1>1, <2>2, <2>3 DEF Holding
<1>2. Base /\ LocksBelongToTransactions =>
        \A r \in Requests :
           sess[r].pc = "flushing" /\ locks[sess[r].target] # NoRequest =>
              \E q \in Requests \ {r} :
                 /\ locks[sess[r].target] = q /\ sess[q].target = sess[r].target
                 /\ sess[q].pc \in {"held", "executed"}
  BY <1>1
<1>. QED  BY Invariance, LocksRight, <1>2, PTL
=============================================================================
