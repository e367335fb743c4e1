------------------------------- MODULE Memory -------------------------------
(***************************************************************************)
(* Operational memory: services/memory.py, its routes, and the agent runs  *)
(* that search it and add to it.                                           *)
(*                                                                         *)
(* A thread serves one request after the other, each with a session of its *)
(* own: it reads committed rows, flushes the UPDATEs of the rows it has    *)
(* changed, waiting for their locks, and publishes them in one commit.  A  *)
(* record is never deleted.                                                *)
(***************************************************************************)
EXTENDS Naturals

CONSTANTS
    Threads,     \* the threads that serve requests
    Records,     \* the primary keys of memory_records, in their order
    Contents,    \* what clients may want remembered, up to the content hash
    Runs,        \* the agent runs, each with the content of its own outcome
    NoRecord,    \* no primary key
    NoRun,       \* no agent run
    Deadlines,   \* the deadlines clients may ask for
    MaxTime      \* bound on the clock

ASSUME RecordsAssumption == Records \subseteq Nat /\ NoRecord \notin Records
ASSUME ContentsAssumption == Contents \cap (Runs \cup {NoRun}) = {}
ASSUME RunsAssumption == NoRun \notin Runs
ASSUME TimeAssumption == MaxTime \in Nat /\ Deadlines \subseteq Nat

VARIABLES
    now,         \* the clock
    overlap,     \* TRUE: requests are served beside each other (the thread
                 \* pool); FALSE: one after the other (the evaluation runner)
    records,     \* the committed memory_records
    runs,        \* the committed agent_runs
    sess         \* the local state of each thread's session

vars == <<now, overlap, records, runs, sess>>

-----------------------------------------------------------------------------
Retired == {"ARCHIVED", "EXPIRED", "INVALIDATED"}

\* The deadline of a record that has none.
Never == MaxTime + 1

\* A record; status "NONE" stands for a row that does not exist.
Row == [status : Retired \cup {"NONE", "ACTIVE"},
        content : Contents \cup Runs \cup {NoRun},
        run : Runs \cup {NoRun}, expires : Nat]
Absent == [status |-> "NONE", content |-> NoRun, run |-> NoRun, expires |-> 0]

\* The row of a new record (mutant: with a status no reader knows).
NewRowUnknown(content, run, expires) ==
    [status |-> "CREATED", content |-> content, run |-> run, expires |-> expires]
NewRow(content, run, expires) ==
    [status |-> "ACTIVE", content |-> content, run |-> run, expires |-> expires]

\* A session.  "todo" are the rows it has changed but not UPDATEd, "held"
\* those it has UPDATEd, "write" the status it gives them; "row" is the row it
\* inserts and "id" its key once it is flushed; "run" the agent run it is, or
\* asks about; "at" the clock of its sweep; "found" what its search selected.
Session == [pc : {"idle", "flushing", "inserting", "ready"},
            op : {"none", "create", "retire", "search", "run"},
            todo : SUBSET Records, held : SUBSET Records,
            write : Retired \cup {"NONE"},
            row : Row, id : Records \cup {NoRecord},
            run : Runs \cup {NoRun}, at : Nat, found : SUBSET Records]

Closed == [pc |-> "idle", op |-> "none", todo |-> {}, held |-> {},
           write |-> "NONE", row |-> Absent, id |-> NoRecord,
           run |-> NoRun, at |-> 0, found |-> {}]

TypeOK == /\ now \in Nat
          /\ overlap \in BOOLEAN
          /\ records \in [Records -> Row]
          /\ runs \subseteq Runs
          /\ sess \in [Threads -> Session]

Init == /\ now = 0
        /\ overlap \in BOOLEAN
        /\ records = [m \in Records |-> Absent]
        /\ runs = {}
        /\ sess = [t \in Threads |-> Closed]

-----------------------------------------------------------------------------
\* A new request is served beside the others, or alone.
Admit(t) == /\ sess[t].pc = "idle"
            /\ overlap \/ \A u \in Threads : sess[u].pc = "idle"

\* _expire_if_due (mutant: a deadline that has not come yet counts).
DueSoon(row, time) == row.status = "ACTIVE" /\ row.expires <= time + 1
Due(row, time) == row.status = "ACTIVE" /\ row.expires <= time

\* The content hash is in the table.
Taken(content) ==
    \E m \in Records : records[m].status # "NONE" /\ records[m].content = content

\* An open session has inserted the content hash.
Pending(t, content) ==
    \E u \in Threads \ {t} : sess[u].id # NoRecord /\ sess[u].row.content = content

\* uuid4: a key that neither a row nor an open session uses.
Fresh(m) == records[m].status = "NONE" /\ \A t \in Threads : sess[t].id # m

\* The row lock of a record is free.
Free(m) == \A t \in Threads : m \notin sess[t].held

\* The agent_run_id of a record refers to a committed run or to the session's
\* own.
KnownRun(s) == s.row.run \in runs \cup {NoRun} \/ (s.op = "run" /\ s.row.run = s.run)

Continue(t, session) == /\ sess' = [sess EXCEPT ![t] = session]
                        /\ UNCHANGED <<now, overlap, records, runs>>

-----------------------------------------------------------------------------
(* create_memory.                                                          *)

\* POST /memory, or the outcome of an approval.  If the content is known, the
\* record it is in is the answer, and nothing changes.
Create(t, content, run, expires) ==
    /\ Admit(t) /\ ~Taken(content)
    /\ Continue(t, [Closed EXCEPT !.pc = "inserting", !.op = "create",
                                  !.row = NewRow(content, run, expires)])

\* The INSERT waits for a session that has inserted the same hash.
Insert(t, m) ==
    /\ sess[t].pc = "inserting" /\ Fresh(m)
    /\ ~Pending(t, sess[t].row.content)
    /\ ~Taken(sess[t].row.content) /\ KnownRun(sess[t])
    /\ Continue(t, [sess[t] EXCEPT !.pc = "ready", !.id = m])

\* The hash was committed by somebody else since the check, or there is no
\* such run: create_memory rolls the session back and raises.
InsertFails(t) ==
    /\ sess[t].pc = "inserting"
    /\ ~Pending(t, sess[t].row.content)
    /\ Taken(sess[t].row.content) \/ ~KnownRun(sess[t])
    /\ Continue(t, Closed)

-----------------------------------------------------------------------------
(* update_memory_status.                                                   *)

\* The record may be archived or invalidated (mutant: whatever its status).
RetirableAlways(m) == records[m].status # "NONE" /\ ~Due(records[m], now)
Retirable(m) == records[m].status = "ACTIVE" /\ ~Due(records[m], now)

\* POST /memory/{id}/archive and /invalidate.  A record that is due is marked
\* EXPIRED in the session only, for the route rolls it back.
Retire(t, m, status) ==
    /\ Admit(t) /\ Retirable(m)
    /\ Continue(t, [Closed EXCEPT !.pc = "flushing", !.op = "retire",
                                  !.todo = {m}, !.write = status])

-----------------------------------------------------------------------------
(* retrieve_memories.                                                      *)

\* _expire_due_memories reads the ACTIVE records and marks those that are due.
Sweep(t, op, run) ==
    /\ Admit(t)
    /\ Continue(t, [Closed EXCEPT !.pc = "flushing", !.op = op, !.run = run,
                      !.todo = {m \in Records : Due(records[m], now)},
                      !.write = "EXPIRED", !.at = now])

\* POST /memory/search, with or without an agent_run_id.
Search(t, run) == Sweep(t, "search", run)

NewRun(run) == /\ run \notin runs
               /\ \A t \in Threads : sess[t].op = "run" => sess[t].run # run

\* POST /agent/run as far as memory goes: the row of a new run is pending, and
\* memory_retrieval searches with its id.
BeginRun(t, run) == NewRun(run) /\ Sweep(t, "run", run)

\* A node before the retrieval raises: the run is committed as FAILED.
RunFailsEarly(t, run) ==
    /\ Admit(t) /\ NewRun(run)
    /\ runs' = runs \cup {run}
    /\ UNCHANGED <<now, overlap, records, sess>>

\* SQLAlchemy sends the UPDATEs of a flush in the order of the primary keys
\* (mutant: in any order).
TurnAny(s, m) == s.pc = "flushing" /\ m \in s.todo
Turn(s, m) == s.pc = "flushing" /\ m \in s.todo /\ \A n \in s.todo : m <= n

\* session.flush, one row: the statement waits for the row's lock.
Flush(t, m) ==
    /\ Turn(sess[t], m) /\ Free(m)
    /\ Continue(t, [sess[t] EXCEPT
                      !.todo = @ \ {m}, !.held = @ \cup {m},
                      !.pc = IF sess[t].op = "retire" THEN "ready" ELSE @])

\* The table as the session sees it: the committed rows and its own UPDATEs
\* (mutant: the sweep is not flushed).
ViewUnflushed(s) == records
View(s) == [m \in Records |-> IF m \in s.held
                              THEN [records[m] EXCEPT !.status = s.write]
                              ELSE records[m]]

\* A search with an agent_run_id selects the records of that run.  Other
\* filters, the ranking and the threshold only narrow the selection.
InScope(s, row) == s.run # NoRun => row.run = s.run

\* _filtered_records, active_only as by default.  A run goes on to record its
\* outcome, here one record for all it adds.
Filter(t) ==
    /\ sess[t].pc = "flushing" /\ sess[t].todo = {}
    /\ sess[t].op \in {"search", "run"}
    /\ LET s == sess[t]
           found == {m \in Records : /\ View(s)[m].status = "ACTIVE"
                                     /\ InScope(s, View(s)[m])}
       IN  Continue(t, IF s.op = "search"
                       THEN [s EXCEPT !.pc = "ready", !.found = found]
                       ELSE [s EXCEPT !.pc = "inserting", !.found = found,
                                      !.row = NewRow(s.run, s.run, Never)])

-----------------------------------------------------------------------------
(* The end of a session.                                                   *)

\* The table with what the session has flushed.
Written(s) == [m \in Records |-> IF m = s.id THEN s.row ELSE View(s)[m]]

\* The runs with the session's own.
RunsWith(s) == IF s.op = "run" THEN runs \cup {s.run} ELSE runs

Publish(t) == /\ records' = Written(sess[t])
              /\ runs' = RunsWith(sess[t])
              /\ sess' = [sess EXCEPT ![t] = Closed]
              /\ UNCHANGED <<now, overlap>>

\* session.commit of the route or of the orchestrator.
Commit(t) == sess[t].pc = "ready" /\ Publish(t)

\* The embedding provider, the search or a later node raises: the orchestrator
\* commits the run as FAILED, and the sweep with it.
RunFails(t) == /\ sess[t].op = "run" /\ sess[t].pc \in {"flushing", "inserting"}
               /\ sess[t].todo = {}
               /\ Publish(t)

\* The process dies, or an exception leaves the route: a search whose query
\* cannot be embedded, a record that cannot be embedded or written.
Abort(t) == sess[t].pc # "idle" /\ Continue(t, Closed)

Tick == /\ now < MaxTime
        /\ now' = now + 1
        /\ UNCHANGED <<overlap, records, runs, sess>>

-----------------------------------------------------------------------------
Arrive(t) ==
    \/ \E content \in Contents, run \in Runs \cup {NoRun},
          expires \in Deadlines \cup {Never} :
          Create(t, content, run, expires)
    \/ \E m \in Records, status \in {"ARCHIVED", "INVALIDATED"} : Retire(t, m, status)
    \/ \E run \in Runs \cup {NoRun} : Search(t, run)
    \/ \E run \in Runs : BeginRun(t, run) \/ RunFailsEarly(t, run)

Advance(t) == \/ \E m \in Records : Insert(t, m) \/ Flush(t, m)
              \/ InsertFails(t) \/ Filter(t) \/ Commit(t) \/ RunFails(t)

Next == Tick \/ \E t \in Threads : Arrive(t) \/ Advance(t) \/ Abort(t)

Spec == Init /\ [][Next]_vars

-----------------------------------------------------------------------------
(* Properties.                                                             *)

\* Check-then-insert by several sessions never leaves two records of the same
\* content, archived and expired ones included (services/memory.py:69).
OneRecordPerContent ==
    \A m, n \in Records :
       /\ records[m].status # "NONE" /\ records[n].status # "NONE"
       /\ records[m].content = records[n].content
       => m = n

\* Whoever overlaps, a record is remembered once, expired only when it is due
\* and never brought back (services/memory.py:131, 373).
Contract == INSTANCE MemoryContract
ContractHolds == Contract!Spec

\* One request at a time, a record that is no longer ACTIVE keeps its status:
\* archive, invalidate and the sweeps never undo each other
\* (services/memory.py:135, "Only active memory can change lifecycle status").
FinalUnlessOverlapping ==
    ~overlap => \A m \in Records : records[m].status \in Retired =>
                                      records'[m].status = records[m].status
SerialRetirementIsFinal == [][FinalUnlessOverlapping]_vars

\* One request at a time, a search selects only records that are ACTIVE and
\* were not due when it began (docs/memory.md:13): the query sees what the
\* sweep has just written.
SerialSearchIsLive ==
    ~overlap => \A t \in Threads : \A m \in sess[t].found :
       records[m].status = "ACTIVE" /\ records[m].expires > sess[t].at


\* What the code does instead: the search passes the run's own id
\* (agents/memory.py:26) and so selects the records of the run itself.  There are
\* none yet, nor can a client add one.
RunsRecallNothing ==
    \A t \in Threads : sess[t].op = "run" => sess[t].found = {}

\* Sessions that sweep the same records and insert the same contents never wait
\* for each other in a circle: along a chain of waits the rows ascend, and who
\* holds rows never waits for a content.
WaitsAscend ==
    /\ \A t, u \in Threads, m, n \in Records :
          m \in sess[u].held /\ Turn(sess[t], m) /\ Turn(sess[u], n) => m < n
    /\ \A t \in Threads : sess[t].pc = "inserting" /\ sess[t].held # {} =>
          ~Pending(t, sess[t].row.content)

-----------------------------------------------------------------------------
(* The inductive invariant behind the theorems of Memory_proofs.           *)

\* What a session is like by itself.
Shape(s) ==
    /\ s.op = "none" <=> s.pc = "idle"
    /\ s.pc # "flushing" => s.todo = {}
    /\ \A m \in s.held, n \in s.todo : m < n
    /\ s.id # NoRecord => s.pc = "ready"
    /\ s.pc = "inserting" \/ s.id # NoRecord =>
          /\ s.op \in {"create", "run"} /\ s.row.status = "ACTIVE"
          /\ s.op = "create" => s.row.content \in Contents
          /\ s.op = "run" => s.row.content = s.run /\ s.row.run = s.run
    /\ s.op \in {"none", "create"} => s.todo = {} /\ s.held = {}
    /\ s.op = "retire" =>
          /\ s.write \in {"ARCHIVED", "INVALIDATED"}
          /\ \A m, n \in s.todo \cup s.held : m = n
    /\ s.op \in {"search", "run"} => s.write = "EXPIRED"
    /\ s.op = "run" => s.run \in Runs
    /\ s.op # "search" \/ s.pc = "flushing" => s.found = {}

\* What it knows of the tables stays true until it commits.
Seen(s) ==
    /\ \A m \in s.todo \cup s.held :
          /\ records[m].status # "NONE"
          /\ s.op \in {"search", "run"} => records[m].expires <= s.at
    /\ s.at <= now
    /\ s.id # NoRecord =>
          records[s.id].status = "NONE" /\ ~Taken(s.row.content) /\ KnownRun(s)
    /\ s.op = "run" => s.run \notin runs

\* Row locks and unique keys keep two sessions apart.
Apart(s, z) ==
    /\ s.held \cap z.held = {}
    /\ s.id # NoRecord /\ z.id # NoRecord =>
          s.id # z.id /\ s.row.content # z.row.content
    /\ s.op = "run" /\ z.op = "run" => s.run # z.run

\* A session that is alone knows more.
Alone(s) ==
    /\ \A m \in s.todo \cup s.held : records[m].status = "ACTIVE"
    /\ s.op \in {"search", "run"} /\ s.pc = "flushing" =>
          \A m \in Records : Due(records[m], s.at) => m \in s.todo \cup s.held
    /\ \A m \in s.found : records[m].status = "ACTIVE" /\ records[m].expires > s.at

TablesOK == /\ OneRecordPerContent
            /\ \A m \in Records : records[m].status # "NONE" =>
                  records[m].run \in runs \cup {NoRun}

MemoryInv ==
    /\ TypeOK /\ TablesOK
    /\ \A t \in Threads : Shape(sess[t]) /\ Seen(sess[t])
    /\ \A t, u \in Threads : t # u => Apart(sess[t], sess[u])
    /\ ~overlap => /\ \A t \in Threads : Alone(sess[t])
                   /\ \A t, u \in Threads :
                         sess[t].pc # "idle" /\ sess[u].pc # "idle" => t = u
=============================================================================
