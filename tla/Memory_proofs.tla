---------------------------- MODULE Memory_proofs ----------------------------
(***************************************************************************)
(* Proofs about Memory, for any threads, records, contents, runs and       *)
(* deadlines, whether requests overlap or not.                             *)
(***************************************************************************)
EXTENDS Memory, TLAPS

USE RecordsAssumption, ContentsAssumption, RunsAssumption, TimeAssumption

-----------------------------------------------------------------------------
(* A session that changes by itself.                                       *)

\* What makes it sound beside the others for thread t to hold session z.
Fits(t, z) ==
    /\ z \in Session /\ Shape(z) /\ Seen(z)
    /\ \A u \in Threads \ {t} : Apart(z, sess[u])
    /\ ~overlap => /\ Alone(z)
                   /\ z.pc = "idle" \/ \A u \in Threads \ {t} : sess[u].pc = "idle"

LEMMA ApartSymmetric ==
  ASSUME NEW s, NEW z, Apart(s, z)
  PROVE  Apart(z, s)
BY DEF Apart

LEMMA ClosedSound ==
  /\ Closed \in Session /\ Shape(Closed) /\ Alone(Closed) /\ Closed.pc = "idle"
  /\ \A z : Apart(Closed, z)
  /\ now \in Nat => Seen(Closed)
<1>1. Closed \in Session
  BY DEF Closed, Session, Absent, Row
<1>2. /\ Closed.pc = "idle" /\ Closed.op = "none" /\ Closed.todo = {}
      /\ Closed.held = {} /\ Closed.id = NoRecord /\ Closed.at = 0
      /\ Closed.found = {}
  BY DEF Closed
<1>3. Shape(Closed)
  BY <1>2 DEF Shape
<1>4. Alone(Closed)
  BY <1>2 DEF Alone
<1>5. \A z : Apart(Closed, z)
  BY <1>2 DEF Apart
<1>6. now \in Nat => Seen(Closed)
  BY <1>2 DEF Seen
<1> QED
  BY <1>1, <1>2, <1>3, <1>4, <1>5, <1>6

(* It keeps the invariant.                                                 *)
LEMMA ContinueInv ==
  ASSUME MemoryInv, NEW t \in Threads, NEW z, Fits(t, z), Continue(t, z)
  PROVE  MemoryInv'
<1>1. /\ now' = now /\ overlap' = overlap /\ records' = records /\ runs' = runs
      /\ sess' = [sess EXCEPT ![t] = z] /\ sess \in [Threads -> Session]
  BY DEF Continue, MemoryInv, TypeOK
<1>2. sess'[t] = z /\ \A u \in Threads \ {t} : sess'[u] = sess[u]
  BY <1>1
<1>3. TypeOK'
  BY <1>1 DEF MemoryInv, TypeOK, Fits
<1>4. TablesOK'
  BY <1>1 DEF MemoryInv, TablesOK, OneRecordPerContent
<1>5. ASSUME NEW u \in Threads PROVE Shape(sess'[u]) /\ Seen(sess[u])'
  <2>1. PICK s : s = sess'[u]
    OBVIOUS
  <2>2. Shape(s) /\ Seen(s)
    BY <1>2, <2>1 DEF MemoryInv, Fits
  <2>3. Seen(s)'
    BY <1>1, <2>2 DEF Seen, Taken, KnownRun
  <2> QED
    BY <2>1, <2>2, <2>3
<1>6. ASSUME NEW u \in Threads, NEW v \in Threads, u # v
      PROVE  Apart(sess'[u], sess'[v])
  <2>1. CASE u = t
    BY <1>2, <1>6, <2>1 DEF Fits
  <2>2. CASE v = t
    BY <1>2, <1>6, <2>2, ApartSymmetric DEF Fits
  <2>3. CASE u # t /\ v # t
    BY <1>2, <1>6, <2>3 DEF MemoryInv
  <2> QED
    BY <2>1, <2>2, <2>3
<1>7. ASSUME ~overlap'
      PROVE  /\ \A u \in Threads : Alone(sess[u])'
             /\ \A u, v \in Threads :
                   sess'[u].pc # "idle" /\ sess'[v].pc # "idle" => u = v
  <2>1. ASSUME NEW u \in Threads PROVE Alone(sess[u])'
    <3>1. PICK s : s = sess'[u]
      OBVIOUS
    <3>2. Alone(s)
      BY <1>1, <1>2, <1>7, <3>1 DEF MemoryInv, Fits
    <3>3. Alone(s)'
      BY <1>1, <3>2 DEF Alone, Due
    <3> QED
      BY <3>1, <3>3
  <2>2. ASSUME NEW u \in Threads, NEW v \in Threads,
               sess'[u].pc # "idle", sess'[v].pc # "idle"
        PROVE  u = v
    BY <1>1, <1>2, <1>7, <2>2 DEF MemoryInv, Fits
  <2> QED
    BY <2>1, <2>2
<1> QED
  BY <1>3, <1>4, <1>5, <1>6, <1>7 DEF MemoryInv

-----------------------------------------------------------------------------
(* The requests that arrive.                                               *)

LEMMA AdmittedFits ==
  ASSUME MemoryInv, NEW t \in Threads, Admit(t), NEW z \in Session,
         Shape(z), Seen(z), z.held = {}, z.id = NoRecord,
         z.op = "run" => NewRun(z.run),
         ~overlap => Alone(z)
  PROVE  Fits(t, z)
<1>1. \A u \in Threads \ {t} : Apart(z, sess[u])
  <2>1. SUFFICES ASSUME NEW u \in Threads \ {t} PROVE Apart(z, sess[u])
    OBVIOUS
  <2>2. z.op = "run" /\ sess[u].op = "run" => z.run # sess[u].run
    BY DEF NewRun
  <2> QED
    BY <2>2 DEF Apart
<1>2. ~overlap => \A u \in Threads : sess[u].pc = "idle"
  BY DEF Admit
<1> QED
  BY <1>1, <1>2 DEF Fits

LEMMA CreateInv ==
  ASSUME MemoryInv, NEW t \in Threads, NEW content \in Contents,
         NEW run \in Runs \cup {NoRun}, NEW expires \in Deadlines \cup {Never},
         Create(t, content, run, expires)
  PROVE  MemoryInv'
<1>1. PICK row : row = NewRow(content, run, expires)
  OBVIOUS
<1>2. row \in Row /\ row.status = "ACTIVE" /\ row.content = content
  BY <1>1 DEF NewRow, Row, Never
<1>3. PICK z : z = [Closed EXCEPT !.pc = "inserting", !.op = "create", !.row = row]
  OBVIOUS
<1>4. /\ z \in Session /\ z.pc = "inserting" /\ z.op = "create" /\ z.row = row
      /\ z.todo = {} /\ z.held = {} /\ z.id = NoRecord /\ z.at = 0 /\ z.found = {}
  BY <1>2, <1>3, ClosedSound DEF Closed, Session
<1>5. Shape(z)
  BY <1>2, <1>4 DEF Shape
<1>6. Seen(z) /\ Alone(z)
  BY <1>4 DEF Seen, Alone, MemoryInv, TypeOK
<1>7. Admit(t) /\ Continue(t, z)
  BY <1>1, <1>3 DEF Create
<1>8. Fits(t, z)
  BY <1>4, <1>5, <1>6, <1>7, AdmittedFits
<1> QED
  BY <1>7, <1>8, ContinueInv

LEMMA RetireInv ==
  ASSUME MemoryInv, NEW t \in Threads, NEW m \in Records,
         NEW status \in {"ARCHIVED", "INVALIDATED"}, Retire(t, m, status)
  PROVE  MemoryInv'
<1>1. PICK z : z = [Closed EXCEPT !.pc = "flushing", !.op = "retire",
                                  !.todo = {m}, !.write = status]
  OBVIOUS
<1>2. /\ z \in Session /\ z.pc = "flushing" /\ z.op = "retire" /\ z.todo = {m}
      /\ z.write = status /\ z.held = {} /\ z.id = NoRecord /\ z.at = 0
      /\ z.found = {}
  BY <1>1, ClosedSound DEF Closed, Session, Retired
<1>3. Shape(z)
  BY <1>2 DEF Shape
<1>4. records[m].status = "ACTIVE" /\ Admit(t) /\ Continue(t, z)
  BY <1>1 DEF Retire, Retirable
<1>5. Seen(z) /\ Alone(z)
  BY <1>2, <1>4 DEF Seen, Alone, MemoryInv, TypeOK
<1>6. Fits(t, z)
  BY <1>2, <1>3, <1>4, <1>5, AdmittedFits
<1> QED
  BY <1>4, <1>6, ContinueInv

LEMMA SweepInv ==
  ASSUME MemoryInv, NEW t \in Threads, NEW op \in {"search", "run"},
         NEW run \in Runs \cup {NoRun}, op = "run" => run \in Runs /\ NewRun(run),
         Sweep(t, op, run)
  PROVE  MemoryInv'
<1>1. PICK due : due = {m \in Records : Due(records[m], now)}
  OBVIOUS
<1>2. now \in Nat /\ due \subseteq Records
  BY <1>1 DEF MemoryInv, TypeOK
<1>3. PICK z : z = [Closed EXCEPT !.pc = "flushing", !.op = op, !.run = run,
                      !.todo = due, !.write = "EXPIRED", !.at = now]
  OBVIOUS
<1>4. /\ z \in Session /\ z.pc = "flushing" /\ z.op = op /\ z.run = run
      /\ z.todo = due /\ z.write = "EXPIRED" /\ z.held = {} /\ z.id = NoRecord
      /\ z.at = now /\ z.found = {}
  BY <1>2, <1>3, ClosedSound DEF Closed, Session, Retired
<1>5. Shape(z)
  BY <1>4 DEF Shape
<1>6. \A m \in due : records[m].status = "ACTIVE" /\ records[m].expires <= now
  BY <1>1 DEF Due
<1>7. Seen(z)
  <2>1. \A m \in z.todo \cup z.held :
           records[m].status # "NONE" /\ records[m].expires <= z.at
    BY <1>4, <1>6
  <2>2. z.at <= now /\ z.id = NoRecord
    BY <1>2, <1>4
  <2>3. z.op = "run" => z.run \notin runs
    BY <1>4 DEF NewRun
  <2> QED
    BY <2>1, <2>2, <2>3 DEF Seen
<1>8. Alone(z)
  BY <1>1, <1>4, <1>6 DEF Alone
<1>9. Admit(t) /\ Continue(t, z)
  BY <1>1, <1>3 DEF Sweep
<1>10. Fits(t, z)
  BY <1>4, <1>5, <1>7, <1>8, <1>9, AdmittedFits
<1> QED
  BY <1>9, <1>10, ContinueInv

-----------------------------------------------------------------------------
(* The steps of an open session.                                           *)

LEMMA CloseInv ==
  ASSUME MemoryInv, NEW t \in Threads, Continue(t, Closed)
  PROVE  MemoryInv'
<1>1. Fits(t, Closed)
  BY ClosedSound DEF Fits, MemoryInv, TypeOK, Closed
<1> QED
  BY <1>1, ContinueInv

LEMMA OpenFits ==
  ASSUME MemoryInv, NEW t \in Threads, sess[t].pc # "idle"
  PROVE  Fits(t, sess[t])
<1>1. sess[t] \in Session /\ Shape(sess[t]) /\ Seen(sess[t])
  BY DEF MemoryInv, TypeOK
<1>2. \A u \in Threads \ {t} : Apart(sess[t], sess[u])
  BY DEF MemoryInv
<1>3. ~overlap => /\ Alone(sess[t])
                  /\ \A u \in Threads \ {t} : sess[u].pc = "idle"
  BY DEF MemoryInv
<1> QED
  BY <1>1, <1>2, <1>3 DEF Fits

LEMMA InsertInv ==
  ASSUME MemoryInv, NEW t \in Threads, NEW m \in Records, Insert(t, m)
  PROVE  MemoryInv'
<1>1. PICK s : s = sess[t]
  OBVIOUS
<1>2. /\ s.pc = "inserting" /\ Fresh(m) /\ ~Pending(t, s.row.content)
      /\ ~Taken(s.row.content) /\ KnownRun(s) /\ Fits(t, s)
  BY <1>1, OpenFits DEF Insert
<1>3. PICK z : z = [s EXCEPT !.pc = "ready", !.id = m]
  OBVIOUS
<1>4. /\ z \in Session /\ z.pc = "ready" /\ z.id = m
      /\ z.op = s.op /\ z.todo = s.todo /\ z.held = s.held /\ z.write = s.write
      /\ z.row = s.row /\ z.run = s.run /\ z.at = s.at /\ z.found = s.found
  BY <1>2, <1>3 DEF Fits, Session
<1>5. Shape(s) /\ Seen(s) /\ s.todo = {}
  BY <1>2 DEF Fits, Shape
<1>6. Shape(z)
  BY <1>2, <1>4, <1>5 DEF Shape
<1>7. Seen(z)
  <2>1. records[z.id].status = "NONE" /\ ~Taken(z.row.content)
    BY <1>2, <1>4 DEF Fresh
  <2>2. KnownRun(z)
    BY <1>2, <1>4 DEF KnownRun
  <2> QED
    BY <1>4, <1>5, <2>1, <2>2 DEF Seen
<1>8. ASSUME NEW u \in Threads \ {t} PROVE Apart(z, sess[u])
  <2>1. Apart(s, sess[u])
    BY <1>2 DEF Fits
  <2>2. sess[u].id # m
    BY <1>2 DEF Fresh
  <2>3. sess[u].id # NoRecord => sess[u].row.content # s.row.content
    BY <1>2 DEF Pending
  <2> QED
    BY <1>4, <2>1, <2>2, <2>3 DEF Apart
<1>9. ~overlap => Alone(z) /\ \A u \in Threads \ {t} : sess[u].pc = "idle"
  BY <1>2, <1>4 DEF Fits, Alone
<1>10. Fits(t, z)
  BY <1>4, <1>6, <1>7, <1>8, <1>9 DEF Fits
<1>11. Continue(t, z)
  BY <1>1, <1>3 DEF Insert
<1> QED
  BY <1>10, <1>11, ContinueInv

LEMMA FlushInv ==
  ASSUME MemoryInv, NEW t \in Threads, NEW m \in Records, Flush(t, m)
  PROVE  MemoryInv'
<1>1. PICK s : s = sess[t]
  OBVIOUS
<1>2. /\ s.pc = "flushing" /\ m \in s.todo /\ \A n \in s.todo : m <= n
      /\ Free(m) /\ Fits(t, s)
  BY <1>1, OpenFits DEF Flush, Turn
<1>3. PICK z : z = [s EXCEPT !.todo = s.todo \ {m}, !.held = s.held \cup {m},
                      !.pc = IF s.op = "retire" THEN "ready" ELSE s.pc]
  OBVIOUS
<1>4. /\ z \in Session /\ z.todo = s.todo \ {m} /\ z.held = s.held \cup {m}
      /\ z.pc = IF s.op = "retire" THEN "ready" ELSE "flushing"
      /\ z.op = s.op /\ z.write = s.write /\ z.row = s.row /\ z.id = s.id
      /\ z.run = s.run /\ z.at = s.at /\ z.found = s.found
  BY <1>2, <1>3 DEF Fits, Session
<1>5. Shape(s) /\ Seen(s) /\ s.id = NoRecord /\ s.op \in {"retire", "search", "run"}
  BY <1>2 DEF Fits, Shape, Session
<1>6. z.todo \cup z.held = s.todo \cup s.held
  BY <1>2, <1>4
<1>7. Shape(z)
  <2>1. \A h \in z.held, n \in z.todo : h < n
    <3>1. SUFFICES ASSUME NEW h \in z.held, NEW n \in z.todo PROVE h < n
      OBVIOUS
    <3>2. n \in s.todo /\ n # m /\ n \in Nat /\ m \in Nat /\ m <= n
      BY <1>2, <1>4 DEF Fits, Session
    <3>3. CASE h = m
      BY <3>2, <3>3
    <3>4. CASE h \in s.held
      BY <1>5, <3>2, <3>4 DEF Shape
    <3> QED
      BY <1>4, <3>3, <3>4
  <2>2. z.pc # "flushing" => z.todo = {}
    <3>1. ASSUME z.pc # "flushing" PROVE z.todo = {}
      <4>1. s.op = "retire"
        BY <1>4, <3>1
      <4>2. \A a, b \in s.todo \cup s.held : a = b
        BY <1>5, <4>1 DEF Shape
      <4> QED
        BY <1>2, <1>4, <4>2
    <3> QED
      BY <3>1
  <2>3. z.op = "retire" => /\ z.write \in {"ARCHIVED", "INVALIDATED"}
                           /\ \A a, b \in z.todo \cup z.held : a = b
    BY <1>4, <1>5, <1>6 DEF Shape
  <2>4. z.op # "search" \/ z.pc = "flushing" => z.found = {}
    BY <1>2, <1>4, <1>5 DEF Shape
  <2>5. /\ z.op \in {"search", "run"} => z.write = "EXPIRED"
        /\ z.op = "run" => z.run \in Runs
    BY <1>4, <1>5 DEF Shape
  <2>6. z.pc # "idle" /\ z.pc # "inserting" /\ z.id = NoRecord
    BY <1>4, <1>5
  <2> QED
    BY <1>4, <1>5, <2>1, <2>2, <2>3, <2>4, <2>5, <2>6 DEF Shape
<1>8. Seen(z)
  BY <1>4, <1>5, <1>6 DEF Seen
<1>9. ASSUME NEW u \in Threads \ {t} PROVE Apart(z, sess[u])
  <2>1. Apart(s, sess[u])
    BY <1>2 DEF Fits
  <2>2. m \notin sess[u].held
    BY <1>2 DEF Free
  <2> QED
    BY <1>4, <2>1, <2>2 DEF Apart
<1>10. ~overlap => Alone(z) /\ \A u \in Threads \ {t} : sess[u].pc = "idle"
  <2>1. ~overlap => Alone(s) /\ \A u \in Threads \ {t} : sess[u].pc = "idle"
    BY <1>2 DEF Fits
  <2> QED
    BY <1>2, <1>4, <1>6, <2>1 DEF Alone
<1>11. Fits(t, z)
  BY <1>4, <1>7, <1>8, <1>9, <1>10 DEF Fits
<1>12. Continue(t, z)
  BY <1>1, <1>3 DEF Flush
<1> QED
  BY <1>11, <1>12, ContinueInv

LEMMA FilterInv ==
  ASSUME MemoryInv, NEW t \in Threads, Filter(t)
  PROVE  MemoryInv'
<1>1. PICK s : s = sess[t]
  OBVIOUS
<1>2. PICK found : found = {m \in Records : /\ View(s)[m].status = "ACTIVE"
                                            /\ InScope(s, View(s)[m])}
  OBVIOUS
<1>3. /\ s.pc = "flushing" /\ s.todo = {} /\ s.op \in {"search", "run"}
      /\ Fits(t, s) /\ found \subseteq Records
  BY <1>1, <1>2, OpenFits DEF Filter
<1>4. /\ Shape(s) /\ Seen(s) /\ s \in Session /\ s.id = NoRecord /\ s.found = {}
      /\ s.write = "EXPIRED"
  BY <1>3 DEF Fits, Shape
<1>5. records \in [Records -> Row]
  BY DEF MemoryInv, TypeOK
<1>6. \A m \in found : /\ m \notin s.held /\ records[m].status = "ACTIVE"
                       /\ InScope(s, records[m])
  <2>1. SUFFICES ASSUME NEW m \in found
                 PROVE  /\ m \notin s.held /\ records[m].status = "ACTIVE"
                        /\ InScope(s, records[m])
    OBVIOUS
  <2>2. View(s)[m].status = "ACTIVE" /\ InScope(s, View(s)[m]) /\ m \in Records
    BY <1>2
  <2>3. m \in s.held => View(s)[m].status = "EXPIRED"
    BY <1>4, <1>5, <2>2 DEF View, Row
  <2>4. m \notin s.held => View(s)[m] = records[m]
    BY <2>2 DEF View
  <2> QED
    BY <2>2, <2>3, <2>4
<1>7. s.op = "run" => found = {}
  <2>1. SUFFICES ASSUME s.op = "run", NEW m \in found PROVE FALSE
    OBVIOUS
  <2>2. s.run \in Runs /\ s.run \notin runs
    BY <1>4, <2>1 DEF Shape, Seen
  <2>3. records[m].run = s.run
    BY <1>6, <2>2 DEF InScope
  <2>4. records[m].run \in runs \cup {NoRun}
    BY <1>3, <1>6 DEF MemoryInv, TablesOK
  <2> QED
    BY <2>2, <2>3, <2>4
<1>8. PICK row : row = IF s.op = "run" THEN NewRow(s.run, s.run, Never) ELSE s.row
  OBVIOUS
<1>9. /\ row \in Row
      /\ s.op = "run" => /\ row.status = "ACTIVE" /\ row.content = s.run
                         /\ row.run = s.run
  BY <1>4, <1>8 DEF NewRow, Row, Never, Shape, Session
<1>10. PICK z : z = [s EXCEPT !.pc = IF s.op = "search" THEN "ready" ELSE "inserting",
                              !.found = found, !.row = row]
  OBVIOUS
<1>11. /\ z \in Session /\ z.pc = IF s.op = "search" THEN "ready" ELSE "inserting"
       /\ z.found = found /\ z.row = row /\ z.todo = {} /\ z.held = s.held
       /\ z.op = s.op /\ z.write = s.write /\ z.id = NoRecord /\ z.run = s.run
       /\ z.at = s.at
  BY <1>3, <1>4, <1>9, <1>10 DEF Session
<1>12. Shape(z)
  BY <1>3, <1>4, <1>7, <1>9, <1>11 DEF Shape
<1>13. Seen(z)
  BY <1>3, <1>4, <1>11 DEF Seen
<1>14. \A u \in Threads \ {t} : Apart(z, sess[u])
  BY <1>3, <1>11 DEF Fits, Apart
<1>15. ASSUME ~overlap
       PROVE  Alone(z) /\ \A u \in Threads \ {t} : sess[u].pc = "idle"
  <2>1. Alone(s) /\ \A u \in Threads \ {t} : sess[u].pc = "idle"
    BY <1>3, <1>15 DEF Fits
  <2>2. ASSUME NEW m \in found
        PROVE  records[m].status = "ACTIVE" /\ records[m].expires > s.at
    <3>1. m \in Records /\ m \notin s.held /\ records[m].status = "ACTIVE"
      BY <1>3, <1>6
    <3>2. ~Due(records[m], s.at)
      BY <1>3, <2>1, <3>1 DEF Alone
    <3>3. ~(records[m].expires <= s.at)
      BY <3>1, <3>2 DEF Due
    <3>4. records[m].expires \in Nat /\ s.at \in Nat
      BY <1>4, <1>5, <3>1 DEF Row, Session
    <3> QED
      BY <3>1, <3>3, <3>4
  <2>3. Alone(z)
    BY <1>11, <1>3, <2>1, <2>2 DEF Alone
  <2> QED
    BY <2>1, <2>3
<1>16. Fits(t, z)
  BY <1>11, <1>12, <1>13, <1>14, <1>15 DEF Fits
<1>17. Continue(t, z)
  <2>1. CASE s.op = "search"
    <3>1. z = [s EXCEPT !.pc = "ready", !.found = found]
      BY <1>4, <1>8, <1>10, <2>1 DEF Session
    <3> QED
      BY <1>1, <1>2, <2>1, <3>1 DEF Filter
  <2>2. CASE s.op = "run"
    <3>1. z = [s EXCEPT !.pc = "inserting", !.found = found,
                        !.row = NewRow(s.run, s.run, Never)]
      BY <1>8, <1>10, <2>2
    <3> QED
      BY <1>1, <1>2, <2>2, <3>1 DEF Filter
  <2> QED
    BY <1>3, <2>1, <2>2
<1> QED
  BY <1>16, <1>17, ContinueInv

-----------------------------------------------------------------------------
(* The commit.                                                             *)

\* A session that has sent all its UPDATEs.
Complete(s) == s.pc # "idle" /\ s.todo = {}

(* What a commit makes of the tables.                                      *)
LEMMA PublishedTables ==
  ASSUME MemoryInv, NEW t \in Threads, NEW s, s = sess[t], Complete(s), Publish(t)
  PROVE  /\ records' \in [Records -> Row]
         /\ \A m \in Records \ (s.held \cup {s.id}) : records'[m] = records[m]
         /\ \A m \in s.held : /\ records[m].status # "NONE"
                              /\ records'[m] = [records[m] EXCEPT !.status = s.write]
                              /\ s.write \in Retired /\ m # s.id
         /\ s.id # NoRecord => /\ s.id \in Records /\ records'[s.id] = s.row
                               /\ s.row.status = "ACTIVE"
                               /\ records[s.id].status = "NONE"
                               /\ ~Taken(s.row.content)
                               /\ s.row.run \in runs' \cup {NoRun}
         /\ runs' = IF s.op = "run" THEN runs \cup {s.run} ELSE runs
         /\ now' = now /\ overlap' = overlap
<1>1. s \in Session /\ Shape(s) /\ Seen(s) /\ records \in [Records -> Row]
  BY DEF MemoryInv, TypeOK
<1>2. /\ records' = Written(s) /\ now' = now /\ overlap' = overlap
      /\ runs' = IF s.op = "run" THEN runs \cup {s.run} ELSE runs
  BY DEF Publish, RunsWith
<1>3. \A m \in Records :
         records'[m] = IF m = s.id THEN s.row
                       ELSE IF m \in s.held
                       THEN [records[m] EXCEPT !.status = s.write] ELSE records[m]
  BY <1>2 DEF Written, View
<1>4. \A m \in s.held : m \in Records /\ records[m].status # "NONE"
  BY <1>1 DEF Seen, Session
<1>5. s.id # NoRecord =>
         /\ s.id \in Records /\ records[s.id].status = "NONE"
         /\ ~Taken(s.row.content) /\ s.row.status = "ACTIVE" /\ KnownRun(s)
  BY <1>1 DEF Seen, Shape, Session
<1>6. \A m \in s.held : m # s.id /\ s.write \in Retired
  <2>1. SUFFICES ASSUME NEW m \in s.held PROVE m # s.id /\ s.write \in Retired
    OBVIOUS
  <2>2. m # s.id
    BY <1>4, <1>5
  <2>3. s.op \in {"retire", "search", "run"}
    BY <1>1, <2>1 DEF Shape, Session
  <2>4. s.write \in Retired
    BY <1>1, <2>3 DEF Shape, Retired
  <2> QED
    BY <2>2, <2>4
<1>7. s.id # NoRecord => s.row.run \in runs' \cup {NoRun}
  BY <1>2, <1>5 DEF KnownRun
<1>8. records' \in [Records -> Row]
  <2>1. ASSUME NEW m \in Records PROVE records'[m] \in Row
    <3>1. CASE m = s.id
      BY <1>1, <1>3, <3>1 DEF Session
    <3>2. CASE m # s.id /\ m \in s.held
      <4>1. [records[m] EXCEPT !.status = s.write] \in Row
        BY <1>1, <1>6, <3>2 DEF Row
      <4> QED
        BY <1>3, <3>2, <4>1
    <3>3. CASE m # s.id /\ m \notin s.held
      BY <1>1, <1>3, <3>3
    <3> QED
      BY <3>1, <3>2, <3>3
  <2> QED
    BY <1>2, <2>1 DEF Written
<1>9. \A m \in Records \ (s.held \cup {s.id}) : records'[m] = records[m]
  BY <1>3
<1>10. \A m \in s.held : records'[m] = [records[m] EXCEPT !.status = s.write]
  BY <1>3, <1>4, <1>6
<1>11. s.id # NoRecord => records'[s.id] = s.row
  BY <1>3, <1>5
<1> QED
  BY <1>2, <1>4, <1>5, <1>6, <1>7, <1>8, <1>9, <1>10, <1>11

(* No record disappears or changes what it says.                           *)
LEMMA PublishedKeeps ==
  ASSUME MemoryInv, NEW t \in Threads, NEW s, s = sess[t], Complete(s), Publish(t),
         NEW m \in Records
  PROVE  /\ records[m].status # "NONE" =>
              /\ records'[m].status # "NONE" /\ m # s.id
              /\ records'[m].content = records[m].content
              /\ records'[m].run = records[m].run
              /\ records'[m].expires = records[m].expires
         /\ records[m].status = "NONE" /\ m # s.id => records'[m] = records[m]
         /\ runs \subseteq runs'
<1>1. records[m] \in Row
  BY DEF MemoryInv, TypeOK
<1>2. m # s.id => m \in s.held \/ records'[m] = records[m]
  BY PublishedTables
<1>3. m \in s.held =>
         /\ records'[m] = [records[m] EXCEPT !.status = s.write]
         /\ s.write \in Retired /\ records[m].status # "NONE"
  BY PublishedTables
<1>4. m \in s.held => /\ records'[m].status # "NONE"
                      /\ records'[m].content = records[m].content
                      /\ records'[m].run = records[m].run
                      /\ records'[m].expires = records[m].expires
  BY <1>1, <1>3 DEF Row, Retired
<1>5. records[m].status # "NONE" => m # s.id
  <2>1. s.id # NoRecord => records[s.id].status = "NONE"
    BY PublishedTables
  <2>2. m # NoRecord
    OBVIOUS
  <2> QED
    BY <2>1, <2>2
<1>6. runs \subseteq runs'
  BY PublishedTables
<1> QED
  BY <1>2, <1>3, <1>4, <1>5, <1>6

LEMMA PublishedUnique ==
  ASSUME MemoryInv, NEW t \in Threads, NEW s, s = sess[t], Complete(s), Publish(t)
  PROVE  TablesOK'
<1>1. TablesOK
  BY DEF MemoryInv
<1>2. ASSUME NEW m \in Records, NEW n \in Records,
             records'[m].status # "NONE", records'[n].status # "NONE",
             records'[m].content = records'[n].content
      PROVE  m = n
  <2>1. /\ records[m].status # "NONE" => records'[m].content = records[m].content
        /\ records[m].status = "NONE" => m = s.id
    BY <1>2, PublishedKeeps
  <2>2. /\ records[n].status # "NONE" => records'[n].content = records[n].content
        /\ records[n].status = "NONE" => n = s.id
    BY <1>2, PublishedKeeps
  <2>3. s.id # NoRecord =>
           records'[s.id] = s.row /\ \A x \in Records :
              records[x].status # "NONE" => records[x].content # s.row.content
    BY PublishedTables DEF Taken
  <2>4. CASE records[m].status # "NONE" /\ records[n].status # "NONE"
    BY <1>1, <1>2, <2>1, <2>2, <2>4 DEF TablesOK, OneRecordPerContent
  <2>5. CASE records[m].status = "NONE" /\ records[n].status # "NONE"
    BY <1>2, <2>1, <2>2, <2>3, <2>5
  <2>6. CASE records[m].status # "NONE" /\ records[n].status = "NONE"
    BY <1>2, <2>1, <2>2, <2>3, <2>6
  <2>7. CASE records[m].status = "NONE" /\ records[n].status = "NONE"
    BY <2>1, <2>2, <2>7
  <2> QED
    BY <2>4, <2>5, <2>6, <2>7
<1>3. ASSUME NEW m \in Records, records'[m].status # "NONE"
      PROVE  records'[m].run \in runs' \cup {NoRun}
  <2>1. CASE records[m].status # "NONE"
    BY <1>1, <2>1, PublishedKeeps DEF TablesOK
  <2>2. CASE records[m].status = "NONE"
    <3>1. m = s.id
      BY <1>3, <2>2, PublishedKeeps
    <3> QED
      BY <3>1, PublishedTables
  <2> QED
    BY <2>1, <2>2
<1> QED
  BY <1>2, <1>3 DEF TablesOK, OneRecordPerContent

(* The other sessions still know what they knew.                           *)
LEMMA PublishedSeen ==
  ASSUME MemoryInv, NEW t \in Threads, NEW s, s = sess[t], Complete(s), Publish(t),
         NEW u \in Threads \ {t}, NEW z, z = sess[u]
  PROVE  Seen(z)'
<1>1. Seen(z) /\ Shape(z) /\ z \in Session /\ Apart(s, z)
  BY DEF MemoryInv, TypeOK
<1>2. \A m \in z.todo \cup z.held :
         /\ records'[m].status # "NONE"
         /\ z.op \in {"search", "run"} => records'[m].expires <= z.at
  <2>1. ASSUME NEW m \in z.todo \cup z.held
        PROVE  /\ records'[m].status # "NONE"
               /\ z.op \in {"search", "run"} => records'[m].expires <= z.at
    <3>1. /\ m \in Records /\ records[m].status # "NONE"
          /\ z.op \in {"search", "run"} => records[m].expires <= z.at
      BY <1>1, <2>1 DEF Seen, Session
    <3>2. records'[m].status # "NONE" /\ records'[m].expires = records[m].expires
      BY <3>1, PublishedKeeps
    <3> QED
      BY <3>1, <3>2
  <2> QED
    BY <2>1
<1>3. z.at <= now'
  BY <1>1, PublishedTables DEF Seen
<1>4. ASSUME z.id # NoRecord
      PROVE  /\ records'[z.id].status = "NONE" /\ ~Taken(z.row.content)'
             /\ KnownRun(z)'
  <2>1. /\ z.id \in Records /\ records[z.id].status = "NONE"
        /\ ~Taken(z.row.content) /\ KnownRun(z)
    BY <1>1, <1>4 DEF Seen, Session
  <2>2. z.id # s.id
    BY <1>1, <1>4 DEF Apart
  <2>3. records'[z.id] = records[z.id]
    BY <2>1, <2>2, PublishedKeeps
  <2>4. ASSUME NEW m \in Records, records'[m].status # "NONE",
               records'[m].content = z.row.content
        PROVE  FALSE
    <3>1. CASE records[m].status # "NONE"
      <4>1. records[m].content = z.row.content
        BY <2>4, <3>1, PublishedKeeps
      <4> QED
        BY <2>1, <3>1, <4>1 DEF Taken
    <3>2. CASE records[m].status = "NONE"
      <4>1. m = s.id /\ s.id # NoRecord
        BY <2>4, <3>2, PublishedKeeps
      <4>2. s.row.content = z.row.content
        BY <2>4, <4>1, PublishedTables
      <4> QED
        BY <1>1, <1>4, <4>1, <4>2 DEF Apart
    <3> QED
      BY <3>1, <3>2
  <2>5. KnownRun(z)'
    <3>1. PICK m \in Records : TRUE
      BY <2>1
    <3>2. runs \subseteq runs'
      BY <3>1, PublishedKeeps
    <3> QED
      BY <2>1, <3>2 DEF KnownRun
  <2> QED
    BY <2>1, <2>3, <2>4, <2>5 DEF Taken
<1>5. z.op = "run" => z.run \notin runs'
  <2>1. z.op = "run" => z.run \notin runs
    BY <1>1 DEF Seen
  <2>2. s.op = "run" /\ z.op = "run" => s.run # z.run
    BY <1>1 DEF Apart
  <2>3. runs' = IF s.op = "run" THEN runs \cup {s.run} ELSE runs
    BY PublishedTables
  <2> QED
    BY <2>1, <2>2, <2>3
<1> QED
  BY <1>2, <1>3, <1>4, <1>5 DEF Seen

LEMMA PublishInv ==
  ASSUME MemoryInv, NEW t \in Threads, Complete(sess[t]), Publish(t)
  PROVE  MemoryInv'
<1>1. PICK s : s = sess[t]
  OBVIOUS
<1>2. Complete(s) /\ s \in Session /\ Shape(s) /\ sess \in [Threads -> Session]
  BY <1>1 DEF MemoryInv, TypeOK
<1>3. /\ sess' = [sess EXCEPT ![t] = Closed] /\ now' = now /\ overlap' = overlap
      /\ records' \in [Records -> Row]
      /\ runs' = IF s.op = "run" THEN runs \cup {s.run} ELSE runs
  <2>1. sess' = [sess EXCEPT ![t] = Closed] /\ now' = now /\ overlap' = overlap
    BY DEF Publish
  <2>2. records' \in [Records -> Row]
    BY <1>1, <1>2, PublishedTables
  <2>3. runs' = IF s.op = "run" THEN runs \cup {s.run} ELSE runs
    BY <1>1 DEF Publish, RunsWith
  <2> QED
    BY <2>1, <2>2, <2>3
<1>4. sess'[t] = Closed /\ \A u \in Threads \ {t} : sess'[u] = sess[u]
  BY <1>2, <1>3
<1>5. TypeOK'
  <2>1. s.op = "run" => s.run \in Runs
    BY <1>2 DEF Shape
  <2>2. sess' \in [Threads -> Session]
    BY <1>2, <1>3, ClosedSound
  <2> QED
    BY <1>3, <2>1, <2>2 DEF MemoryInv, TypeOK
<1>6. TablesOK'
  BY <1>1, <1>2, PublishedUnique
<1>7. ASSUME NEW u \in Threads PROVE Shape(sess'[u]) /\ Seen(sess[u])'
  <2>1. CASE u = t
    <3>1. sess'[u] = Closed /\ now' \in Nat
      BY <1>3, <1>4, <2>1 DEF MemoryInv, TypeOK
    <3>2. Seen(Closed)'
      BY <3>1 DEF Closed, Seen
    <3>3. Seen(sess[u])'
      <4>1. PICK z : z = sess'[u]
        OBVIOUS
      <4>2. Seen(z)'
        BY <3>1, <4>1, <3>2
      <4> QED
        BY <4>1, <4>2
    <3> QED
      BY <3>1, <3>3, ClosedSound
  <2>2. CASE u # t
    <3>1. PICK z : z = sess[u]
      OBVIOUS
    <3>2. Shape(z) /\ sess'[u] = z
      BY <1>4, <2>2, <3>1 DEF MemoryInv
    <3>3. Seen(z)'
      BY <1>1, <1>2, <2>2, <3>1, PublishedSeen
    <3> QED
      BY <3>2, <3>3
  <2> QED
    BY <2>1, <2>2
<1>8. ASSUME NEW u \in Threads, NEW v \in Threads, u # v
      PROVE  Apart(sess'[u], sess'[v])
  <2>1. CASE u = t
    BY <1>4, <2>1, ClosedSound
  <2>2. CASE v = t
    BY <1>4, <2>2, ClosedSound, ApartSymmetric
  <2>3. CASE u # t /\ v # t
    BY <1>4, <1>8, <2>3 DEF MemoryInv
  <2> QED
    BY <2>1, <2>2, <2>3
<1>9. ASSUME ~overlap'
      PROVE  /\ \A u \in Threads : Alone(sess[u])'
             /\ \A u, v \in Threads :
                   sess'[u].pc # "idle" /\ sess'[v].pc # "idle" => u = v
  <2>1. \A u \in Threads : sess'[u].pc = "idle"
    <3>1. \A u \in Threads \ {t} : sess[u].pc = "idle"
      BY <1>1, <1>2, <1>3, <1>9 DEF MemoryInv, Complete
    <3> QED
      BY <1>4, <3>1 DEF Closed
  <2>2. ASSUME NEW u \in Threads PROVE Alone(sess[u])'
    <3>1. PICK z : z = sess'[u]
      OBVIOUS
    <3>2. Shape(z) /\ z.op = "none"
      BY <1>7, <2>1, <3>1 DEF Shape
    <3>3. z.todo = {} /\ z.held = {} /\ z.found = {}
      BY <3>2 DEF Shape
    <3>4. Alone(z)'
      BY <3>2, <3>3 DEF Alone
    <3> QED
      BY <3>1, <3>4
  <2> QED
    BY <2>1, <2>2
<1> QED
  BY <1>5, <1>6, <1>7, <1>8, <1>9 DEF MemoryInv

-----------------------------------------------------------------------------
(* The invariant.                                                          *)

LEMMA TickInv ==
  ASSUME MemoryInv, Tick
  PROVE  MemoryInv'
<1>1. /\ now' = now + 1 /\ overlap' = overlap /\ records' = records
      /\ runs' = runs /\ sess' = sess /\ now \in Nat
  BY DEF Tick, MemoryInv, TypeOK
<1>2. ASSUME NEW t \in Threads PROVE Seen(sess[t])'
  <2>1. Seen(sess[t]) /\ sess[t].at \in Nat
    BY DEF MemoryInv, TypeOK, Session
  <2>2. sess[t].at <= now'
    BY <1>1, <2>1 DEF Seen
  <2> QED
    BY <1>1, <2>1, <2>2 DEF Seen, Taken, KnownRun
<1>3. \A t \in Threads : Alone(sess[t]) => Alone(sess[t])'
  BY <1>1 DEF Alone, Due
<1>4. TypeOK' /\ TablesOK'
  BY <1>1 DEF MemoryInv, TypeOK, TablesOK, OneRecordPerContent
<1> QED
  BY <1>1, <1>2, <1>3, <1>4 DEF MemoryInv

LEMMA RunFailsEarlyInv ==
  ASSUME MemoryInv, NEW t \in Threads, NEW run \in Runs, RunFailsEarly(t, run)
  PROVE  MemoryInv'
<1>1. /\ now' = now /\ overlap' = overlap /\ records' = records
      /\ runs' = runs \cup {run} /\ sess' = sess
  BY DEF RunFailsEarly
<1>2. ASSUME NEW u \in Threads PROVE Seen(sess[u])'
  <2>1. Seen(sess[u])
    BY DEF MemoryInv
  <2>2. sess[u].op = "run" => sess[u].run # run
    BY DEF RunFailsEarly, NewRun
  <2> QED
    BY <1>1, <2>1, <2>2 DEF Seen, Taken, KnownRun
<1>3. \A u \in Threads : Alone(sess[u]) => Alone(sess[u])'
  BY <1>1 DEF Alone, Due
<1>4. TypeOK' /\ TablesOK'
  BY <1>1 DEF MemoryInv, TypeOK, TablesOK, OneRecordPerContent
<1> QED
  BY <1>1, <1>2, <1>3, <1>4 DEF MemoryInv

LEMMA InitInv == Init => MemoryInv
<1> SUFFICES ASSUME Init PROVE MemoryInv
  OBVIOUS
<1>1. now = 0 /\ runs = {} /\ records = [m \in Records |-> Absent]
  BY DEF Init
<1>2. \A t \in Threads : sess[t] = Closed
  BY DEF Init
<1>3. TypeOK
  BY ClosedSound DEF Init, TypeOK, Absent, Row
<1>4. TablesOK
  BY <1>1 DEF TablesOK, OneRecordPerContent, Absent
<1>5. \A t \in Threads : sess[t].pc = "idle"
  BY <1>2, ClosedSound
<1>6. \A t \in Threads : Shape(sess[t]) /\ Alone(sess[t])
  BY <1>2, ClosedSound
<1>7. \A t \in Threads : Seen(sess[t])
  BY <1>1, <1>2, ClosedSound
<1>8. \A t, u \in Threads : Apart(sess[t], sess[u])
  BY <1>2, ClosedSound
<1> QED
  BY <1>3, <1>4, <1>5, <1>6, <1>7, <1>8 DEF MemoryInv

LEMMA ArriveInv ==
  ASSUME MemoryInv, NEW t \in Threads, Arrive(t)
  PROVE  MemoryInv'
<1>1. ASSUME NEW content \in Contents, NEW run \in Runs \cup {NoRun},
             NEW expires \in Deadlines \cup {Never}, Create(t, content, run, expires)
      PROVE  MemoryInv'
  BY <1>1, CreateInv
<1>2. ASSUME NEW m \in Records, NEW status \in {"ARCHIVED", "INVALIDATED"},
             Retire(t, m, status)
      PROVE  MemoryInv'
  BY <1>2, RetireInv
<1>3. ASSUME NEW run \in Runs \cup {NoRun}, Search(t, run) PROVE MemoryInv'
  BY <1>3, SweepInv DEF Search
<1>4. ASSUME NEW run \in Runs, BeginRun(t, run) PROVE MemoryInv'
  BY <1>4, SweepInv DEF BeginRun
<1>5. ASSUME NEW run \in Runs, RunFailsEarly(t, run) PROVE MemoryInv'
  BY <1>5, RunFailsEarlyInv
<1> QED
  BY <1>1, <1>2, <1>3, <1>4, <1>5 DEF Arrive

LEMMA CommitIsPublish ==
  ASSUME MemoryInv, NEW t \in Threads, Commit(t) \/ RunFails(t)
  PROVE  Complete(sess[t]) /\ Publish(t)
<1>1. Shape(sess[t])
  BY DEF MemoryInv
<1>2. CASE Commit(t)
  BY <1>1, <1>2 DEF Commit, Complete, Shape
<1>3. CASE RunFails(t)
  BY <1>3 DEF RunFails, Complete
<1> QED
  BY <1>2, <1>3

LEMMA StepInv == MemoryInv /\ [Next]_vars => MemoryInv'
<1> SUFFICES ASSUME MemoryInv, [Next]_vars PROVE MemoryInv'
  OBVIOUS
<1>1. ASSUME NEW t \in Threads, Advance(t) PROVE MemoryInv'
  <2>1. ASSUME NEW m \in Records, Insert(t, m) PROVE MemoryInv'
    BY <2>1, InsertInv
  <2>2. ASSUME NEW m \in Records, Flush(t, m) PROVE MemoryInv'
    BY <2>2, FlushInv
  <2>3. CASE InsertFails(t)
    BY <2>3, CloseInv DEF InsertFails
  <2>4. CASE Filter(t)
    BY <2>4, FilterInv
  <2>5. CASE Commit(t) \/ RunFails(t)
    BY <2>5, CommitIsPublish, PublishInv
  <2> QED
    BY <1>1, <2>1, <2>2, <2>3, <2>4, <2>5 DEF Advance
<1>2. ASSUME NEW t \in Threads, Abort(t) PROVE MemoryInv'
  BY <1>2, CloseInv DEF Abort
<1>3. CASE Tick
  BY <1>3, TickInv
<1>4. CASE UNCHANGED vars
  <2>1. /\ now' = now /\ overlap' = overlap /\ records' = records
        /\ runs' = runs /\ sess' = sess
    BY <1>4 DEF vars
  <2>2. TypeOK' /\ TablesOK'
    BY <2>1 DEF MemoryInv, TypeOK, TablesOK, OneRecordPerContent
  <2>3. \A t \in Threads : Seen(sess[t]) => Seen(sess[t])'
    BY <2>1 DEF Seen, Taken, KnownRun
  <2>4. \A t \in Threads : Alone(sess[t]) => Alone(sess[t])'
    BY <2>1 DEF Alone, Due
  <2> QED
    BY <2>1, <2>2, <2>3, <2>4 DEF MemoryInv
<1> QED
  BY <1>1, <1>2, <1>3, <1>4, ArriveInv DEF Next

LEMMA InvariantHolds == Spec => []MemoryInv
BY InitInv, StepInv, PTL DEF Spec

-----------------------------------------------------------------------------
(* The theorems.                                                           *)

\* Every variable stays within its type.
THEOREM TypeCorrect == Spec => []TypeOK
<1>1. MemoryInv => TypeOK
  BY DEF MemoryInv
<1> QED
  BY <1>1, InvariantHolds, PTL

\* However many sessions find a content missing at the same time, it is
\* recorded once.
THEOREM RecordedOnce == Spec => []OneRecordPerContent
<1>1. MemoryInv => OneRecordPerContent
  BY DEF MemoryInv, TablesOK
<1> QED
  BY <1>1, InvariantHolds, PTL

\* No agent run ever retrieves a memory, whatever the table holds: it asks for
\* the records of its own id, which nobody can have added.
THEOREM NothingRecalled == Spec => []RunsRecallNothing
<1>1. MemoryInv => RunsRecallNothing
  BY DEF MemoryInv, Shape, RunsRecallNothing
<1> QED
  BY <1>1, InvariantHolds, PTL

\* Without overlap the sweep and the filter of a search leave only records
\* that are ACTIVE and not due.
THEOREM SearchIsLive == Spec => []SerialSearchIsLive
<1>1. MemoryInv => SerialSearchIsLive
  BY DEF MemoryInv, Alone, SerialSearchIsLive
<1> QED
  BY <1>1, InvariantHolds, PTL

\* Any number of sweeps, rulings and creations wait only upwards.
THEOREM WaitsOnlyUpwards == Spec => []WaitsAscend
<1>1. MemoryInv => WaitsAscend
  <2> SUFFICES ASSUME MemoryInv PROVE WaitsAscend
    OBVIOUS
  <2>1. ASSUME NEW t \in Threads, NEW u \in Threads, NEW m \in Records, NEW n \in Records,
               m \in sess[u].held, Turn(sess[t], m), Turn(sess[u], n)
        PROVE  m < n
    BY <2>1 DEF MemoryInv, Shape, Turn
  <2>2. ASSUME NEW t \in Threads, sess[t].pc = "inserting", sess[t].held # {}
        PROVE  ~Pending(t, sess[t].row.content)
    <3>1. PICK s : s = sess[t]
      OBVIOUS
    <3>2. Shape(s) /\ s.pc = "inserting" /\ s.held # {}
      BY <2>2, <3>1 DEF MemoryInv
    <3>3. s.op = "run" /\ s.row.content = s.run /\ s.run \in Runs
      BY <3>2 DEF Shape
    <3>4. ASSUME NEW u \in Threads \ {t}, sess[u].id # NoRecord,
                 sess[u].row.content = s.run
          PROVE  FALSE
      <4>1. PICK z : z = sess[u]
        OBVIOUS
      <4>2. Shape(z) /\ Apart(s, z) /\ z.id # NoRecord /\ z.row.content = s.run
        BY <3>1, <3>4, <4>1 DEF MemoryInv
      <4>3. z.op = "run" /\ z.row.content = z.run
        BY <3>3, <4>2 DEF Shape
      <4> QED
        BY <3>3, <4>2, <4>3 DEF Apart
    <3> QED
      BY <3>1, <3>3, <3>4 DEF Pending
  <2> QED
    BY <2>1, <2>2 DEF WaitsAscend
<1> QED
  BY <1>1, InvariantHolds, PTL

(* Only a commit changes the table of records.                             *)
LEMMA RecordsChange ==
  ASSUME MemoryInv, [Next]_vars
  PROVE  \/ records' = records /\ (now' = now \/ now' = now + 1)
         \/ \E t \in Threads : Complete(sess[t]) /\ Publish(t)
<1>1. ASSUME NEW t \in Threads, Arrive(t) PROVE UNCHANGED <<now, records>>
  BY <1>1 DEF Arrive, Create, Retire, Search, BeginRun, Sweep, RunFailsEarly, Continue
<1>2. ASSUME NEW t \in Threads, Advance(t)
      PROVE  UNCHANGED <<now, records>> \/ (Complete(sess[t]) /\ Publish(t))
  <2>1. CASE Commit(t) \/ RunFails(t)
    BY <2>1, CommitIsPublish
  <2>2. CASE \E m \in Records : Insert(t, m) \/ Flush(t, m)
    BY <2>2 DEF Insert, Flush, Continue
  <2>3. CASE InsertFails(t)
    BY <2>3 DEF InsertFails, Continue
  <2>4. CASE Filter(t)
    BY <2>4 DEF Filter, Continue
  <2> QED
    BY <1>2, <2>1, <2>2, <2>3, <2>4 DEF Advance
<1>3. ASSUME NEW t \in Threads, Abort(t) PROVE UNCHANGED <<now, records>>
  BY <1>3 DEF Abort, Continue
<1>4. Tick => records' = records /\ now' = now + 1
  BY DEF Tick
<1> QED
  BY <1>1, <1>2, <1>3, <1>4 DEF Next, vars

\* One request at a time, a retired record keeps its status for good.
THEOREM RetirementIsFinal == Spec => SerialRetirementIsFinal
<1>1. MemoryInv /\ [Next]_vars => FinalUnlessOverlapping
  <2> SUFFICES ASSUME MemoryInv, [Next]_vars, ~overlap, NEW m \in Records,
                      records[m].status \in Retired
               PROVE  records'[m].status = records[m].status
    BY DEF FinalUnlessOverlapping
  <2>1. CASE records' = records
    BY <2>1
  <2>2. ASSUME NEW t \in Threads, Complete(sess[t]), Publish(t)
        PROVE  records'[m].status = records[m].status
    <3>1. PICK s : s = sess[t]
      OBVIOUS
    <3>2. Alone(s)
      BY <3>1 DEF MemoryInv
    <3>3. m \notin s.held
      BY <3>2 DEF Alone, Retired
    <3>4. m # s.id
      BY <2>2, <3>1, PublishedKeeps DEF Retired
    <3> QED
      BY <2>2, <3>1, <3>3, <3>4, PublishedTables
  <2> QED
    BY <2>1, <2>2, RecordsChange
<1> QED
  BY <1>1, InvariantHolds, PTL DEF SerialRetirementIsFinal, Spec

(* A commit is a step of the contract.                                     *)
LEMMA PublishKeepsContract ==
  ASSUME MemoryInv, NEW t \in Threads, Complete(sess[t]), Publish(t)
  PROVE  Contract!Next \/ records' = records
<1>1. PICK s : s = sess[t]
  OBVIOUS
<1>2. Complete(s) /\ s \in Session /\ Shape(s) /\ Seen(s)
  BY <1>1 DEF MemoryInv, TypeOK
<1>3. /\ records' \in [Records -> Row] /\ records \in [Records -> Row] /\ now' = now
      /\ \A m \in Records \ (s.held \cup {s.id}) : records'[m] = records[m]
      /\ \A m \in s.held : /\ m \in Records /\ records[m].status # "NONE" /\ m # s.id
                           /\ records'[m] = [records[m] EXCEPT !.status = s.write]
      /\ s.id # NoRecord => /\ s.id \in Records /\ records'[s.id] = s.row
                            /\ s.row.status = "ACTIVE"
                            /\ records[s.id].status = "NONE" /\ ~Taken(s.row.content)
  BY <1>1, <1>2, PublishedTables DEF MemoryInv, TypeOK, Session
<1>4. CASE s.held = {} /\ s.id = NoRecord
  <2>1. \A m \in Records : records'[m] = records[m]
    BY <1>3, <1>4
  <2> QED
    BY <1>3, <2>1
<1>5. CASE s.op = "retire" /\ s.held # {}
  <2>1. PICK m \in s.held : TRUE
    BY <1>5
  <2>2. s.held = {m} /\ s.write \in {"ARCHIVED", "INVALIDATED"} /\ s.id = NoRecord
    BY <1>2, <1>5, <2>1 DEF Shape
  <2>3. \A n \in Records :
           records'[n] = IF n = m THEN [records[m] EXCEPT !.status = s.write]
                         ELSE records[n]
    BY <1>3, <2>1, <2>2
  <2>4. records' = [records EXCEPT ![m].status = s.write]
    BY <1>3, <2>3
  <2>5. Contract!Retire(m, s.write)
    BY <1>3, <2>1, <2>4 DEF Contract!Retire
  <2> QED
    BY <1>3, <2>1, <2>2, <2>5 DEF Contract!Next
<1>6. CASE s.op # "retire" /\ (s.held # {} \/ s.id # NoRecord)
  <2>1. PICK new : new = IF s.id = NoRecord THEN {} ELSE {s.id}
    OBVIOUS
  <2>2. \A m \in s.held : Contract!Expires(m)
    <3>1. SUFFICES ASSUME NEW m \in s.held PROVE Contract!Expires(m)
      OBVIOUS
    <3>2. s.op \in {"search", "run"} /\ s.write = "EXPIRED"
      BY <1>2, <1>6, <3>1 DEF Shape, Session
    <3>3. records[m].expires <= s.at /\ s.at <= now
      BY <1>2, <3>1, <3>2 DEF Seen
    <3>4. records[m].expires \in Nat /\ s.at \in Nat /\ now \in Nat
      BY <1>2, <1>3, <3>1 DEF Row, Session, MemoryInv, TypeOK
    <3>5. records[m].expires <= now
      BY <3>3, <3>4
    <3> QED
      BY <1>3, <3>1, <3>2, <3>5 DEF Contract!Expires
  <2>3. \A m \in new : Contract!Remembers(m)
    BY <1>3, <2>1 DEF Contract!Remembers, Contract!Known, Taken
  <2>4. Contract!Sweep(s.held, new)
    <3>1. ASSUME NEW m \in Records, m \notin s.held \cup new
          PROVE  records'[m] = records[m]
      BY <1>3, <2>1, <3>1
    <3> QED
      BY <2>2, <2>3, <3>1 DEF Contract!Sweep
  <2>5. s.held \in SUBSET Records
    BY <1>2 DEF Session
  <2>6. CASE s.id = NoRecord
    <3>1. PICK m \in Records : TRUE
      BY <1>3, <1>6, <2>6
    <3> QED
      BY <1>3, <2>1, <2>4, <2>5, <2>6, <3>1 DEF Contract!Next
  <2>7. CASE s.id # NoRecord
    BY <1>3, <2>1, <2>4, <2>5, <2>7 DEF Contract!Next
  <2> QED
    BY <2>6, <2>7
<1>7. s.id # NoRecord => s.op # "retire"
  BY <1>2 DEF Shape
<1> QED
  BY <1>4, <1>5, <1>6, <1>7

\* Memory implements its contract, whether requests overlap or not.
THEOREM MemoryImplementsContract == Spec => ContractHolds
<1>1. Init => Contract!Init
  BY DEF Init, Contract!Init, Absent
<1>2. MemoryInv /\ [Next]_vars => [Contract!Next]_<<now, records>>
  <2> SUFFICES ASSUME MemoryInv, [Next]_vars
               PROVE  Contract!Next \/ UNCHANGED <<now, records>>
    OBVIOUS
  <2>1. CASE records' = records /\ (now' = now \/ now' = now + 1)
    BY <2>1 DEF Contract!Next
  <2>2. ASSUME NEW t \in Threads, Complete(sess[t]), Publish(t)
        PROVE  Contract!Next \/ UNCHANGED <<now, records>>
    BY <2>2, PublishKeepsContract DEF Publish
  <2> QED
    BY <2>1, <2>2, RecordsChange
<1> QED
  BY <1>1, <1>2, InvariantHolds, PTL DEF Spec, ContractHolds, Contract!Spec
=============================================================================
