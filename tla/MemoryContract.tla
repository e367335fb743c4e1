--------------------------- MODULE MemoryContract ---------------------------
(***************************************************************************)
(* What operational memory promises: a content is remembered once, as an   *)
(* ACTIVE record, which may later be retired: archived or invalidated by   *)
(* an operator, or expired once its deadline has come.  Two operators who  *)
(* retire the same record at the same time may overwrite each other, but   *)
(* nothing brings a record back or changes what it says.                   *)
(***************************************************************************)
EXTENDS Naturals
CONSTANT Records
VARIABLES now,      \* the clock
          records   \* the table of memory records

Init == now = 0 /\ \A m \in Records : records[m].status = "NONE"

Known(content) ==
    \E n \in Records : records[n].status # "NONE" /\ records[n].content = content

Remembers(m) == /\ records[m].status = "NONE" /\ records'[m].status = "ACTIVE"
                /\ ~Known(records'[m].content)

Expires(m) == /\ records[m].status # "NONE" /\ records[m].expires <= now
              /\ records'[m] = [records[m] EXCEPT !.status = "EXPIRED"]

\* A search expires what is due; an agent run also remembers its outcome.
Sweep(due, new) == \A m \in Records : \/ m \in due /\ Expires(m)
                                      \/ m \in new /\ Remembers(m)
                                      \/ m \notin due \cup new /\ records'[m] = records[m]

Retire(m, status) == /\ records[m].status # "NONE"
                     /\ records' = [records EXCEPT ![m].status = status]

Next ==
    \/ now' = now + 1 /\ UNCHANGED records
    \/ /\ \/ \E due \in SUBSET Records, m \in Records :
                Sweep(due, {}) \/ Sweep(due, {m})
          \/ \E m \in Records, status \in {"ARCHIVED", "INVALIDATED"} :
                Retire(m, status)
       /\ UNCHANGED now

Spec == Init /\ [][Next]_<<now, records>>
=============================================================================
