------------------------------ MODULE AuditLog ------------------------------
(***************************************************************************)
(* AuditSink (src/src/audit.rs): an append-only file of JSON lines, each   *)
(* fsync'd before append() returns.  What matters of the file is which     *)
(* records a reader can parse, and whether the file ends in the middle of  *)
(* a line, because the next line is then glued to the torn one and neither *)
(* parses.  append() never looks at what is there, and open() only seeks   *)
(* to the end, so a restart repairs nothing.                               *)
(***************************************************************************)

CONSTANT AuditFaults    \* what may befall an append: "error", "torn"

VARIABLES readable,     \* the records that parse
          torn          \* the file ends without a newline

log == <<readable, torn>>

LogInit == readable = {} /\ torn = FALSE

\* The records a reader finds once the line of record r is written in full.
WithLine(r) == IF torn THEN readable ELSE readable \cup {r}

\* append() returns Ok: write_all and sync_data succeeded.
Persist(r) == /\ readable' = WithLine(r)
              /\ torn' = FALSE

\* append() returns Err: nothing was written, or the line was but the fsync
\* failed, or write_all stopped inside the line.
PersistFails(r) ==
  \/ /\ "error" \in AuditFaults
     /\ UNCHANGED log
  \/ /\ "error" \in AuditFaults
     /\ Persist(r)
  \/ /\ "torn" \in AuditFaults
     /\ torn' = TRUE
     /\ UNCHANGED readable

\* The process dies, possibly inside write_all.
LogCrash == /\ UNCHANGED readable
            /\ \/ UNCHANGED torn
               \/ "torn" \in AuditFaults /\ torn' = TRUE
=============================================================================
