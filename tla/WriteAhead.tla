------------------------------ MODULE WriteAhead ------------------------------
(***************************************************************************)
(* What the audit log promises of writes, whatever becomes of the handlers *)
(* that carry them out: a write is on record before it is sent, it is sent *)
(* once, and it has at most one result on record, which is never more      *)
(* definite than what the server did allows.  McpWrites implements this    *)
(* specification.                                                          *)
(***************************************************************************)

CONSTANT Calls

VARIABLES records,      \* what can be read in the log
          effect,       \* call -> what the server has done of it
          own           \* calls of a tool that reports an error when it does
                        \* not know, or has sent nothing

wvars == <<records, effect, own>>

Request(c) == <<c, "request">>
Result(c, o) == <<c, "result", o>>
Concluded(c) == \E o \in {"ok", "error", "unknown"} : Result(c, o) \in records

WInit == records = {} /\ effect = [c \in Calls |-> "none"] /\ own = {}

\* The call is taken: it turns out to be one of an own tool.
TakeOwn(c) ==
  /\ effect[c] = "none" /\ Request(c) \notin records
  /\ own' = own \cup {c}
  /\ UNCHANGED <<records, effect>>

Announce(c) ==
  /\ effect[c] = "none" /\ ~Concluded(c)
  /\ records' = records \cup {Request(c)}
  /\ UNCHANGED <<effect, own>>

SendOnce(c) ==
  /\ Request(c) \in records
  /\ effect[c] = "none" /\ ~Concluded(c)
  /\ effect' = [effect EXCEPT ![c] = "sent"]
  /\ UNCHANGED <<records, own>>

ServerActs(c) ==
  /\ effect[c] = "sent"
  /\ \E e \in {"ok", "error"} : effect' = [effect EXCEPT ![c] = e]
  /\ UNCHANGED <<records, own>>

\* "ok" is never a guess; "error" is one only of an own tool.
Justified(c, o) ==
  \/ o = "ok" /\ effect[c] = "ok"
  \/ o = "error" /\ (effect[c] = "error" \/ c \in own)
  \/ o = "unknown" /\ effect[c] # "none" /\ c \notin own

Conclude(c, o) ==
  /\ Request(c) \in records
  /\ ~Concluded(c)
  /\ Justified(c, o)
  /\ records' = records \cup {Result(c, o)}
  /\ UNCHANGED <<effect, own>>

WNext == \E c \in Calls : \/ TakeOwn(c) \/ Announce(c) \/ SendOnce(c)
                          \/ ServerActs(c)
                          \/ \E o \in {"ok", "error", "unknown"} : Conclude(c, o)

WSpec == WInit /\ [][WNext]_wvars
=============================================================================
