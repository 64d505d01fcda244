--------------------------------- MODULE Obk ---------------------------------
(***************************************************************************)
(* obk, the drop-in for gh (src/obk/src/main.rs), as a client of the REST  *)
(* proxy: a read that it recognises is asked of octobroker and printed;    *)
(* everything else, and every read that fails, goes to the real gh.  As    *)
(* git's credential helper it exchanges its key for a token, or ends git's *)
(* search for credentials.                                                 *)
(*                                                                         *)
(* A command is a process and its own connection to the proxy: command c   *)
(* is the client of task c.  Other tasks serve other clients.              *)
(***************************************************************************)
EXTENDS RestProxy, Sequences

CONSTANTS Commands,     \* invocations of obk
          Lines,        \* command lines: [kind, asks]
          Clients,      \* tasks of other clients
          Inputs,       \* what git writes to its credential helper
          NoLine

VARIABLES line,         \* command -> its command line
          at,           \* command -> where its process is
          asked,        \* command -> how many of its requests were of use
          out           \* command -> what it has printed, or had gh print

obk == <<line, at, asked, out>>
ovars == <<vars, obk>>

\* obk sends GETs only, to /api and to /raw.
Reads == {r \in Requests : r.kind \in {"json", "raw"}}

ASSUME ObkAssumption ==
  /\ Commands \cup Clients \subseteq Tasks
  /\ Commands \cap Clients = {}
  /\ \A l \in Lines : /\ DOMAIN l = {"kind", "asks"}
                      /\ l.kind \in {"api", "parsed", "diff", "direct"}
                      /\ l.asks \in Seq(Reads)
                      /\ l.kind # "direct" => l.asks # <<>>
  /\ NoLine \notin Lines

-----------------------------------------------------------------------------
OInit == /\ Init
         /\ line = [c \in Commands |-> NoLine]
         /\ at = [c \in Commands |-> "new"]
         /\ asked = [c \in Commands |-> 0]
         /\ out = [c \in Commands |-> <<>>]

To(c, place) == at' = [at EXCEPT ![c] = place]

Prints(c, output) == out' = [out EXCEPT ![c] = Append(@, output)]

\* An answer of octobroker's to request r; or what else a command comes to.
Pooled(r, a) == [by |-> "octobroker", from |-> r, answer |-> a]
Output(what) == [by |-> what, from |-> NoRequest, answer |-> NoAnswer]

\* try_pooled: what is recognised is asked for; writes, unsupported commands
\* and those without -R or a number go to gh.
Invoke(c, l) ==
  /\ at[c] = "new"
  /\ line' = [line EXCEPT ![c] = l]
  /\ To(c, IF l.kind = "direct" THEN "gh" ELSE "ready")
  /\ UNCHANGED <<vars, asked, out>>

\* The next request: one, or for pr checks the pull request and its runs.
Ask(c) ==
  /\ at[c] = "ready"
  /\ Arrive(c, line[c].asks[asked[c] + 1])
  /\ To(c, "asking")
  /\ UNCHANGED <<line, asked, out>>

\* Mutant: a diff is printed without a look at the status.
UsableUnchecked(l, a) == l.kind \in {"api", "diff"} \/ a.status = "ok"

\* http_get ignores the status: obk api prints the body of an error, which is
\* empty; other commands cannot parse it.  pr diff looks at the status.
Usable(l, a) == l.kind = "api" \/ a.status = "ok"

Answered(c) == at[c] = "asking" /\ step[c] = "answered"

Last(c) == asked[c] + 1 = Len(line[c].asks)

\* The pull request names its head: on to the runs.
Continue(c) ==
  /\ Answered(c) /\ Usable(line[c], answer[c]) /\ ~Last(c)
  /\ Deliver(c)
  /\ asked' = [asked EXCEPT ![c] = @ + 1]
  /\ To(c, "ready")
  /\ UNCHANGED <<line, out>>

PrintAnswer(c) ==
  /\ Answered(c) /\ Usable(line[c], answer[c]) /\ Last(c)
  /\ Deliver(c)
  /\ Prints(c, Pooled(req[c], answer[c]))
  /\ To(c, "done")
  /\ UNCHANGED <<line, asked>>

\* An error, or a success that has not the expected shape.
FallThrough(c) ==
  /\ Answered(c)
  /\ line[c].kind = "parsed" \/ ~Usable(line[c], answer[c])
  /\ Deliver(c)
  /\ To(c, "gh")
  /\ UNCHANGED <<line, asked, out>>

\* Mutant: obk waits for octobroker as long as it takes.
GiveUpNever(c) ==
  /\ at[c] \in {"ready", "asking"}
  /\ step[c] = "idle" /\ UNCHANGED vars
  /\ To(c, "gh")
  /\ UNCHANGED <<line, asked, out>>

\* No connection, a broken one, or no answer within the blocking client's
\* timeout, which disconnects it.
GiveUp(c) ==
  /\ at[c] \in {"ready", "asking"}
  /\ Cancel(c) \/ (step[c] = "idle" /\ UNCHANGED vars)
  /\ To(c, "gh")
  /\ UNCHANGED <<line, asked, out>>

RunGh(c) ==
  /\ at[c] = "gh"
  /\ Prints(c, Output("gh"))
  /\ To(c, "done")
  /\ UNCHANGED <<vars, line, asked>>

-----------------------------------------------------------------------------
(* obk git-credential get *)

\* Host names are compared without regard to case.
Lower(host) == [name |-> host.name, upper |-> FALSE, port |-> host.port]

GithubHost(port) == [name |-> "github.com", upper |-> FALSE, port |-> port]

\* Mutant: the host is compared as git passes it, with its port.
CredentialPlanExact(g) ==
  IF g.protocol # "https" \/ g.host # GithubHost("none") THEN "decline"
  ELSE IF ~g.key \/ ~g.repo THEN "quit"
  ELSE "fetch"

\* Declined is what is not github.com over https; of the rest, fetched is what
\* has a sound port, a key, and a path of a repository.
CredentialPlan(g) ==
  LET host == Lower(g.host)
  IN  IF g.protocol # "https" \/ host # GithubHost(host.port)
      THEN "decline"
      ELSE IF host.port \notin {"none", "443"} \/ ~g.key \/ ~g.repo
      THEN "quit"
      ELSE "fetch"

\* A request that must not reach another credential helper.
Recognised(g) == g.protocol = "https" /\ g.host.name = "github.com"

CredentialLine(g) == [kind |-> "credential", recognised |-> Recognised(g)]

Credential(c, g) ==
  /\ at[c] = "new"
  /\ line' = [line EXCEPT ![c] = CredentialLine(g)]
  /\ \/ CredentialPlan(g) = "fetch" /\ To(c, "exchange") /\ UNCHANGED out
     \/ /\ CredentialPlan(g) # "fetch"
        /\ Prints(c, Output(CredentialPlan(g)))
        /\ To(c, "done")
  /\ UNCHANGED <<vars, asked>>

\* A token from octobroker; or within 15 s no answer, an error or a body
\* without username and password, which is quit=true.
Exchange(c) ==
  /\ at[c] = "exchange"
  /\ \E what \in {"token", "quit"} : Prints(c, Output(what))
  /\ To(c, "done")
  /\ UNCHANGED <<vars, line, asked>>

-----------------------------------------------------------------------------
Process(c) ==
  \/ Ask(c) \/ Continue(c) \/ PrintAnswer(c) \/ FallThrough(c) \/ GiveUp(c)
  \/ RunGh(c) \/ Exchange(c)

\* octobroker, GitHub and the clients that are not obk.
Broker ==
  /\ \/ \E t \in Tasks : Handle(t) \/ Github(t)
     \/ \E t \in Clients : \/ \E r \in Requests : Arrive(t, r)
                           \/ Deliver(t) \/ Cancel(t)
     \/ World
  /\ UNCHANGED obk

ONext == \/ \E c \in Commands : \/ \E l \in Lines : Invoke(c, l)
                                \/ \E g \in Inputs : Credential(c, g)
                                \/ Process(c)
         \/ Broker

OSpec == OInit /\ [][ONext]_ovars

\* A started process runs: every wait of obk's has a timeout.  Neither GitHub
\* nor octobroker is assumed to do anything.
FairOSpec == OSpec /\ \A c \in Commands : WF_ovars(Process(c))

-----------------------------------------------------------------------------
\* A command prints one answer: its reader never sees a pooled answer and gh's,
\* or half of one and then the other, and never nothing.  What a pooled command
\* other than a plain obk api prints as its answer is a success GitHub gave for
\* the very request it made last, and a diff one that an identity of the pool
\* may read.
OneGenuineAnswer ==
  \A c \in Commands :
    /\ Len(out[c]) = IF at[c] = "done" THEN 1 ELSE 0
    /\ \A n \in 1..Len(out[c]) :
         out[c][n].by = "octobroker" /\ line[c].kind \in {"parsed", "diff"} =>
           LET o == out[c][n]
           IN  /\ o.from = line[c].asks[Len(line[c].asks)]
               /\ o.answer.status = "ok"
               /\ o.answer.v <= version[o.from.path]
               /\ \E i \in Identities : o.from.path \in Access[i]

\* "A recognized GitHub credential request MUST NOT fall through on any
\* failure": git goes to no other helper after obk, whatever the case of the
\* host's name, its port, the path, the key or the exchange.
CredentialFailsClosed ==
  \A c \in Commands :
    at[c] = "done" /\ line[c].kind = "credential" =>
      (out[c] = <<Output("decline")>> <=> ~line[c].recognised)

\* Every command ends, even when octobroker or GitHub never answers.
EveryCommandEnds ==
  \A c \in Commands : at[c] # "new" ~> at[c] = "done"
=============================================================================
