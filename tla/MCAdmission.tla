------------------------------ MODULE MCAdmission ------------------------------
(***************************************************************************)
(* Configuration files for Admission: allowlists of up to two entries in   *)
(* every spelling that some part of the code treats in its own way, with   *)
(* each kind of backend, and calls that spell their repository alike.      *)
(***************************************************************************)
EXTENDS Admission, FiniteSets

x == Plain("x")
y == Plain("y")
r == Plain("r")
q == Plain("q")
Upper(n) == [n EXCEPT !.upper = TRUE]
Padded(n) == [n EXCEPT !.padded = TRUE]

Repo(owner, name) == [owner |-> owner, name |-> name]

MCEntries ==
  {Repo(x, r), Repo(Upper(x), Upper(q)), Repo(x, Plain("*")), Repo(y, r),
   Repo(Padded(x), r), Repo(x, Padded(q)), Repo(x, Plain("")),
   Repo(Plain(""), r), Repo(x, Plain("r/q")), NoSlash}

MCAllowlists == {s \in SUBSET MCEntries : Cardinality(s) <= 2}

MCTools == {"get", "create", "minimize_comment"}

\* The agent of every file but the ones of network trust; the reader has no
\* repositories, and its key is good for the agent, too.
MCAgent(tools, repos) ==
  [id |-> "agent", keys |-> {"k1"}, tools |-> tools, repos |-> repos]
MCReader ==
  [id |-> "reader", keys |-> {"k1", "k2"}, tools |-> {"get"}, repos |-> {}]
MCKeyless == [MCReader EXCEPT !.keys = {}]

MCAgentSets ==
  {{}, {MCReader}, {MCKeyless}, {MCReader, MCAgent(MCTools, {Repo(x, r)})},
   {MCAgent(MCTools, {})}}
    \cup {{MCAgent(MCTools, s)} : s \in MCAllowlists}

MCApp(owner, installation) == [owner |-> owner, installation |-> installation]

\* [app, apps]: none, one App, one without an installation, several, several
\* of one owner, both kinds.
MCBackends ==
  {<<NoApp, <<>>>>, <<MCApp(x, NoAccount), <<>>>>, <<MCApp(NoOwner, "x"), <<>>>>,
   <<MCApp(NoOwner, NoAccount), <<>>>>, <<MCApp(Padded(x), NoAccount), <<>>>>,
   <<NoApp, <<x>>>>, <<NoApp, <<Padded(Upper(x)), y>>>>, <<NoApp, <<x, Upper(x)>>>>,
   <<MCApp(x, NoAccount), <<x>>>>}

\* [writes, audit, git, pool]
MCSwitches ==
  {<<FALSE, FALSE, FALSE, TRUE>>, <<TRUE, TRUE, FALSE, TRUE>>,
   <<TRUE, FALSE, FALSE, FALSE>>, <<FALSE, TRUE, TRUE, FALSE>>}

MCFiles ==
  {[writes |-> s[1], audit |-> s[2], git |-> s[3], pool |-> s[4],
    agents |-> a, app |-> b[1], apps |-> b[2]] :
     s \in MCSwitches, a \in MCAgentSets, b \in MCBackends}

MCTargets ==
  {Repo(x, r), Repo(Upper(x), Upper(r)), Repo(Upper(x), q), Repo(y, r),
   Repo(Padded(x), r), Repo(x, Padded(r)), Repo(Plain(""), r),
   Repo(x, Plain("*")), NoTarget}

MCCalls == [tool : MCTools, args : MCTargets]
=============================================================================
