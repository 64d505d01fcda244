SPECIFICATION FairSpec
CONSTANTS
  c1 = c1
  c2 = c2
  c3 = c3
  g1 = g1
  g2 = g2
  g3 = g3
  r1 = r1
  NoCaller = NoCaller
  NoGen = NoGen
  NoRequest = NoRequest
  NoScope = NoScope
  Callers <- MCCallers2
  Gens <- MCGens3
  Repos <- MCRepos
  Envelopes = {}
  Lifetimes <- MCOne
  Margin = 0
INVARIANTS
  AnswersInScope
PROPERTIES
  EveryCallEnds
