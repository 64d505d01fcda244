SPECIFICATION Spec
CONSTANTS
  both = both
  second = second
  s1 = s1
  s2 = s2
  t1 = t1
  t2 = t2
  NoSid = NoSid
  NoRoute = NoRoute
  NoPin = NoPin
  NoOpening = NoOpening
  NoAgent = NoAgent
  NoRequest = NoRequest
  Owners <- MCOwners
  Agents <- MCAgents
  AgentOwners <- MCAgentOwners
  Sids <- MCSids
  Tasks <- MCTasks
  Initializers <- MCInitializers
  MaxTokens <- MCMaxTokens
SYMMETRY MCSymmetry
INVARIANTS
  TypeOK
  PinsAreWhole
  NoMixedTokens
  NoSessionLeftBehind
  OnlyDownstreamIdsShown
PROPERTIES
  ImplementsSessionTable
