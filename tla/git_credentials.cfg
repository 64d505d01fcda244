SPECIFICATION Spec
CONSTANTS
  k1 = k1
  k2 = k2
  reader = reader
  writer = writer
  r1 = r1
  r2 = r2
  NoAgent = NoAgent
  NoRepo = NoRepo
  NoScope = NoScope
  Calls <- MCCalls
  Agents <- MCAgents
  Repos <- MCRepos
  Envelopes = {}
  AgentRepos <- MCAgentRepos
  ReadOnly <- MCReadOnly
  VerifyTtl = 3
  Timeout = 2
  Lifetimes <- MCLifetimes
  Margin = 1
  AuditFaults <- MCFaults
SYMMETRY MCSymmetry
INVARIANTS
  NoMintUnaudited
  IssuedAsRecorded
PROPERTIES
  OwnerVerifiedInTime
