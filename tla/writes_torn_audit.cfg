SPECIFICATION Spec
CONSTANTS
  k1 = k1
  k2 = k2
  k3 = k3
  scoped = scoped
  free = free
  r1 = r1
  r2 = r2
  read = read
  write = write
  local = local
  NoAgent = NoAgent
  NoRepo = NoRepo
  Calls <- MCCalls3
  Agents <- MCAgents2
  Tools <- MCTools
  ReadTools <- MCReadTools
  LocalTools <- MCLocalTools
  Repos <- MCRepos
  AgentTools <- MCAgentTools
  AgentRepos <- MCAgentRepos
  EnableWrites = TRUE
  MultiApp = TRUE
  HasAudit = TRUE
  Cap = 2
  Faults <- MCNoFaults
  AuditFaults <- MCTorn
SYMMETRY MCSymmetry
INVARIANTS
  AuditedBeforeForward
