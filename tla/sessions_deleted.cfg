SPECIFICATION Spec
CONSTANTS
  a1 = a1
  a2 = a2
  c1 = c1
  c2 = c2
  s1 = s1
  s2 = s2
  t1 = t1
  t2 = t2
  NoSid = NoSid
  NoPin = NoPin
  Agents <- MCAgents
  Creds <- MCCreds
  Expiring <- MCExpiring
  Sids <- MCSids
  Tasks <- MCTasks
SYMMETRY MCSymmetry
PROPERTIES
  DeletedStaysDeleted
