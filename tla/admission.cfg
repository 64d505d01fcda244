SPECIFICATION Spec
CONSTANTS
  NoSlash = NoSlash
  NoTarget = NoTarget
  NoApp = NoApp
  NoOwner = NoOwner
  NoAccount = NoAccount
  NoConfig = NoConfig
  NoAgent = NoAgent
  NoSid = NoSid
  NoPin = NoPin
  NoCred = NoCred
  Accounts = {"x", "y"}
  Repositories = {"r", "q"}
  Nested = {"r/q"}
  Tools <- MCTools
  ReadTools = {"get"}
  LocalTools = {"minimize_comment"}
  Files <- MCFiles
  AgentIds = {"agent", "reader"}
  Keys = {"k1", "k2"}
  Calls <- MCCalls
  Sids = {"s"}
INVARIANTS
  WritesAreGuarded
  TokensFitAllowlist
  CallsStayInAllowlist
  AllowedCallsAreRouted
