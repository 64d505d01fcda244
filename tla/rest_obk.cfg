SPECIFICATION FairOSpec
CONSTANTS
  c1 = c1
  web = web
  wide = wide
  narrow = narrow
  Own = Own
  NoTask = NoTask
  NoRequest = NoRequest
  NoAnswer = NoAnswer
  NoEntry = NoEntry
  NoLine = NoLine
  Tasks <- MCTasks
  Commands <- MCCommands
  Clients <- MCClients
  Identities <- MCIdentities
  Requests <- MCRequests
  Access <- MCAccess
  Allowed <- MCAllowed
  Lines <- MCLines
  Inputs <- MCInputs
  Ttl = 1
  RawTtl = 1
  MaxVersion <- MCMaxVersion
INVARIANTS
  TypeOK
  OneFetchPerRawKey
  RawAnswersOwnIdentity
  OnlyPooledAnswersCached
  RecognisedMutationsPassThrough
  OneGenuineAnswer
  CredentialFailsClosed
PROPERTIES
  RawReadsAreMonotonic
  EveryCommandEnds
