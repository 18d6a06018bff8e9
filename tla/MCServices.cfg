SPECIFICATION ServicesSpec
CONSTANTS
  first = first
  second = second
  NoEvent = NoEvent
  Message = {first, second}
  Mixes <- Bursts
  Captioned = {first}
  SentAt <- Stamps
  MaxIntakeCrashes = 1
  Turn = {sale}
  Filter = {active}
  MaxTurnTries = 2
  MaxSends = 2
  MaxCalls = 2
  MaxChanges = 3
  Request = {r1, r2}
  MaxAttempts = 2
  MaxTokens = 3
  customer = customer
  owner = owner
  Phone = {owner}
  ClaimTtl = 1
  SessionTtl = 2
  LinkTtl = 2
  KeptFor = 1
  MaxClock = 4
  MaxSessions = 2
  MaxLinks = 1
  MaxRosterTokens = 1
  MaxBoots = 1
  Person = {customer, owner}
  Contact = {customer, owner}
  Conversation <- BothAgents
  Owners = {owner}
  InboxRow = {first}
  Process = {one, two}
  MaxOpens = 3
  MaxStamp = 2
INVARIANTS
  ServicesTypeOK
  QueuedIsNeverLost
  PhotosListedAsSent
  PhotoStagedOnce
  WaitingRowKeepsItsFile
  StaleOnlyByRace
  StockMovedOnce
  ActiveIsVisibleOrTold
  MintsAreShared
  OperatorsWordStands
  ReachIsBounded
  ForgottenWhole
  UpgradeKeepsEverything
PROPERTIES
  FollowedInOrder
CHECK_DEADLOCK FALSE
