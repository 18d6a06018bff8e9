SPECIFICATION Spec
CONSTANTS
  w1 = w1
  w2 = w2
  w3 = w3
  a1 = a1
  a2 = a2
  phone = phone
  door = door
  NoMessage = NoMessage
  Conversation = {phone}
  AgentConversation = {}
  Message = {w1, w2, w3}
  ConversationOf <- Assigned
  Releasing = {w2}
  Wordless = {w3}
  MaxAttempts = 3
  MaxCrashes = 2
  MaxDbFaults = 1
INVARIANTS
  TypeOK
  NoRowStrandedByDesign
  SettledInOrder
  AttemptBudget
  DoneWasRead
  FailureHasCause
PROPERTIES
  TurnKeyIsStable
CHECK_DEADLOCK FALSE
