SPECIFICATION Spec
CONSTANTS
  w1 = w1
  w2 = w2
  w3 = w3
  a1 = a1
  a2 = a2
  phone = phone
  door = door
  NoMessage = NoMessage
  Conversation = {phone}
  AgentConversation = {}
  Message = {w1}
  ConversationOf <- Assigned
  Releasing = {}
  Wordless = {}
  MaxAttempts = 3
  MaxCrashes = 2
  MaxDbFaults = 1
INVARIANTS
  NoRowStranded
CHECK_DEADLOCK FALSE
