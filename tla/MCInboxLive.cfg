SPECIFICATION FairSpec
CONSTANTS
  w1 = w1
  w2 = w2
  w3 = w3
  a1 = a1
  a2 = a2
  phone = phone
  door = door
  NoMessage = NoMessage
  Conversation = {phone, door}
  AgentConversation = {door}
  Message = {w1, w2, a1}
  ConversationOf <- Assigned
  Releasing = {w2}
  Wordless = {}
  MaxAttempts = 2
  MaxCrashes = 1
  MaxDbFaults = 0
PROPERTIES
  EveryMessageSettles
  KeepsPromiseLive
CHECK_DEADLOCK FALSE
