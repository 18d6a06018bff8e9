SPECIFICATION Spec
CONSTANTS
  customer = customer
  restock = restock
  again = again
  legacy = legacy
  Nobody = Nobody
  ByHand = ByHand
  Conversation = {customer}
  Lead = {restock, again}
  ConversationOf <- Origin
  AskOf <- Asks
  Admin = {admin1}
  Refusing = {customer}
  MaxAttempts = 3
  MaxPauses = 2
  MaxFaults = 2
INVARIANTS
  TypeOK
  OneLiveHandoff
  AgentFallsSilent
  SessionForgetsHandoff
  HeldLeadKeepsSilence
  HandBackStrandsNobody
PROPERTIES
  PauseByHandStands
CHECK_DEADLOCK FALSE
