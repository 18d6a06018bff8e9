SPECIFICATION Spec
CONSTANTS
  customer = customer
  restock = restock
  again = again
  legacy = legacy
  Nobody = Nobody
  ByHand = ByHand
  Conversation = {customer}
  Lead = {restock}
  ConversationOf <- Origin
  AskOf <- Asks
  Admin = {admin1}
  Refusing = {}
  MaxAttempts = 3
  MaxPauses = 2
  MaxFaults = 0
INVARIANTS
  NoStaleSession
CHECK_DEADLOCK FALSE
