SPECIFICATION FairSpec
CONSTANTS
  ask = ask
  again = again
  callback = callback
  nested = nested
  deeper = deeper
  front = front
  back = back
  far = far
  Outside = Outside
  Nobody = Nobody
  Key = {front, back, far}
  Request = {ask, nested, deeper}
  KeyOf <- Keys
  ParentOf <- Parents
  Async = {}
  Handle <- Handles
  Permitted = {front, back, far}
  MaxHop = 2
  MaxAttempts = 2
  MaxCrashes = 1
  MaxDbFaults = 1
INVARIANT
  ChainsAreBounded
PROPERTIES
  EveryCallReturns
  TurnsEnd
CHECK_DEADLOCK FALSE
