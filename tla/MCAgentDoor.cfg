SPECIFICATION Spec
CONSTANTS
  ask = ask
  again = again
  callback = callback
  nested = nested
  deeper = deeper
  front = front
  back = back
  far = far
  Outside = Outside
  Nobody = Nobody
  Key = {front}
  Request = {ask, again, callback}
  KeyOf <- Keys
  ParentOf <- Parents
  Async = {callback}
  Handle <- Handles
  Permitted = {front}
  MaxHop = 2
  MaxAttempts = 3
  MaxCrashes = 2
  MaxDbFaults = 1
INVARIANTS
  TypeOK
  AnswerIsOwn
  ParkedIsOwed
PROPERTIES
  OneExchangeAtATime
CHECK_DEADLOCK FALSE
