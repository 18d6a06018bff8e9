SPECIFICATION IntakeSpec
CONSTANTS
  first = first
  second = second
  NoEvent = NoEvent
  Message = {first, second}
  Mixes <- Bursts
  Captioned = {first}
  SentAt <- Stamps
  MaxIntakeCrashes = 1
INVARIANT
  OnlyLandedAreMarked
CHECK_DEADLOCK FALSE
