SPECIFICATION FairSpec
CONSTANTS
  MaxItems = 3
INVARIANTS
  OneTerminalEvent
  EndIsTrue
  EventsInOrder
PROPERTIES
  BothEnd
