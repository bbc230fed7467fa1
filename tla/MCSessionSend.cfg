SPECIFICATION FairSpec
CONSTANTS
  Workers = {w1, w2}
  MaxPacket = 3
  Capacity = 3
  MaxBytes = 5
  MaxFaults = 0
INVARIANTS
  OneSendOutstanding
  NoStall
  SendInv
PROPERTIES
  StreamSpec
  EverythingSent
\* A session that is closed and whose completions are handled is over.
CHECK_DEADLOCK FALSE
