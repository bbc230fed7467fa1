SPECIFICATION Spec
CONSTANTS
  Workers = {w1, w2}
  MaxPacket = 3
  Capacity = 3
  MaxBytes = 4
  MaxFaults = 1
INVARIANTS
  OneSendOutstanding
\* A session that is closed and whose completions are handled is over.
CHECK_DEADLOCK FALSE
