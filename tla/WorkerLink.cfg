\* One worker, a reconnect, a generation that may be pushed twice and one the
\* worker may be unable to decode.  The build on the second connection does not
\* acknowledge cancels.
CONSTANTS
  Lease = {l1, l2}
  Conn = {1, 2}
  NoConn = 0
  Parallel = 1
  Acks = {1}
  Twice = {l1}
  Undecodable = {l2}
SPECIFICATION Spec
INVARIANTS TypeOK InflightCovers InflightDrift LeaseAccountedFor
PROPERTIES CancelFreesSlot
CHECK_DEADLOCK FALSE
