\* One run and one connection.
CONSTANTS
  Run = {r1}
  Conn = {c1}
  Job = {j1}
  NoRun = NoRun
  NoConn = NoConn
SPECIFICATION Spec
INVARIANT StopDropsSocket
CHECK_DEADLOCK FALSE
