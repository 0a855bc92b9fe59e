\* Two runs and two connections, with one job at a time.
CONSTANTS
  Run = {r1, r2}
  Conn = {c1, c2}
  Job = {j1}
  NoRun = NoRun
  NoConn = NoConn
SPECIFICATION Spec
INVARIANTS TypeOK BeatMeansWork ShownIsTrue
PROPERTY ClosedFallsSilent
CHECK_DEADLOCK FALSE
