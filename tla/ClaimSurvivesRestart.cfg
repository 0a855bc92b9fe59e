\* A channel process dies between two statements.
CONSTANTS
  Job = {j1}
  Worker = {w1}
  Lease = {l1, l2}
  NoWorker = NoWorker
  NoLease = NoLease
  Slot = {s1}
  Channel = {c1}
  Caller = {}
  Phases = {"generating"}
  Reports = {"ok", "error"}
  Budgeted = {}
  MaxAttempts = 1
  MaxRounds = 1
  Fallible = {c1}
  AttemptBound = 1
SPECIFICATION Spec
INVARIANTS NeverStranded
CHECK_DEADLOCK FALSE
