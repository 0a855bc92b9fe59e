\* A cancel races the assignment of the job; nothing dies.
CONSTANTS
  Job = {j1}
  Worker = {w1}
  Lease = {l1, l2}
  NoWorker = NoWorker
  NoLease = NoLease
  Slot = {s1}
  Channel = {c1}
  Caller = {q1}
  Phases = {"generating"}
  Reports = {"ok", "error"}
  Budgeted = {}
  MaxAttempts = 1
  MaxRounds = 1
  Fallible = {}
  AttemptBound = 1
SPECIFICATION Spec
INVARIANTS CancelledLeaseIsTold
CHECK_DEADLOCK FALSE
