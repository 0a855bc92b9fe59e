\* Nothing dies; nothing is assumed of workers and callers.
CONSTANTS
  Job = {j1}
  Worker = {w1}
  Lease = {l1, l2}
  NoWorker = NoWorker
  NoLease = NoLease
  Slot = {s1}
  Channel = {c1}
  Caller = {q1}
  Phases = {"generating"}
  Reports = {"ok", "error", "too_large"}
  Budgeted = {}
  MaxAttempts = 1
  MaxRounds = 1
  Fallible = {}
  AttemptBound = 1
SPECIFICATION FairSpec
PROPERTIES EveryJobEnds
CHECK_DEADLOCK FALSE
