\* Two Oban executors race over one job; channels and callers may die.
CONSTANTS
  Job = {j1}
  Worker = {w1}
  Lease = {l1, l2}
  NoWorker = NoWorker
  NoLease = NoLease
  Slot = {s1, s2}
  Channel = {c1}
  Caller = {q1}
  Phases = {"generating"}
  Reports = {"ok", "too_large"}
  Budgeted = {j1}
  MaxAttempts = 1
  MaxRounds = 1
  Fallible = {c1, q1}
  AttemptBound = 1
SPECIFICATION Spec
SYMMETRY Symmetry
INVARIANTS TypeOK LeaseColumns PollerNotMisled LeaseWithinDeadline
PROPERTIES TerminalIsFinal ImplementsLifecycle
CHECK_DEADLOCK FALSE
