\* Two channels deliver reports on one job; the Oban executor may die.
CONSTANTS
  Job = {j1}
  Worker = {w1}
  Lease = {l1, l2}
  NoWorker = NoWorker
  NoLease = NoLease
  Slot = {s1}
  Channel = {c1, c2}
  Caller = {q1}
  Phases = {}
  Reports = {"ok", "error"}
  Budgeted = {}
  MaxAttempts = 1
  MaxRounds = 1
  Fallible = {s1}
  AttemptBound = 1
SPECIFICATION Spec
SYMMETRY Symmetry
INVARIANTS SnapshotCurrent RoundsBounded OkIsTheEnd NeverStranded
CHECK_DEADLOCK FALSE
