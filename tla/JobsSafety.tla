----------------------------- MODULE JobsSafety -----------------------------
(***************************************************************************)
(* The safety properties of module Jobs, for every value of its constants. *)
(* The inductive invariant is IInv of module JobsInvariant: the lemmas of  *)
(* JobsSteps say what a step may do, and each conjunct follows from that.  *)
(* The second part proves that no pending job is forgotten, from QInv.     *)
(***************************************************************************)
EXTENDS JobsSteps

\* The kinds of change of a row, from IInv's point of view.
Stepped == \A j \in Job : RowStep(j)

LEMMA EveryRowSteps ==
  ASSUME OneRowStep
  PROVE  Stepped
  <1>1. ASSUME NEW j \in Job, row'[j] = row[j], state'[j] = state[j]
        PROVE  RowStep(j)
    BY <1>1 DEF RowStep, Stays
  <1>2. QED
    BY <1>1 DEF OneRowStep, Stepped

LEMMA Decided ==
  ASSUME TypeOK, NEW j \in Job
  PROVE  /\ row[j].status \in {Absent} \cup Open \cup Terminal
         /\ row[j].lease \in Lease \cup {NoLease}
         /\ row[j].attempts \in Nat /\ row[j].rounds \in Nat
  BY RowTypes, RowFields, StatusSets DEF Open, Terminal

\* A live generation was live before, or is new; and what a handler read of
\* it still holds.
LEMMA LiveKept ==
  ASSUME LeasesKnown, NEW j \in Job, RowStep(j), NEW l \in Known,
         IsLive(row'[j], l)
  PROVE  IsLive(row[j], l) /\ CountersKept(j)
  <1>1. CASE Stays(j)
    BY <1>1 DEF Stays, CountersKept, IsLive
  <1>2. CASE Ticks(j)
    BY <1>2 DEF Ticks, LeaseKept, IsLive
  <1>3. CASE IsAssigned(j)
    BY <1>3, JobsAssumption DEF IsAssigned, IsLive, Known
  <1>4. CASE \/ Enters(j) \/ IsRetried(j) \/ IsExhausted(j) \/ IsParked(j)
             \/ IsResumed(j) \/ IsFinished(j)
    BY <1>4 DEF Enters, IsRetried, IsExhausted, IsParked, IsResumed,
                IsFinished, IsLive, Terminal
  <1>5. QED
    BY <1>1, <1>2, <1>3, <1>4 DEF RowStep

LEMMA StaysSubmitted ==
  ASSUME NEW j \in Job, RowStep(j), row[j].status # Absent
  PROVE  row'[j].status # Absent
  BY DEF RowStep, Stays, Enters, Ticks, IsAssigned, IsRetried, IsExhausted,
         IsParked, IsResumed, IsFinished, Absent, Open, Terminal

LEMMA StaysOver ==
  ASSUME NEW j \in Job, RowStep(j), row[j].status \in Terminal
  PROVE  row'[j] = row[j] /\ state'[j] = state[j]
  <1>1. ~(IsParked(j))
    BY DEF IsParked, IsLive, Terminal
  <1>2. QED
    BY <1>1 DEF RowStep, Stays, Enters, Ticks, IsAssigned, IsRetried, IsExhausted,
         IsResumed, IsFinished, Absent, Open, Terminal

----------------------------------------------------------------------------
(* The conjuncts of IInv, one by one *)

LEMMA SubmittedKept ==
  ASSUME IInv, TypeOK', Stepped, EveryHandler, SendStep
  PROVE  Submitted'
  <1>1. ASSUME NEW p \in Proc, NEW j \in h'[p].todo
        PROVE  row'[j].status # Absent
    <2>1. j \in Job
      BY HandlerFields DEF TypeOK
    <2>2. row[j].status # Absent
      BY DEF EveryHandler, HandlerStep, HandlerReads, HandlerRenews,
             HandlerGoesOn, IInv, Submitted
    <2>3. QED
      BY <2>1, <2>2, StaysSubmitted DEF Stepped
  <1>2. ASSUME NEW m \in sent'
        PROVE  row'[m.job].status # Absent
    <2>1. m.job \in Job
      BY DEF TypeOK, JobMsg
    <2>2. row[m.job].status # Absent
      BY DEF SendStep, IInv, Submitted
    <2>3. QED
      BY <2>1, <2>2, StaysSubmitted DEF Stepped
  <1>3. QED
    BY <1>1, <1>2 DEF Submitted

LEMMA LeasesKept ==
  ASSUME IInv, TypeOK', OneRowStep, Stepped, EveryHandler, SendStep
  PROVE  LeasesKnown'
  <1>1. Known \subseteq Known'
    BY DEF Known, OneRowStep
  <1>2. ASSUME NEW j \in Job
        PROVE  row'[j].lease \in Known'
    <2>1. row[j].lease \in Known
      BY DEF IInv, LeasesKnown
    <2>2. \/ row'[j].lease \in {NoLease, row[j].lease}
          \/ row'[j].lease \in issued'
      BY DEF Stepped, RowStep, Stays, Enters, Ticks, IsAssigned, IsRetried,
             IsExhausted, IsParked, IsResumed, IsFinished, LeaseKept, Released
    <2>3. QED
      BY <1>1, <2>1, <2>2 DEF Known
  <1>3. ASSUME NEW p \in Proc
        PROVE  /\ h'[p].lease \in Known'
               /\ \A j \in Job : h'[p].snap[j].lease \in Known'
    <2>1. CASE h'[p] = h[p]
      BY <1>1, <2>1 DEF IInv, LeasesKnown
    <2>2. CASE HandlerReads(p)
      <3>1. ASSUME NEW j \in Job
            PROVE  h'[p].snap[j].lease \in Known'
        <4>1. h'[p].snap[j] = SnapOf(IF j \in h'[p].todo THEN row[j] ELSE NoRow)
          BY <2>2 DEF HandlerReads, Select
        <4>2. h'[p].snap[j].lease \in {row[j].lease, NoLease}
          BY <4>1 DEF SnapOf, NoRow
        <4>3. QED
          BY <1>1, <4>2 DEF IInv, LeasesKnown, Known
      <3>2. h'[p].lease \in Known'
        BY <1>1, <2>2 DEF HandlerReads, IInv, LeasesKnown, Known
      <3>3. QED
        BY <3>1, <3>2
    <2>3. CASE HandlerRenews(p)
      BY <2>3 DEF HandlerRenews, NoSnap, SnapOf, NoRow, Known
    <2>4. CASE HandlerGoesOn(p)
      BY <1>1, <2>4 DEF HandlerGoesOn, IInv, LeasesKnown
    <2>5. QED
      BY <2>1, <2>2, <2>3, <2>4 DEF EveryHandler, HandlerStep
  <1>4. ASSUME NEW m \in sent'
        PROVE  m.lease \in Known'
    <2>1. m \in sent \/ \E j \in Job : m.lease = row[j].lease
      <3>1. CASE sent' = sent
        BY <3>1
      <3>2. CASE sent' # sent
        <4>1. PICK p \in Proc : \E j \in h[p].todo, w \in Worker :
                sent' = sent \cup {[to |-> w, job |-> j, lease |-> row[j].lease]}
          BY <3>2 DEF SendStep
        <4>2. h[p].todo \subseteq Job
          BY HandlerTypes DEF IInv
        <4>3. PICK j \in Job, w \in Worker :
                sent' = sent \cup {[to |-> w, job |-> j, lease |-> row[j].lease]}
          BY <4>1, <4>2
        <4>4. QED
          BY <4>3
      <3>3. QED
        BY <3>1, <3>2
    <2>2. QED
      BY <1>1, <2>1 DEF IInv, LeasesKnown
  <1>5. QED
    BY <1>2, <1>3, <1>4 DEF LeasesKnown

LEMMA ColumnsKept ==
  ASSUME IInv, TypeOK', Stepped
  PROVE  LeaseColumns' /\ LeaseWithinDeadline' /\ ColumnsPaired'
  <1> SUFFICES ASSUME NEW j \in Job
      PROVE  /\ row'[j].status = "leased" <=>
                  row'[j].lease # NoLease /\ row'[j].status \notin Terminal
             /\ row'[j].lease # NoLease => row'[j].worker # NoWorker
             /\ row'[j].status = "leased" /\ row'[j].overdue => row'[j].due
             /\ row'[j].status \in {"pending", "leased"} =>
                  state'[j] \in WorkingStates
             /\ row'[j].status = "awaiting_input" => state'[j] = "input_required"
             /\ row'[j].status \in Terminal => state'[j] \in OverStates
    BY DEF LeaseColumns, LeaseWithinDeadline, ColumnsPaired
  <1>1. /\ row[j].status = "leased" <=>
             row[j].lease # NoLease /\ row[j].status \notin Terminal
        /\ row[j].lease # NoLease => row[j].worker # NoWorker
        /\ row[j].status = "leased" /\ row[j].overdue => row[j].due
        /\ row[j].status \in {"pending", "leased"} => state[j] \in WorkingStates
        /\ row[j].status = "awaiting_input" => state[j] = "input_required"
        /\ row[j].status \in Terminal => state[j] \in OverStates
    BY DEF IInv, LeaseColumns, LeaseWithinDeadline, ColumnsPaired
  <1>2. CASE Stays(j)
    BY <1>1, <1>2 DEF Stays, Terminal
  <1>3. CASE Enters(j)
    BY <1>3 DEF Enters, Released, Terminal
  <1>4. CASE Ticks(j)
    BY <1>1, <1>4 DEF Ticks, LeaseKept
  <1>5. CASE IsAssigned(j)
    BY <1>5, JobsAssumption DEF IsAssigned, Terminal
  <1>6. CASE IsRetried(j)
    BY <1>1, <1>6 DEF IsRetried, Released, Terminal
  <1>7. CASE IsExhausted(j)
    BY <1>7 DEF IsExhausted, Released, Terminal
  <1>8. CASE IsParked(j)
    BY <1>8 DEF IsParked, Released, Terminal
  <1>9. CASE IsResumed(j)
    BY <1>1, <1>9 DEF IsResumed, LeaseKept, Terminal
  <1>10. CASE IsFinished(j)
    BY <1>1, <1>10 DEF IsFinished, LeaseKept, Terminal
  <1>11. QED
    BY <1>2, <1>3, <1>4, <1>5, <1>6, <1>7, <1>8, <1>9, <1>10
    DEF Stepped, RowStep

LEMMA DecisionsKept ==
  ASSUME IInv, TypeOK', Stepped, EveryHandler
  PROVE  DecisionsHold'
  <1> SUFFICES ASSUME NEW p \in Proc, NEW j \in h'[p].todo
      PROVE  /\ /\ h'[p].op \in {"reclaim", "tell"}
                /\ IsLive(row'[j], h'[p].snap[j].lease)
                => h'[p].snap[j].attempts = row'[j].attempts
             /\ h'[p].op = "park" /\ IsLive(row'[j], h'[p].lease) =>
                  /\ h'[p].snap[j].rounds = row'[j].rounds
                  /\ h'[p].snap[j].rounds < MaxRounds
    BY DEF DecisionsHold
  <1>1. j \in Job /\ RowStep(j) /\ LeasesKnown
    BY HandlerFields DEF TypeOK, Stepped, IInv
  <1>2. CASE HandlerReads(p)
    <2>1. h'[p].snap[j] = SnapOf(row[j])
      BY <1>1, <1>2 DEF HandlerReads, Select
    <2>2. QED
      BY <1>2, <2>1 DEF HandlerReads, SnapOf
  <1>3. CASE HandlerRenews(p)
    <2>1. h'[p].snap[j].lease = NoLease /\ h'[p].lease = NoLease
      BY <1>1, <1>3 DEF HandlerRenews, NoSnap, SnapOf, NoRow
    <2>2. QED
      BY <2>1 DEF IsLive
  <1>4. CASE HandlerGoesOn(p) \/ h'[p] = h[p]
    <2>1. /\ j \in h[p].todo
          /\ h'[p].snap = h[p].snap /\ h'[p].lease = h[p].lease
          /\ h'[p].op \in {"reclaim", "tell"} => h[p].op \in {"reclaim", "tell"}
          /\ h'[p].op = "park" => h[p].op = "park"
      BY <1>4 DEF HandlerGoesOn
    <2>2. h[p].snap[j].lease \in Known /\ h[p].lease \in Known
      BY <1>1 DEF LeasesKnown
    <2>3. /\ /\ h[p].op \in {"reclaim", "tell"}
             /\ IsLive(row[j], h[p].snap[j].lease)
             => h[p].snap[j].attempts = row[j].attempts
          /\ h[p].op = "park" /\ IsLive(row[j], h[p].lease) =>
               /\ h[p].snap[j].rounds = row[j].rounds
               /\ h[p].snap[j].rounds < MaxRounds
      BY <2>1 DEF IInv, DecisionsHold
    <2>4. IsLive(row'[j], h[p].snap[j].lease) =>
            IsLive(row[j], h[p].snap[j].lease) /\ CountersKept(j)
      BY <1>1, <2>2, LiveKept
    <2>5. IsLive(row'[j], h[p].lease) =>
            IsLive(row[j], h[p].lease) /\ CountersKept(j)
      BY <1>1, <2>2, LiveKept
    <2>6. QED
      BY <2>1, <2>3, <2>4, <2>5 DEF CountersKept
  <1>5. QED
    BY <1>2, <1>3, <1>4 DEF EveryHandler, HandlerStep

LEMMA RoundsKept ==
  ASSUME IInv, Stepped
  PROVE  RoundsBounded'
  <1> SUFFICES ASSUME NEW j \in Job
               PROVE  row'[j].rounds <= MaxRounds
    BY DEF RoundsBounded
  <1>1. row[j].rounds \in Nat /\ row[j].rounds <= MaxRounds
    BY Decided DEF IInv, RoundsBounded
  <1>2. CASE IsParked(j)
    <2>1. row[j].rounds < MaxRounds
      BY <1>2 DEF IsParked, Working, IInv, DecisionsHold
    <2>2. QED
      BY <1>1, <1>2, <2>1, JobsAssumption DEF IsParked
  <1>3. CASE ~IsParked(j)
    <2>1. row'[j].rounds \in {0, row[j].rounds}
      BY <1>3 DEF Stepped, RowStep, Stays, Enters, Ticks, IsAssigned,
         IsRetried, IsExhausted, IsResumed, IsFinished, CountersKept
    <2>2. QED
      BY <1>1, <2>1, JobsAssumption
  <1>4. QED
    BY <1>2, <1>3

LEMMA UnsubmittedKept ==
  ASSUME IInv, Stepped
  PROVE  Unsubmitted'
  <1> SUFFICES ASSUME NEW j \in Job, row'[j].status = Absent
               PROVE  row'[j].attempts = 0 /\ row'[j].rounds = 0
    BY DEF Unsubmitted
  <1>1. row[j].status = Absent
    BY StaysSubmitted DEF Stepped
  <1>2. row'[j] = row[j]
    BY <1>1 DEF Stepped, RowStep, Stays, Enters, Ticks, IsAssigned, IsRetried,
                IsExhausted, IsParked, IsResumed, IsFinished, Absent, Open,
                Terminal
  <1>3. QED
    BY <1>1, <1>2 DEF IInv, Unsubmitted

LEMMA OkKept ==
  ASSUME IInv, Stepped, \A j \in Job : OkHasEnded(j)
  PROVE  ChannelsStore => OkIsTheEnd'
  <1> SUFFICES ASSUME ChannelsStore, NEW j \in Job, "ok" \in told'[j]
               PROVE  row'[j].status \in Terminal
    BY DEF OkIsTheEnd
  <1>1. CASE "ok" \in told[j]
    BY <1>1, StaysOver DEF IInv, OkIsTheEnd, Stepped
  <1>2. QED
    BY <1>1 DEF OkHasEnded

LEMMA InvInit == Init => IInv
  <1> SUFFICES ASSUME Init PROVE IInv
    OBVIOUS
  <1>1. TypeOK
    BY TypeInit
  <1>2. \A j \in Job : /\ row[j].status = Absent /\ row[j].lease = NoLease
                       /\ row[j].attempts = 0 /\ row[j].rounds = 0
                       /\ told[j] = {}
    BY DEF Init, NoRow
  <1>3. \A p \in Proc : /\ h[p].todo = {} /\ h[p].lease = NoLease
                        /\ \A j \in Job : h[p].snap[j].lease = NoLease
    BY DEF Init, Idle, NoSnap, SnapOf, NoRow
  <1>4. sent = {}
    BY DEF Init
  <1>5. LeasesKnown
    BY <1>2, <1>3, <1>4 DEF LeasesKnown, Known
  <1>6. LeaseColumns /\ LeaseWithinDeadline /\ ColumnsPaired
    BY <1>2 DEF LeaseColumns, LeaseWithinDeadline, ColumnsPaired, Absent,
                Terminal
  <1>7. RoundsBounded
    BY <1>2, JobsAssumption DEF RoundsBounded
  <1>8. QED
    BY <1>1, <1>2, <1>3, <1>4, <1>5, <1>6, <1>7
    DEF IInv, Submitted, Unsubmitted, DecisionsHold, OkIsTheEnd

LEMMA InvStep == IInv /\ [Next]_vars => IInv'
  <1> SUFFICES ASSUME IInv, [Next]_vars PROVE IInv'
    OBVIOUS
  <1>1. TypeOK /\ Submitted
    BY DEF IInv
  <1>2. TypeOK'
    BY <1>1, TypeStep
  <1>3. OneRowStep /\ Stepped
    BY <1>1, RowSteps, EveryRowSteps
  <1>4. EveryHandler
    BY <1>1, HandlerSteps
  <1>5. SendStep /\ \A j \in Job : OkHasEnded(j)
    BY <1>1, TellSteps DEF SendOrTell
  <1>6. QED
    BY <1>2, <1>3, <1>4, <1>5, SubmittedKept, LeasesKept, ColumnsKept,
       DecisionsKept, RoundsKept, UnsubmittedKept, OkKept
    DEF IInv

LEMMA Invariance == Spec => []IInv
  BY InvInit, InvStep, PTL DEF Spec

----------------------------------------------------------------------------
(* The theorems *)

\* What a handler read of the generation it writes to is still true of the
\* row: reclaim_lease/1 and park_for_input/2 may trust a snapshot because a
\* lease id is live at most once.
THEOREM SnapshotsHold == Spec => []SnapshotCurrent
  <1>1. IInv => SnapshotCurrent
    BY DEF IInv, DecisionsHold, SnapshotCurrent
  <1>2. QED
    BY <1>1, Invariance, PTL

\* However often a question is repeated, do_park/3 never takes a job past
\* max_input_rounds.
THEOREM RoundsStayBounded == Spec => []RoundsBounded
  <1>1. IInv => RoundsBounded
    BY DEF IInv
  <1>2. QED
    BY <1>1, Invariance, PTL

\* The lease columns of the row say whether a worker holds the job.
THEOREM LeaseColumnsAgree == Spec => []LeaseColumns
  <1>1. IInv => LeaseColumns
    BY DEF IInv
  <1>2. QED
    BY <1>1, Invariance, PTL

\* No sequence of renewals and assignments carries a lease past expires_at.
THEOREM LeasesWithinDeadline == Spec => []LeaseWithinDeadline
  <1>1. IInv => LeaseWithinDeadline
    BY DEF IInv
  <1>2. QED
    BY <1>1, Invariance, PTL

\* Where no database call of a channel fails, the job of a caller that was
\* given an answer never runs again, whatever else crashes or races it.
THEOREM OkEndsTheJob ==
  ASSUME Fallible \cap Channel = {}
  PROVE  Spec => []OkIsTheEnd
  <1>1. IInv => OkIsTheEnd
    BY DEF IInv, ChannelsStore
  <1>2. QED
    BY <1>1, Invariance, PTL

\* mcp_status/1 on each of the states.
LEMMA McpStatuses ==
  ASSUME NEW st \in States
  PROVE  /\ st \in WorkingStates => McpStatus(st) = "working"
         /\ st = "input_required" => McpStatus(st) = "input_required"
         /\ st \in OverStates => McpStatus(st) \in {"completed", "cancelled"}
  <1>1. ASSUME NEW s \in Statuses, st \in StatesFor[s]
        PROVE  StatusOf(st) = s
    <2>1. \A t \in Statuses : st \in StatesFor[t] => t = s
      BY <1>1, StatusSets DEF StatesFor
    <2>2. QED
      BY <1>1, <2>1 DEF StatusOf
  <1>2. PICK s \in Statuses : st \in StatesFor[s]
    BY DEF States
  <1>3. StatusOf(st) = s
    BY <1>1, <1>2
  <1>4. QED
    BY <1>2, <1>3, StatusSets
    DEF McpStatus, StatesFor, WorkingStates, OverStates

\* Polling through `state` and deciding through `status` agree, although most
\* statements write only one of the two columns.
THEOREM PollersNotMisled == Spec => []PollerNotMisled
  <1>1. ASSUME IInv, NEW j \in Job, row[j].status # Absent
        PROVE  /\ McpStatus(state[j]) \in {"completed", "cancelled"} <=>
                    row[j].status \in Terminal
               /\ McpStatus(state[j]) = "input_required" <=>
                    row[j].status = "awaiting_input"
    <2>1. state[j] \in States /\ row[j].status \in Open \cup Terminal
      BY <1>1, Decided DEF IInv, TypeOK
    <2>2. CASE row[j].status \in {"pending", "leased"}
      BY <1>1, <2>1, <2>2, McpStatuses DEF IInv, ColumnsPaired, Terminal
    <2>3. CASE row[j].status = "awaiting_input"
      BY <1>1, <2>1, <2>3, McpStatuses DEF IInv, ColumnsPaired, Terminal
    <2>4. CASE row[j].status \in Terminal
      BY <1>1, <2>1, <2>4, McpStatuses DEF IInv, ColumnsPaired, Terminal
    <2>5. QED
      BY <2>1, <2>2, <2>3, <2>4 DEF Open
  <1>2. IInv => PollerNotMisled
    BY <1>1 DEF PollerNotMisled
  <1>3. QED
    BY <1>2, Invariance, PTL

\* No write path of jobs.ex touches a finished job.
THEOREM FinishedStays == Spec => TerminalIsFinal
  <1>1. ASSUME IInv, [Next]_vars, NEW j \in Job, row[j].status \in Terminal
        PROVE  row'[j] = row[j] /\ state'[j] = state[j]
    BY <1>1, RowSteps, EveryRowSteps, StaysOver DEF IInv, Stepped
  <1>2. IInv /\ [Next]_vars =>
          [\A j \in Job : row[j].status \in Terminal =>
             row'[j] = row[j] /\ state'[j] = state[j]]_<<row, state>>
    BY <1>1
  <1>3. QED
    BY <1>2, Invariance, PTL DEF Spec, TerminalIsFinal

----------------------------------------------------------------------------
(* Jobs implements JobLifecycle *)

LEMMA LifecycleInit == Init => Lifecycle!Init
  <1> SUFFICES ASSUME Init PROVE Lifecycle!Init
    OBVIOUS
  <1>1. \A j \in Job : /\ row[j].status = Absent /\ row[j].attempts = 0
                       /\ row[j].rounds = 0
    BY DEF Init, NoRow
  <1>2. QED
    BY <1>1 DEF Lifecycle!Init, Lifecycle!Absent, Absent

LEMMA LifecycleStep ==
  ASSUME IInv, [Next]_vars
  PROVE  [Lifecycle!Next]_(Lifecycle!vars)
  <1> DEFINE status   == [j \in Job |-> row[j].status]
             attempts == [j \in Job |-> row[j].attempts]
             rounds   == [j \in Job |-> row[j].rounds]
  <1>1. CASE row' = row
    BY <1>1 DEF Lifecycle!vars
  <1>2. CASE row' # row
    <2>1. PICK j \in Job : /\ RowStep(j)
                           /\ \A k \in Job \ {j} : row'[k] = row[k]
      BY <1>2, RowSteps DEF IInv, OneRowStep
    <2>2. status' = [status EXCEPT ![j] = row'[j].status]
      BY <2>1
    <2>3. attempts' = [attempts EXCEPT ![j] = row'[j].attempts]
      BY <2>1
    <2>4. rounds' = [rounds EXCEPT ![j] = row'[j].rounds]
      BY <2>1
    <2>5. /\ row'[j].attempts = row[j].attempts => attempts' = attempts
          /\ row'[j].rounds = row[j].rounds => rounds' = rounds
          /\ row'[j].status = row[j].status => status' = status
      BY <2>2, <2>3, <2>4
    <2>6. status[j] = row[j].status /\ attempts[j] = row[j].attempts
          /\ rounds[j] = row[j].rounds
      OBVIOUS
    <2>7. CASE Stays(j) \/ Ticks(j)
      BY <2>5, <2>7 DEF Stays, Ticks, CountersKept, Lifecycle!vars
    <2>8. CASE Enters(j)
      <3>1. row[j].attempts = 0 /\ row[j].rounds = 0
        BY <2>8 DEF Enters, IInv, Unsubmitted
      <3>2. Lifecycle!Submit(j)
        BY <2>2, <2>5, <2>6, <2>8, <3>1
        DEF Enters, Absent, Lifecycle!Absent, Lifecycle!Submit, Lifecycle!Become
      <3>3. QED
        BY <3>2 DEF Lifecycle!Next
    <2>9. CASE IsAssigned(j)
      <3>1. Lifecycle!Assign(j)
        BY <2>2, <2>3, <2>4, <2>5, <2>6, <2>9
        DEF IsAssigned, CountersKept, Lifecycle!Assign, Lifecycle!Become
      <3>2. QED
        BY <3>1 DEF Lifecycle!Next
    <2>10. CASE IsRetried(j)
      <3>1. Lifecycle!Retry(j)
        BY <2>2, <2>3, <2>4, <2>5, <2>6, <2>10
        DEF IsRetried, Lifecycle!Retry, Lifecycle!Become
      <3>2. QED
        BY <3>1 DEF Lifecycle!Next
    <2>11. CASE IsExhausted(j)
      <3>1. Lifecycle!Finish(j, row'[j].status)
        BY <2>2, <2>5, <2>6, <2>11
        DEF IsExhausted, CountersKept, Lifecycle!Finish, Lifecycle!Open,
            Lifecycle!Terminal, Lifecycle!Become
      <3>2. row'[j].status \in Lifecycle!Terminal
        BY <2>11 DEF IsExhausted, Lifecycle!Terminal
      <3>3. QED
        BY <3>1, <3>2 DEF Lifecycle!Next
    <2>12. CASE IsParked(j)
      <3>1. row[j].status = "leased" /\ row[j].rounds < MaxRounds
        BY <2>12 DEF IsParked, Working, IsLive, IInv, DecisionsHold
      <3>2. Lifecycle!Ask(j)
        BY <2>2, <2>3, <2>4, <2>5, <2>6, <2>12, <3>1
        DEF IsParked, Lifecycle!Ask, Lifecycle!Become
      <3>3. QED
        BY <3>2 DEF Lifecycle!Next
    <2>13. CASE IsResumed(j)
      <3>1. Lifecycle!Answer(j)
        BY <2>2, <2>3, <2>4, <2>5, <2>6, <2>13
        DEF IsResumed, CountersKept, Lifecycle!Answer, Lifecycle!Become
      <3>2. QED
        BY <3>1 DEF Lifecycle!Next
    <2>14. CASE IsFinished(j)
      <3>1. Lifecycle!Finish(j, row'[j].status)
        BY <2>2, <2>5, <2>6, <2>14
        DEF IsFinished, CountersKept, Open, Terminal, Lifecycle!Finish,
            Lifecycle!Open, Lifecycle!Terminal, Lifecycle!Become
      <3>2. row'[j].status \in Lifecycle!Terminal
        BY <2>14 DEF IsFinished, Terminal, Lifecycle!Terminal
      <3>3. QED
        BY <3>1, <3>2 DEF Lifecycle!Next
    <2>15. QED
      BY <2>1, <2>7, <2>8, <2>9, <2>10, <2>11, <2>12, <2>13, <2>14
      DEF RowStep
  <1>3. QED
    BY <1>1, <1>2

\* Every behaviour of the coordinator, races and crashes included, is one of
\* the lifecycle a caller is promised.
THEOREM JobsImplementLifecycle == Spec => ImplementsLifecycle
  <1>1. IInv /\ [Next]_vars => [Lifecycle!Next]_(Lifecycle!vars)
    BY LifecycleStep
  <1>2. QED
    BY <1>1, LifecycleInit, Invariance, PTL
    DEF Spec, ImplementsLifecycle, Lifecycle!Spec

----------------------------------------------------------------------------
(***************************************************************************)
(* No pending job is forgotten, provided only executors of the Oban queue  *)
(* crash: a channel or a request that dies between its UPDATE and the      *)
(* insert of the Oban job does lose one (run claim_survives_restart).      *)
(***************************************************************************)

\* The operations that answer for a pending job.
CareOps   == {"route", "assign", "expire", "enqueue"}
SingleOps == CareOps \cup {"apply", "giveup", "resume"}
SlotOps   == LeaseOps \cup {"idle", "reclaim", "tell", "unanswered"}

Holds(p, j) == h[p].op \in CareOps /\ j \in h[p].todo

\* An operation on one job has one job in hand, and an executor of the queue
\* runs only LeaseWorker and the sweep.
Placed(p, k) ==
  /\ k.op \in SingleOps => \A i, j \in k.todo : i = j
  /\ p \in Slot => k.op \in SlotOps

QInv ==
  /\ TypeOK
  /\ \A p \in Proc : Placed(p, h[p])
  /\ \A j \in Job : row[j].status = "pending" =>
       oban[j] > 0 \/ \E p \in Proc : Holds(p, j)

----------------------------------------------------------------------------
(* Three ways for a step to preserve QInv *)

\* Nothing that matters changes.
LEMMA Still ==
  ASSUME QInv, TypeOK', h' = h, oban' = oban,
         \A i \in Job : row'[i].status = row[i].status
  PROVE  QInv'
  BY DEF QInv, Holds

\* Process p, answering for nothing, goes on without touching a row.
LEMMA MovesOn ==
  ASSUME QInv, TypeOK', NEW p \in Proc, NEW k, Goto(p, k), Placed(p, k),
         h[p].op \notin CareOps, row' = row, oban' = oban
  PROVE  QInv'
  <1>1. \A q \in Proc : h'[q] = IF q = p THEN k ELSE h[q]
    BY DEF QInv, TypeOK, Goto
  <1>2. \A q \in Proc : Placed(q, h'[q])
    BY <1>1 DEF QInv
  <1>3. \A q \in Proc, j \in Job : Holds(q, j) => Holds(q, j)'
    BY <1>1 DEF Holds
  <1>4. QED
    BY <1>2, <1>3 DEF QInv, Placed

\* Process p works on job j alone, and afterwards j is not pending, or is
\* queued, or is still in p's hands, or p never answered for it.
LEMMA WorksOn ==
  ASSUME QInv, TypeOK', NEW p \in Proc, NEW k, NEW j \in Job,
         Goto(p, k), Placed(p, k),
         \A i \in Job \ {j} :
           /\ row'[i] = row[i] /\ oban'[i] = oban[i] /\ ~Holds(p, i),
         \/ row'[j].status # "pending"
         \/ oban'[j] > 0
         \/ k.op \in CareOps /\ j \in k.todo
         \/ row'[j] = row[j] /\ oban'[j] = oban[j] /\ ~Holds(p, j)
  PROVE  QInv'
  <1>1. \A q \in Proc : h'[q] = IF q = p THEN k ELSE h[q]
    BY DEF QInv, TypeOK, Goto
  <1>2. \A q \in Proc : Placed(q, h'[q])
    BY <1>1 DEF QInv
  <1>3. \A q \in Proc, i \in Job : Holds(q, i) /\ q # p => Holds(q, i)'
    BY <1>1 DEF Holds
  <1>4. k.op \in CareOps /\ j \in k.todo => Holds(p, j)'
    BY <1>1 DEF Holds
  <1>5. ASSUME NEW i \in Job, row'[i].status = "pending"
        PROVE  oban'[i] > 0 \/ \E q \in Proc : Holds(q, i)'
    <2>1. CASE row'[i] = row[i] /\ oban'[i] = oban[i] /\ ~Holds(p, i)
      BY <1>3, <1>5, <2>1 DEF QInv
    <2>2. CASE ~(row'[i] = row[i] /\ oban'[i] = oban[i] /\ ~Holds(p, i))
      BY <1>4, <1>5, <2>2
    <2>3. QED
      BY <2>1, <2>2
  <1>6. QED
    BY <1>2, <1>5 DEF QInv, Placed

\* What a process may turn into.
LEMMA PlacedIdle ==
  ASSUME NEW p \in Proc
  PROVE  Placed(p, Idle)
  BY DEF Placed, Idle, SingleOps, CareOps, SlotOps

LEMMA PlacedOn ==
  ASSUME NEW p, NEW j, NEW k, k.todo = {j}, p \in Slot => k.op \in SlotOps
  PROVE  Placed(p, k)
  BY DEF Placed

LEMMA PlacedMany ==
  ASSUME NEW p, NEW k,
         k.op \in {"reclaim", "tell", "unanswered", "park", "cancel"},
         p \in Slot => k.op \in SlotOps
  PROVE  Placed(p, k)
  BY DEF Placed, SingleOps, CareOps

\* What a process that works on j answers for.
LEMMA OnlyOne ==
  ASSUME QInv, NEW p \in Proc, NEW j \in Job, NEW op, Working(p, op, j)
  PROVE  /\ \A i \in Job \ {j} : ~Holds(p, i)
         /\ op \notin CareOps => \A i \in Job : ~Holds(p, i)
         /\ op \notin SlotOps => p \notin Slot
         /\ op \in SingleOps => h[p].todo = {j}
  <1>1. h[p].todo \subseteq Job /\ Placed(p, h[p])
    BY HandlerTypes DEF QInv
  <1>2. QED
    BY <1>1 DEF Working, Placed, Holds, SingleOps

----------------------------------------------------------------------------
(* The actions *)

\* The other jobs' Oban entries.
LEMMA Queued ==
  ASSUME TypeOK, NEW j \in Job
  PROVE  /\ InsertLeaseJob(j) => /\ oban'[j] > 0
                                 /\ \A i \in Job \ {j} : oban'[i] = oban[i]
         /\ oban' = [oban EXCEPT ![j] = @ - 1] =>
              \A i \in Job \ {j} : oban'[i] = oban[i]
  BY DEF TypeOK, InsertLeaseJob

\* A handler that works on j ends, and j is not forgotten.
LEMMA EndsOn ==
  ASSUME QInv, TypeOK', NEW p \in Proc, NEW j \in Job, NEW op,
         Working(p, op, j), End(p),
         \A i \in Job \ {j} : row'[i] = row[i] /\ oban'[i] = oban[i],
         \/ row'[j].status # "pending"
         \/ oban'[j] > 0
         \/ op \notin CareOps /\ row'[j] = row[j] /\ oban'[j] = oban[j]
  PROVE  QInv'
  BY OnlyOne, PlacedIdle, WorksOn DEF End

LEMMA EnvironmentQueue ==
  ASSUME QInv, TypeOK', NEW j \in Job,
         Submit(j) \/ DeadlinePasses(j) \/ JobOverdue(j)
  PROVE  QInv'
  <1>1. CASE Submit(j)
    <2>1. h' = h /\ oban'[j] > 0
          /\ \A i \in Job \ {j} : row'[i] = row[i] /\ oban'[i] = oban[i]
      BY <1>1, Queued, Written DEF Submit, QInv
    <2>2. QED
      BY <2>1 DEF QInv, Holds
  <1>2. CASE DeadlinePasses(j) \/ JobOverdue(j)
    <2>1. row'[j].status = row[j].status
      <3>1. CASE DeadlinePasses(j)
        <4>1. row'[j] = [row[j] EXCEPT !.due = TRUE]
          BY <3>1, Written DEF DeadlinePasses, QInv
        <4>2. QED
          BY <4>1, RowTypes DEF Row, QInv
      <3>2. CASE JobOverdue(j)
        <4> DEFINE d == row[j].due \/ row[j].status = "leased"
        <4>1. row'[j] = [row[j] EXCEPT !.overdue = TRUE, !.due = d]
          BY <3>2, Written DEF JobOverdue, QInv
        <4> HIDE DEF d
        <4>2. QED
          BY <4>1, RowTypes DEF Row, QInv
      <3>3. QED
        BY <1>2, <3>1, <3>2
    <2>2. \A i \in Job \ {j} : row'[i] = row[i]
      BY <1>2, Written DEF DeadlinePasses, JobOverdue, QInv
    <2>3. QED
      BY <1>2, <2>1, <2>2, Still DEF DeadlinePasses, JobOverdue
  <1>3. QED
    BY <1>1, <1>2

LEMMA LeaseWorkerQueue ==
  ASSUME QInv, TypeOK', NEW p \in Proc, NEW j \in Job,
         \/ LeaseRead(p, j) \/ Expire(p, j) \/ MarkRouting(p, j)
         \/ MarkLeased(p, j) \/ LeaseLost(p, j) \/ Snooze(p, j)
         \/ PushLease(p, j)
  PROVE  QInv'
  <1>0. TypeOK
    BY DEF QInv
  <1>1. CASE LeaseRead(p, j)
    <2>1. \A i \in Job : ~Holds(p, i)
      BY <1>1 DEF LeaseRead, IsIdle, Holds, CareOps
    <2>2. row' = row /\ \A i \in Job \ {j} : oban'[i] = oban[i]
      BY <1>0, <1>1, Queued DEF LeaseRead
    <2>3. CASE row[j].status = "pending"
      <3>1. PICK op \in {"expire", "route"} :
              Goto(p, [Idle EXCEPT !.todo = {j}, !.op = op])
        BY <1>1, <2>3 DEF LeaseRead
      <3> DEFINE k == [Idle EXCEPT !.todo = {j}, !.op = op]
      <3>2. k.op = op /\ k.todo = {j}
        BY DEF Idle
      <3>3. Goto(p, k)
        BY <3>1
      <3> HIDE DEF k
      <3>4. Placed(p, k) /\ k.op \in CareOps
        BY <3>2, PlacedOn DEF SlotOps, LeaseOps, CareOps
      <3>5. QED
        BY <2>1, <2>2, <3>2, <3>3, <3>4, WorksOn
    <2>4. CASE row[j].status # "pending"
      <3>1. h' = h
        BY <1>1, <2>4 DEF LeaseRead
      <3>2. QED
        BY <2>2, <2>4, <3>1 DEF QInv, Holds
    <2>5. QED
      BY <2>3, <2>4
  <1>2. CASE Expire(p, j)
    <2>1. row'[j].status # "pending"
          /\ \A i \in Job \ {j} : row'[i] = row[i]
      BY <1>0, <1>2, RowTypes, Written, FinishedFields DEF Expire
    <2>2. QED
      BY <1>2, <2>1, EndsOn DEF Expire
  <1>3. CASE MarkRouting(p, j)
    <2> DEFINE k == [h[p] EXCEPT !.op = "assign"]
    <2>1. Goto(p, k) /\ Working(p, "route", j)
      BY <1>3 DEF MarkRouting
    <2>2. k.op = "assign" /\ k.todo = h[p].todo
      BY <1>0, HandlerTypes DEF Handler
    <2> HIDE DEF k
    <2>3. h[p].todo = {j} /\ \A i \in Job \ {j} : ~Holds(p, i)
      BY <2>1, OnlyOne DEF SingleOps, CareOps
    <2>4. Placed(p, k)
      BY <2>2, <2>3, PlacedOn DEF SlotOps, LeaseOps
    <2>5. QED
      BY <1>3, <2>1, <2>2, <2>3, <2>4, WorksOn DEF MarkRouting, CareOps
  <1>4. CASE MarkLeased(p, j)
    <2>1. PICK w \in Worker, l \in Lease :
            /\ Update(j, Leased(row[j], w, l))
            /\ Goto(p, [Idle EXCEPT !.op = "push", !.todo = {j}, !.worker = w])
      BY <1>4 DEF MarkLeased
    <2> DEFINE k == [Idle EXCEPT !.op = "push", !.todo = {j}, !.worker = w]
    <2>2. k.op = "push" /\ k.todo = {j}
      BY DEF Idle
    <2>3. Goto(p, k)
      BY <2>1
    <2> HIDE DEF k
    <2>4. Placed(p, k)
      BY <2>2, PlacedOn DEF SlotOps, LeaseOps
    <2>5. row'[j].status # "pending"
          /\ \A i \in Job \ {j} : row'[i] = row[i]
      BY <1>0, <2>1, RowTypes, Written, LeasedFields
    <2>6. \A i \in Job \ {j} : ~Holds(p, i)
      BY <1>4, OnlyOne DEF MarkLeased
    <2>7. QED
      BY <1>4, <2>3, <2>4, <2>5, <2>6, WorksOn DEF MarkLeased
  <1>5. CASE LeaseLost(p, j)
    BY <1>5, EndsOn DEF LeaseLost
  <1>6. CASE Snooze(p, j)
    BY <1>0, <1>6, Queued, EndsOn DEF Snooze
  <1>7. CASE PushLease(p, j)
    BY <1>7, EndsOn DEF PushLease, CareOps
  <1>8. QED
    BY <1>1, <1>2, <1>3, <1>4, <1>5, <1>6, <1>7

LEMMA SweepQueue ==
  ASSUME QInv, TypeOK', Fallible \subseteq Slot, NEW p \in Proc,
         \/ SweepLeases(p) \/ Tell(p) \/ ReclaimEnds(p) \/ SweepEnds(p)
         \/ Crash(p) \/ \E w \in Worker : ChannelDown(p, w)
  PROVE  QInv'
  <1>0. TypeOK /\ Placed(p, h[p])
    BY DEF QInv
  <1>1. ASSUME row' = row, oban' = oban, IsIdle(p), NEW S, NEW why,
               Goto(p, [Begin("reclaim", S) EXCEPT !.out = why])
        PROVE  QInv'
    <2> DEFINE k == [Begin("reclaim", S) EXCEPT !.out = why]
    <2>1. k.op = "reclaim"
      BY DEF Begin, Idle
    <2>2. Goto(p, k)
      BY <1>1
    <2> HIDE DEF k
    <2>3. Placed(p, k)
      BY <2>1, PlacedMany DEF SlotOps
    <2>4. QED
      BY <1>1, <2>2, <2>3, MovesOn DEF IsIdle, CareOps
  <1>2. CASE SweepLeases(p)
    BY <1>1, <1>2 DEF SweepLeases
  <1>3. CASE \E w \in Worker : ChannelDown(p, w)
    BY <1>1, <1>3 DEF ChannelDown
  <1>4. CASE Tell(p)
    <2>1. h[p].op \notin CareOps /\ row' = row /\ oban' = oban
      BY <1>4 DEF Tell, CareOps
    <2>2. CASE h[p].out = "cancelled"
      BY <1>4, <2>1, <2>2, PlacedIdle, MovesOn DEF Tell, End
    <2>3. CASE h[p].out # "cancelled"
      <3> DEFINE k == [h[p] EXCEPT !.op = "reclaim", !.note = {}]
      <3>1. Goto(p, k)
        BY <1>4, <2>3 DEF Tell
      <3>2. k.op = "reclaim"
        BY <1>0, HandlerTypes DEF Handler
      <3> HIDE DEF k
      <3>3. Placed(p, k)
        BY <3>2, PlacedMany DEF SlotOps
      <3>4. QED
        BY <2>1, <3>1, <3>3, MovesOn
    <2>4. QED
      BY <2>2, <2>3
  <1>5. CASE ReclaimEnds(p)
    <2>1. h[p].op \notin CareOps /\ row' = row /\ oban' = oban
      BY <1>5 DEF ReclaimEnds, CareOps
    <2>2. CASE h[p].out = "sweep"
      <3> DEFINE late == {j \in Job : /\ row[j].status = "awaiting_input"
                                      /\ row[j].due}
                 k == [Idle EXCEPT !.op = "unanswered", !.todo = late]
      <3>1. Goto(p, k)
        BY <1>5, <2>2 DEF ReclaimEnds
      <3> HIDE DEF late
      <3>2. k.op = "unanswered"
        BY DEF Idle
      <3> HIDE DEF k
      <3>3. Placed(p, k)
        BY <3>2, PlacedMany DEF SlotOps
      <3>4. QED
        BY <2>1, <3>1, <3>3, MovesOn
    <2>3. CASE h[p].out # "sweep"
      BY <1>5, <2>1, <2>3, PlacedIdle, MovesOn DEF ReclaimEnds, End
    <2>4. QED
      BY <2>2, <2>3
  <1>6. CASE SweepEnds(p)
    BY <1>6, PlacedIdle, MovesOn DEF SweepEnds, End, CareOps
  <1>7. CASE Crash(p)
    <2>1. h[p].op \in SlotOps /\ row' = row
      BY <1>0, <1>7 DEF Crash, Placed
    <2>2. CASE h[p].op \in LeaseOps
      <3>1. \A i \in Job : oban'[i] = IF i \in h[p].todo THEN oban[i] + 1
                                                          ELSE oban[i]
        BY <1>7, <2>2 DEF Crash
      <3>2. \A i \in Job : /\ oban[i] > 0 => oban'[i] > 0
                           /\ Holds(p, i) => oban'[i] > 0
        BY <1>0, <3>1 DEF TypeOK, Holds
      <3>3. \A q \in Proc : h'[q] = IF q = p THEN Idle ELSE h[q]
        BY <1>0, <1>7 DEF Crash, End, Goto, TypeOK
      <3>4. \A q \in Proc, i \in Job : Holds(q, i) => Holds(q, i)' \/ q = p
        BY <3>3 DEF Holds
      <3>5. \A q \in Proc : Placed(q, h'[q])
        BY <3>3, PlacedIdle DEF QInv
      <3>6. QED
        BY <2>1, <3>2, <3>4, <3>5 DEF QInv, Placed
    <2>3. CASE h[p].op \notin LeaseOps
      <3>1. h[p].op \notin CareOps
        BY <2>1, <2>3 DEF SlotOps, LeaseOps, CareOps
      <3>2. QED
        BY <1>7, <2>1, <2>3, <3>1, PlacedIdle, MovesOn DEF Crash, End
    <2>4. QED
      BY <2>2, <2>3
  <1>8. QED
    BY <1>2, <1>3, <1>4, <1>5, <1>6, <1>7

LEMMA ReclaimQueue ==
  ASSUME QInv, TypeOK', NEW p \in Proc, NEW j \in Job,
         \/ ReclaimFails(p, j) \/ ReclaimRetries(p, j) \/ ReclaimSkips(p, j)
         \/ ReclaimRollsBack(p, j) \/ FailUnanswered(p, j)
  PROVE  QInv'
  <1>0. TypeOK /\ row[j] \in Row
    BY RowTypes DEF QInv
  <1>1. CASE ReclaimFails(p, j) \/ ReclaimRetries(p, j)
    <2> DEFINE n == {[job |-> j, lease |-> h[p].snap[j].lease]}
    <2> HIDE DEF n
    <2> DEFINE k == [h[p] EXCEPT !.op = "tell", !.todo = @ \ {j}, !.note = n]
    <2>1. Goto(p, k) /\ Working(p, "reclaim", j)
      BY <1>1 DEF ReclaimFails, ReclaimRetries, ThenTell, n
    <2>2. k.op = "tell"
      BY <1>0, HandlerTypes DEF Handler
    <2> HIDE DEF k
    <2>3. Placed(p, k)
      BY <2>2, PlacedMany DEF SlotOps
    <2>4. \A i \in Job \ {j} : ~Holds(p, i)
      BY <2>1, OnlyOne
    <2>5. row'[j].status # "pending" \/ oban'[j] > 0
      BY <1>0, <1>1, Written, Queued, LeaseExpiredFields
      DEF ReclaimFails, ReclaimRetries
    <2>6. \A i \in Job \ {j} : row'[i] = row[i] /\ oban'[i] = oban[i]
      BY <1>0, <1>1, Written, Queued DEF ReclaimFails, ReclaimRetries
    <2>7. QED
      BY <2>1, <2>3, <2>4, <2>5, <2>6, WorksOn
  <1>2. CASE ReclaimSkips(p, j) \/ ReclaimRollsBack(p, j)
    <2>1. PICK o : Goto(p, [h[p] EXCEPT !.todo = @ \ {j}, !.out = o])
      <3>1. [h[p] EXCEPT !.todo = @ \ {j}, !.out = h[p].out]
              = [h[p] EXCEPT !.todo = @ \ {j}]
        BY <1>0, HandlerTypes DEF Handler
      <3>2. QED
        BY <1>2, <3>1 DEF ReclaimSkips, ReclaimRollsBack
    <2> DEFINE k == [h[p] EXCEPT !.todo = @ \ {j}, !.out = o]
    <2>2. Goto(p, k) /\ Working(p, "reclaim", j)
      BY <1>2, <2>1 DEF ReclaimSkips, ReclaimRollsBack
    <2>3. k.op = h[p].op
      BY <1>0, HandlerTypes DEF Handler
    <2> HIDE DEF k
    <2>4. Placed(p, k)
      BY <2>2, <2>3, PlacedMany DEF SlotOps, Working
    <2>5. QED
      BY <1>2, <2>2, <2>4, MovesOn
      DEF ReclaimSkips, ReclaimRollsBack, Working, CareOps
  <1>3. CASE FailUnanswered(p, j)
    <2> DEFINE k == [h[p] EXCEPT !.todo = @ \ {j}]
    <2>1. Goto(p, k) /\ Working(p, "unanswered", j)
      BY <1>3 DEF FailUnanswered
    <2>2. k.op = h[p].op
      BY <1>0, HandlerTypes DEF Handler
    <2> HIDE DEF k
    <2>3. Placed(p, k)
      BY <2>1, <2>2, PlacedMany DEF SlotOps, Working
    <2>4. \A i \in Job : ~Holds(p, i)
      BY <2>1, OnlyOne DEF CareOps
    <2>5. /\ row'[j].status # "pending" \/ row'[j] = row[j]
          /\ \A i \in Job \ {j} : row'[i] = row[i]
      BY <1>0, <1>3, Written, FinishedFields DEF FailUnanswered
    <2>6. QED
      BY <1>3, <2>1, <2>3, <2>4, <2>5, WorksOn DEF FailUnanswered
  <1>4. QED
    BY <1>1, <1>2, <1>3

\* update_status/4 leaves nothing pending.
LEMMA WrittenStatus ==
  ASSUME TypeOK, NEW j \in Job, NEW st \in Terminal, WriteStatus(j, st)
  PROVE  /\ row'[j].status # "pending"
         /\ \A i \in Job \ {j} : row'[i] = row[i]
  <1>1. row[j] \in Row
    BY RowTypes
  <1>2. CASE IsOpen(row[j])
    BY <1>1, <1>2, Written, FinishedFields DEF WriteStatus, Terminal
  <1>3. CASE ~IsOpen(row[j])
    BY <1>3 DEF WriteStatus, IsOpen, Open
  <1>4. QED
    BY <1>2, <1>3

LEMMA RequeueQueue ==
  ASSUME QInv, TypeOK', NEW p \in Proc, NEW j \in Job,
         NEW op \in {"apply", "giveup"}, Working(p, op, j),
         Requeue(p, j), oban' = oban
  PROVE  QInv'
  <1>0. TypeOK
    BY DEF QInv
  <1>1. CASE row[j].status \in {"pending", "leased"}
    <2> DEFINE o == h[p].out
    <2> HIDE DEF o
    <2> DEFINE k == [Idle EXCEPT !.op = "enqueue", !.todo = {j}, !.out = o]
    <2>1. Goto(p, k)
      BY <1>1 DEF Requeue, o
    <2>2. k.op = "enqueue" /\ k.todo = {j}
      BY DEF Idle
    <2> HIDE DEF k
    <2>3. p \notin Slot /\ \A i \in Job \ {j} : ~Holds(p, i)
      BY OnlyOne DEF SlotOps, LeaseOps
    <2>4. Placed(p, k)
      BY <2>2, <2>3, PlacedOn
    <2>5. \A i \in Job \ {j} : row'[i] = row[i]
      BY <1>0, <1>1, Written DEF Requeue
    <2>6. QED
      BY <2>1, <2>2, <2>3, <2>4, <2>5, WorksOn DEF CareOps
  <1>2. CASE row[j].status \notin {"pending", "leased"}
    <2>1. End(p) /\ row' = row
      BY <1>2 DEF Requeue
    <2>2. QED
      BY <1>2, <2>1, EndsOn
  <1>3. QED
    BY <1>1, <1>2

LEMMA ApplyQueue ==
  ASSUME QInv, TypeOK', Fallible \subseteq Slot,
         NEW p \in Proc, NEW j \in Job,
         \/ ApplyOk(p, j) \/ ApplyFailure(p, j) \/ ApplyRetry(p, j)
         \/ ResultUnstored(p, j)
         \/ Enqueue(p, j) \/ Park(p, j) \/ GiveUp(p, j)
         \/ Resume(p, j) \/ Cancel(p, j)
  PROVE  QInv'
  <1>0. TypeOK /\ row[j] \in Row
    BY RowTypes DEF QInv
  <1>1. CASE ApplyOk(p, j)
    BY <1>0, <1>1, WrittenStatus, EndsOn DEF ApplyOk, Terminal
  <1>2. CASE ApplyFailure(p, j)
    BY <1>0, <1>2, WrittenStatus, EndsOn DEF ApplyFailure, Terminal
  <1>3. CASE ApplyRetry(p, j)
    BY <1>3, RequeueQueue DEF ApplyRetry
  <1>4. CASE Enqueue(p, j)
    BY <1>0, <1>4, Queued, EndsOn DEF Enqueue
  <1>5. CASE Park(p, j)
    <2>1. /\ row'[j].status # "pending" \/ row'[j] = row[j]
          /\ \A i \in Job \ {j} : row'[i] = row[i]
      BY <1>0, <1>5, Written, ParkedFields DEF Park
    <2>2. QED
      BY <1>5, <2>1, EndsOn DEF Park, CareOps
  <1>6. CASE GiveUp(p, j)
    BY <1>6, RequeueQueue DEF GiveUp
  <1>7. CASE Resume(p, j)
    <2>1. Working(p, "resume", j) /\ oban' = oban
      BY <1>7 DEF Resume
    <2>2. CASE row[j].status = "awaiting_input"
      <3> DEFINE k == [Idle EXCEPT !.op = "enqueue", !.todo = {j}]
      <3>1. Goto(p, k)
        BY <1>7, <2>2 DEF Resume
      <3>2. k.op = "enqueue" /\ k.todo = {j}
        BY DEF Idle
      <3> HIDE DEF k
      <3>3. p \notin Slot /\ \A i \in Job \ {j} : ~Holds(p, i)
        BY <2>1, OnlyOne DEF SlotOps, LeaseOps
      <3>4. Placed(p, k)
        BY <3>2, <3>3, PlacedOn
      <3>5. \A i \in Job \ {j} : row'[i] = row[i]
        BY <1>0, <1>7, <2>2, Written DEF Resume
      <3>6. QED
        BY <2>1, <3>1, <3>2, <3>3, <3>4, <3>5, WorksOn DEF CareOps
    <2>3. CASE row[j].status # "awaiting_input"
      BY <1>7, <2>1, <2>3, EndsOn DEF Resume, CareOps
    <2>4. QED
      BY <2>2, <2>3
  <1>8. CASE Cancel(p, j)
    <2>1. PICK note : Goto(p, [Idle EXCEPT !.op = "tell", !.todo = {j},
                                 !.out = "cancelled", !.note = note])
      BY <1>8 DEF Cancel
    <2> DEFINE k == [Idle EXCEPT !.op = "tell", !.todo = {j},
                               !.out = "cancelled", !.note = note]
    <2>2. k.op = "tell"
      BY DEF Idle
    <2>3. Goto(p, k)
      BY <2>1
    <2> HIDE DEF k
    <2>4. Placed(p, k)
      BY <2>2, PlacedMany DEF SlotOps
    <2>5. row'[j].status # "pending" /\ \A i \in Job \ {j} : row'[i] = row[i]
      BY <1>0, <1>8, WrittenStatus DEF Cancel, Terminal
    <2>6. \A i \in Job \ {j} : ~Holds(p, i)
      BY <1>8, OnlyOne DEF Cancel
    <2>7. QED
      BY <1>8, <2>3, <2>4, <2>5, <2>6, WorksOn DEF Cancel
  <1>9. CASE ResultUnstored(p, j)
    BY <1>9, JobsAssumption DEF ResultUnstored
  <1>10. QED
    BY <1>1, <1>2, <1>3, <1>4, <1>5, <1>6, <1>7, <1>8, <1>9

LEMMA ArrivalQueue ==
  ASSUME QInv, TypeOK', NEW p \in Proc, NEW j \in Job,
         WorkerReports(p, j) \/ AnswerArrives(p, j) \/ CancelArrives(p, j)
  PROVE  QInv'
  <1>0. TypeOK
    BY DEF QInv
  <1>1. ASSUME IsIdle(p), row' = row, oban' = oban,
               p \notin Slot, NEW k, Goto(p, k), k.todo = {j}
        PROVE  QInv'
    BY <1>1, PlacedOn, MovesOn DEF IsIdle, CareOps
  <1>2. CASE WorkerReports(p, j)
    <2>1. PICK l \in Lease \cup {NoLease} :
            \/ \E out \in Reports : \/ ResultArrives(p, j, l, out)
                                    \/ ResultUnread(p, j, l, out)
            \/ \E phase \in Phases : Progress(p, j, l, phase)
            \/ Renew(p, j, l)
            \/ QuestionArrives(p, j, l)
      BY <1>2 DEF WorkerReports
    <2>2. CASE h' = h
      <3>1. oban' = oban /\ (row' = row \/ Renew(p, j, l))
        BY <2>1 DEF ResultArrives, ResultUnread, Progress, Renew, QuestionArrives
      <3>2. \A i \in Job : row'[i].status = row[i].status
        <4>1. CASE Renew(p, j, l)
          <5>1. row'[j] = [row[j] EXCEPT !.due = row[j].overdue]
                /\ \A i \in Job \ {j} : row'[i] = row[i]
            BY <1>0, <4>1, Written DEF Renew
          <5>2. row'[j].status = row[j].status
            BY <1>0, <5>1, RowTypes DEF Row
          <5>3. QED
            BY <5>1, <5>2
        <4>2. QED
          BY <3>1, <4>1
      <3>3. QED
        BY <2>2, <3>1, <3>2, Still
    <2>3. CASE h' # h
      <3>1. \/ \E out \in Reports : ResultArrives(p, j, l, out)
            \/ QuestionArrives(p, j, l)
        BY <2>1, <2>3 DEF Progress, Renew, ResultUnread
      <3>2. IsIdle(p) /\ row' = row /\ oban' = oban /\ p \notin Slot
        BY <3>1, JobsAssumption DEF ResultArrives, QuestionArrives
      <3>3. PICK k : Goto(p, k) /\ k.todo = {j}
        <4>1. CASE \E out \in Reports : ResultArrives(p, j, l, out)
          <5>1. PICK out \in Reports :
                  Goto(p, [Begin("apply", {j}) EXCEPT !.out = out])
            BY <2>3, <4>1 DEF ResultArrives
          <5>2. [Begin("apply", {j}) EXCEPT !.out = out].todo = {j}
            BY DEF Begin, Idle
          <5>3. QED
            BY <5>1, <5>2
        <4>2. CASE QuestionArrives(p, j, l)
          <5> DEFINE g == [Idle EXCEPT !.op = "giveup", !.todo = {j}]
                     a == [Begin("park", {j}) EXCEPT !.lease = l]
          <5>1. Goto(p, g) \/ Goto(p, a)
            BY <4>2 DEF QuestionArrives
          <5>2. g.todo = {j} /\ a.todo = {j}
            BY DEF Begin, Idle
          <5>3. QED
            BY <5>1, <5>2
        <4>3. QED
          BY <3>1, <4>1, <4>2
      <3>4. QED
        BY <1>1, <3>2, <3>3
    <2>4. QED
      BY <2>2, <2>3
  <1>3. CASE AnswerArrives(p, j) \/ CancelArrives(p, j)
    <2>1. PICK op : Goto(p, Begin(op, {j}))
      BY <1>3 DEF AnswerArrives, CancelArrives
    <2>2. Begin(op, {j}).todo = {j}
      BY DEF Begin, Idle
    <2>3. QED
      BY <1>1, <1>3, <2>1, <2>2, JobsAssumption
      DEF AnswerArrives, CancelArrives
  <1>4. QED
    BY <1>2, <1>3

----------------------------------------------------------------------------

LEMMA QueueInit == Init => QInv
  <1> SUFFICES ASSUME Init PROVE QInv
    OBVIOUS
  <1>1. TypeOK
    BY TypeInit
  <1>2. \A j \in Job : row[j].status = Absent
    BY DEF Init, NoRow
  <1>3. \A p \in Proc : Placed(p, h[p])
    BY PlacedIdle DEF Init
  <1>4. QED
    BY <1>1, <1>2, <1>3 DEF QInv, Absent

LEMMA QueueStep ==
  ASSUME Fallible \subseteq Slot
  PROVE  QInv /\ [Next]_vars => QInv'
  <1> SUFFICES ASSUME QInv, [Next]_vars PROVE QInv'
    OBVIOUS
  <1>1. TypeOK'
    BY TypeStep DEF QInv
  <1>2. CASE \E j \in Job : Submit(j) \/ DeadlinePasses(j) \/ JobOverdue(j)
    BY <1>1, <1>2, EnvironmentQueue
  <1>3. CASE \E p \in Proc : Continue(p) \/ SweepLeases(p) \/ Crash(p)
    BY <1>1, <1>3, LeaseWorkerQueue, SweepQueue, ReclaimQueue, ApplyQueue
    DEF Continue
  <1>4. CASE \E p \in Proc, w \in Worker : ChannelDown(p, w)
    BY <1>1, <1>4, SweepQueue
  <1>5. CASE \E p \in Proc, j \in Job :
               \/ LeaseRead(p, j) \/ WorkerReports(p, j)
               \/ AnswerArrives(p, j) \/ CancelArrives(p, j)
    BY <1>1, <1>5, LeaseWorkerQueue, ArrivalQueue
  <1>6. CASE UNCHANGED vars
    BY <1>1, <1>6, Still DEF vars
  <1>7. QED
    BY <1>2, <1>3, <1>4, <1>5, <1>6 DEF Next

\* Executors of the queue and the sweep may die at any step, any number of
\* them, and Oban may run a lease job late or again: every pending row still
\* has an Oban job, or a process that will insert one or lease it.
THEOREM PendingIsNeverStranded ==
  ASSUME Fallible \subseteq Slot
  PROVE  Spec => []NeverStranded
  <1>1. QInv => NeverStranded
    BY DEF QInv, Holds, CareOps, NeverStranded
  <1>2. QInv /\ [Next]_vars => QInv'
    BY QueueStep
  <1>3. QED
    BY <1>1, <1>2, QueueInit, PTL DEF Spec
=============================================================================
