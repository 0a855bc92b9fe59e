------------------------------ MODULE JobsSteps ------------------------------
(***************************************************************************)
(* Type correctness of module Jobs, and what one of its steps does, action *)
(* by action: each changes at most one row and one handler, in one of the  *)
(* ways that module JobsInvariant names.  Module JobsSafety reasons about  *)
(* those alone.                                                            *)
(***************************************************************************)
EXTENDS JobsInvariant, TLAPS

\* The two columns as the sets state.ex lists.
LEMMA StatusSets ==
  /\ Statuses = {"pending", "leased", "awaiting_input",
                 "done", "failed", "cancelled"}
  /\ States = {"queued", "routing", "leased", "loading_model", "prefill",
               "generating", "finalizing", "input_required", "completed",
               "failed", "expired", "cancelled"}
  <1>1. Statuses = {"pending", "leased", "awaiting_input",
                    "done", "failed", "cancelled"}
    BY DEF Statuses, StatesFor
  <1>2. States = StatesFor["pending"] \cup StatesFor["leased"]
                 \cup StatesFor["awaiting_input"] \cup StatesFor["done"]
                 \cup StatesFor["failed"] \cup StatesFor["cancelled"]
    BY <1>1 DEF States
  <1>3. QED
    BY <1>1, <1>2 DEF StatesFor

\* Columns the statements of jobs.ex write together, and keep their types.
LEMMA Columns ==
  ASSUME NEW r \in Row, NEW st \in Statuses, NEW n \in Nat,
         NEW w \in Worker \cup {NoWorker}, NEW l \in Lease \cup {NoLease},
         NEW d \in BOOLEAN, NEW e \in BOOLEAN
  PROVE  /\ [r EXCEPT !.status = st, !.worker = w, !.lease = l,
                      !.due = d] \in Row
         /\ [r EXCEPT !.status = st, !.worker = w, !.lease = l,
                      !.attempts = n, !.due = d] \in Row
         /\ [r EXCEPT !.status = st, !.worker = w, !.lease = l,
                      !.rounds = n, !.due = d, !.parkOverdue = e] \in Row
         /\ [r EXCEPT !.status = st, !.due = d, !.overdue = e] \in Row
         /\ [r EXCEPT !.overdue = d, !.due = e] \in Row
         /\ [r EXCEPT !.due = d] \in Row
  BY DEF Row

LEMMA RowFields ==
  ASSUME NEW r \in Row
  PROVE  /\ r.status \in Statuses \cup {Absent}
         /\ r.worker \in Worker \cup {NoWorker}
         /\ r.lease \in Lease \cup {NoLease}
         /\ r.attempts \in Nat
         /\ r.rounds \in Nat
         /\ r.due \in BOOLEAN
         /\ r.overdue \in BOOLEAN
         /\ r.parkOverdue \in BOOLEAN
  BY DEF Row

LEMMA NoRowType == NoRow \in Row /\ NewRow \in Row
  BY StatusSets DEF NoRow, NewRow, Row

\* The statements of jobs.ex map rows to rows.
LEMMA RowOperators ==
  ASSUME NEW r \in Row
  PROVE  /\ \A w \in Worker, l \in Lease : Leased(r, w, l) \in Row
         /\ Retried(r) \in Row
         /\ LeaseExpired(r) \in Row
         /\ Parked(r) \in Row
         /\ \A s \in Snapshot : Resumed(r, s) \in Row
         /\ \A st \in Statuses : Finished(r, st) \in Row
         /\ SnapOf(r) \in Snapshot
  <1>1. ASSUME NEW w \in Worker, NEW l \in Lease
        PROVE  Leased(r, w, l) \in Row
    BY ZenonT(60), <1>1, Columns, RowFields, StatusSets DEF Leased
  <1>2. Retried(r) \in Row
    <2> DEFINE n == r.attempts + 1
               d == FALSE
    <2>1. n \in Nat /\ d \in BOOLEAN
      BY RowFields
    <2>2. Retried(r) = [r EXCEPT !.status = "pending", !.worker = NoWorker,
                                 !.lease = NoLease, !.attempts = n, !.due = d]
      BY DEF Retried
    <2> HIDE DEF n, d
    <2>3. [r EXCEPT !.status = "pending", !.worker = NoWorker,
                    !.lease = NoLease, !.attempts = n, !.due = d] \in Row
      BY ZenonT(60), <2>1, Columns, StatusSets
    <2>4. QED
      BY <2>2, <2>3
  <1>3. LeaseExpired(r) \in Row
    BY Columns, StatusSets DEF LeaseExpired
  <1>4. Parked(r) \in Row
    <2> DEFINE n == r.rounds + 1
               d == FALSE
    <2>1. n \in Nat /\ d \in BOOLEAN /\ r.overdue \in BOOLEAN
      BY RowFields
    <2>2. Parked(r) = [r EXCEPT !.status = "awaiting_input",
                                !.worker = NoWorker, !.lease = NoLease,
                                !.rounds = n, !.due = d,
                                !.parkOverdue = r.overdue]
      BY DEF Parked
    <2> HIDE DEF n, d
    <2>3. [r EXCEPT !.status = "awaiting_input", !.worker = NoWorker,
                    !.lease = NoLease, !.rounds = n, !.due = d,
                    !.parkOverdue = r.overdue] \in Row
      BY ZenonT(60), <2>1, Columns, StatusSets
    <2>4. QED
      BY <2>2, <2>3
  <1>5. ASSUME NEW s \in Snapshot
        PROVE  Resumed(r, s) \in Row
    <2>1. s.parkOverdue \in BOOLEAN
      BY DEF Snapshot
    <2>2. QED
      BY <2>1, Columns, StatusSets DEF Resumed
  <1>6. ASSUME NEW st \in Statuses
        PROVE  Finished(r, st) \in Row
    BY StatusSets DEF Finished, Row
  <1>7. SnapOf(r) \in Snapshot
    BY RowFields DEF SnapOf, Snapshot
  <1>8. QED
    BY <1>1, <1>2, <1>3, <1>4, <1>5, <1>6, <1>7

----------------------------------------------------------------------------
(* Handlers *)

LEMMA HandlerFields ==
  ASSUME NEW k \in Handler
  PROVE  /\ k.op \in Ops /\ k.todo \in SUBSET Job
         /\ k.snap \in [Job -> Snapshot]
         /\ k.lease \in Lease \cup {NoLease}
         /\ k.worker \in Worker \cup {NoWorker}
         /\ k.out \in Outs /\ k.note \in SUBSET CancelMsg
  BY DEF Handler

\* Fields that handlers change together, and keep their types.
LEMMA HandlerColumns ==
  ASSUME NEW k \in Handler
  PROVE  /\ \A op \in Ops \ {"push"} : [k EXCEPT !.op = op] \in Handler
         /\ \A todo \in SUBSET Job : [k EXCEPT !.todo = todo] \in Handler
         /\ \A out \in Outs : [k EXCEPT !.out = out] \in Handler
         /\ \A l \in Lease \cup {NoLease} : [k EXCEPT !.lease = l] \in Handler
         /\ \A op \in Ops \ {"push"}, note \in SUBSET CancelMsg :
              [k EXCEPT !.op = op, !.note = note] \in Handler
         /\ \A todo \in SUBSET Job, out \in Outs :
              [k EXCEPT !.todo = todo, !.out = out] \in Handler
         /\ \A op \in Ops \ {"push"}, todo \in SUBSET Job :
              /\ [k EXCEPT !.op = op, !.todo = todo] \in Handler
              /\ \A snap \in [Job -> Snapshot] :
                   [k EXCEPT !.op = op, !.todo = todo, !.snap = snap]
                     \in Handler
              /\ \A out \in Outs :
                   [k EXCEPT !.op = op, !.todo = todo, !.out = out]
                     \in Handler
              /\ \A note \in SUBSET CancelMsg :
                   [k EXCEPT !.op = op, !.todo = todo, !.note = note]
                     \in Handler
              /\ \A out \in Outs, note \in SUBSET CancelMsg :
                   [k EXCEPT !.op = op, !.todo = todo, !.out = out,
                             !.note = note] \in Handler
         /\ \A op \in Ops, todo \in SUBSET Job, w \in Worker :
              [k EXCEPT !.op = op, !.todo = todo, !.worker = w] \in Handler
  BY ZenonT(60) DEF Handler

LEMMA IdleType == Idle \in Handler
  <1>1. SnapOf(NoRow) \in Snapshot
    BY NoRowType, RowOperators
  <1>2. NoSnap \in [Job -> Snapshot]
    BY <1>1 DEF NoSnap
  <1>3. QED
    BY <1>2 DEF Idle, Handler, Ops, LeaseOps, Outs

LEMMA BeginType ==
  ASSUME row \in [Job -> Row], NEW op \in Ops \ {"push"}, NEW S \in SUBSET Job
  PROVE  Begin(op, S) \in Handler
  <1>1. ASSUME NEW j \in Job
        PROVE  SnapOf(IF j \in S THEN row[j] ELSE NoRow) \in Snapshot
    <2>1. (IF j \in S THEN row[j] ELSE NoRow) \in Row
      BY NoRowType
    <2>2. QED
      BY <2>1, RowOperators
  <1>2. Select(S) \in [Job -> Snapshot]
    BY <1>1 DEF Select
  <1>3. QED
    BY <1>2, IdleType, HandlerColumns DEF Begin

----------------------------------------------------------------------------
(* What a step writes *)

LEMMA UpdateType ==
  ASSUME row \in [Job -> Row], NEW j \in Job, NEW r \in Row, Update(j, r)
  PROVE  row' \in [Job -> Row]
  BY DEF Update

LEMMA SetStateType ==
  ASSUME state \in [Job -> States], NEW j \in Job, NEW st \in States,
         SetState(j, st)
  PROVE  state' \in [Job -> States]
  BY DEF SetState

LEMMA InsertType ==
  ASSUME oban \in [Job -> Nat], NEW j \in Job, InsertLeaseJob(j)
  PROVE  oban' \in [Job -> Nat]
  BY DEF InsertLeaseJob

LEMMA PublishType ==
  ASSUME told \in [Job -> SUBSET {"ok", "error"}], NEW j \in Job,
         NEW what \in {"ok", "error"}, Publish(j, what)
  PROVE  told' \in [Job -> SUBSET {"ok", "error"}]
  BY DEF Publish

LEMMA GotoType ==
  ASSUME h \in [Proc -> Handler], NEW p \in Proc, NEW k \in Handler, Goto(p, k)
  PROVE  h' \in [Proc -> Handler]
  BY DEF Goto

LEMMA EndType ==
  ASSUME h \in [Proc -> Handler], NEW p \in Proc, End(p)
  PROVE  h' \in [Proc -> Handler]
  BY IdleType, GotoType DEF End

LEMMA WriteStatusType ==
  ASSUME TypeOK, NEW j \in Job, NEW status \in Terminal, WriteStatus(j, status)
  PROVE  row' \in [Job -> Row] /\ state' \in [Job -> States]
  <1>1. CASE IsOpen(row[j])
    <2>1. Finished(row[j], status) \in Row
      BY RowOperators, StatusSets DEF TypeOK, Terminal
    <2>2. row' \in [Job -> Row]
      BY <1>1, <2>1, UpdateType DEF TypeOK, WriteStatus
    <2>3. state' \in [Job -> States]
      BY <1>1, StatusSets DEF TypeOK, WriteStatus, SetState, Terminal
    <2>4. QED
      BY <2>2, <2>3
  <1>2. CASE ~IsOpen(row[j])
    BY <1>2 DEF WriteStatus, TypeOK
  <1>3. QED
    BY <1>1, <1>2

LEMMA RequeueType ==
  ASSUME TypeOK, NEW p \in Proc, NEW j \in Job, Requeue(p, j)
  PROVE  /\ row' \in [Job -> Row]
         /\ state' \in [Job -> States]
         /\ told' \in [Job -> SUBSET {"ok", "error"}]
         /\ h' \in [Proc -> Handler]
  <1>1. CASE row[j].status \in {"pending", "leased"}
    <2>1. Retried(row[j]) \in Row
      BY RowOperators DEF TypeOK
    <2>2. row' \in [Job -> Row]
      BY <1>1, <2>1, UpdateType DEF TypeOK, Requeue
    <2>3. state' \in [Job -> States]
      BY <1>1, StatusSets, SetStateType DEF TypeOK, Requeue, Initial
    <2>4. [Idle EXCEPT !.op = "enqueue", !.todo = {j}, !.out = h[p].out]
            \in Handler
      <3>1. h[p].out \in Outs /\ "enqueue" \in Ops \ {"push"} /\ {j} \in SUBSET Job
        BY HandlerFields DEF TypeOK, Ops
      <3>2. QED
        BY <3>1, IdleType, HandlerColumns
    <2>5. QED
      BY <1>1, <2>2, <2>3, <2>4, GotoType DEF TypeOK, Requeue
  <1>2. CASE row[j].status \notin {"pending", "leased"}
    <2>1. told' \in [Job -> SUBSET {"ok", "error"}]
      BY <1>2, PublishType DEF TypeOK, Requeue
    <2>2. QED
      BY <1>2, <2>1, EndType DEF TypeOK, Requeue
  <1>3. QED
    BY <1>1, <1>2

----------------------------------------------------------------------------
(* One step of Next, action by action.  Each lemma says that one group of  *)
(* actions keeps the types.                                                *)

LEMMA OpsNames ==
  Ops = {"route", "assign", "expire", "push", "idle", "reclaim",
         "unanswered", "tell", "apply", "enqueue", "park", "giveup",
         "resume", "cancel"}
  BY DEF Ops, LeaseOps

LEMMA RowTypes ==
  ASSUME TypeOK, NEW j \in Job
  PROVE  row[j] \in Row /\ {j} \in SUBSET Job
  BY DEF TypeOK

LEMMA HandlerTypes ==
  ASSUME TypeOK, NEW p \in Proc
  PROVE  /\ h[p] \in Handler /\ h[p].out \in Outs
         /\ h[p].todo \in SUBSET Job
         /\ h[p].note \in SUBSET CancelMsg
         /\ h[p].worker \in Worker \cup {NoWorker}
         /\ \A j \in Job : /\ h[p].snap[j] \in Snapshot
                           /\ h[p].todo \ {j} \in SUBSET Job
  BY HandlerFields DEF TypeOK

\* Submission and time.
LEMMA EnvironmentTypes ==
  ASSUME TypeOK, NEW j \in Job,
         \/ Submit(j) \/ DeadlinePasses(j) \/ JobOverdue(j)
  PROVE  TypeOK'
  <1>1. CASE Submit(j)
    <2>1. row' \in [Job -> Row]
      BY <1>1, NoRowType, UpdateType DEF Submit, TypeOK
    <2>2. state' \in [Job -> States] /\ oban' \in [Job -> Nat]
      BY <1>1, StatusSets, SetStateType, InsertType
      DEF Submit, TypeOK, Initial
    <2>3. QED
      BY <1>1, <2>1, <2>2 DEF Submit, TypeOK
  <1>2. CASE DeadlinePasses(j)
    <2>1. [row[j] EXCEPT !.due = TRUE] \in Row
      BY RowTypes DEF Row
    <2>2. row' \in [Job -> Row]
      BY <1>2, <2>1, UpdateType DEF DeadlinePasses, TypeOK
    <2>3. QED
      BY <1>2, <2>2 DEF DeadlinePasses, TypeOK
  <1>3. CASE JobOverdue(j)
    <2>2. [row[j] EXCEPT !.overdue = TRUE,
             !.due = @ \/ row[j].status = "leased"] \in Row
      BY RowTypes DEF Row
    <2>3. row' \in [Job -> Row]
      BY <1>3, <2>2, UpdateType DEF JobOverdue, TypeOK
    <2>4. QED
      BY <1>3, <2>3 DEF JobOverdue, TypeOK
  <1>4. QED
    BY <1>1, <1>2, <1>3

\* LeaseWorker.perform/1.
LEMMA LeaseWorkerTypes ==
  ASSUME TypeOK, NEW p \in Proc, NEW j \in Job,
         \/ LeaseRead(p, j) \/ Expire(p, j) \/ MarkRouting(p, j)
         \/ MarkLeased(p, j) \/ LeaseLost(p, j) \/ Snooze(p, j)
         \/ PushLease(p, j)
  PROVE  TypeOK'
  <1>1. CASE LeaseRead(p, j)
    <2>1. oban' \in [Job -> Nat]
      BY <1>1 DEF LeaseRead, TypeOK
    <2>2. \A op \in {"expire", "route"} :
            [Idle EXCEPT !.todo = {j}, !.op = op] \in Handler
      <3>1. \A op \in {"expire", "route"} : op \in Ops
        BY OpsNames
      <3>2. QED
        BY <3>1, IdleType, RowTypes DEF Handler
    <2>3. h' \in [Proc -> Handler]
      BY <1>1, <2>2, GotoType DEF LeaseRead, TypeOK
    <2>4. QED
      BY <1>1, <2>1, <2>3 DEF LeaseRead, TypeOK
  <1>2. CASE Expire(p, j)
    <2>1. Finished(row[j], "failed") \in Row
      BY RowTypes, RowOperators, StatusSets
    <2>2. row' \in [Job -> Row]
      BY <1>2, <2>1, UpdateType DEF Expire, TypeOK
    <2>3. /\ state' \in [Job -> States]
          /\ told' \in [Job -> SUBSET {"ok", "error"}]
      BY <1>2, StatusSets, SetStateType, PublishType DEF Expire, TypeOK
    <2>4. QED
      BY <1>2, <2>2, <2>3, EndType DEF Expire, TypeOK
  <1>3. CASE MarkRouting(p, j)
    <2>1. [h[p] EXCEPT !.op = "assign"] \in Handler
      BY HandlerTypes, HandlerColumns, OpsNames
    <2>2. state' \in [Job -> States]
      BY <1>3, StatusSets, SetStateType DEF MarkRouting, TypeOK
    <2>3. QED
      BY <1>3, <2>1, <2>2, GotoType DEF MarkRouting, TypeOK
  <1>4. CASE MarkLeased(p, j)
    <2>1. PICK w \in Worker, l \in Lease \ issued :
            /\ Update(j, Leased(row[j], w, l))
            /\ issued' = issued \cup {l}
            /\ Goto(p, [Idle EXCEPT !.op = "push", !.todo = {j}, !.worker = w])
      BY <1>4 DEF MarkLeased
    <2>2. row' \in [Job -> Row]
      <3>1. Leased(row[j], w, l) \in Row
        BY RowTypes, RowOperators
      <3>2. QED
        BY <2>1, <3>1, UpdateType DEF TypeOK
    <2>3. h' \in [Proc -> Handler]
      <3>1. [Idle EXCEPT !.op = "push", !.todo = {j}, !.worker = w] \in Handler
        BY IdleType, HandlerColumns, OpsNames, RowTypes
      <3>2. QED
        BY <2>1, <3>1, GotoType DEF TypeOK
    <2>4. issued' \subseteq Lease /\ state' \in [Job -> States]
      BY <1>4, <2>1, StatusSets, SetStateType DEF MarkLeased, TypeOK
    <2>5. QED
      BY <1>4, <2>2, <2>3, <2>4 DEF MarkLeased, TypeOK
  <1>5. CASE LeaseLost(p, j)
    BY <1>5, EndType DEF LeaseLost, TypeOK
  <1>6. CASE Snooze(p, j)
    BY <1>6, EndType, InsertType DEF Snooze, TypeOK
  <1>7. CASE PushLease(p, j)
    <2>1. [to |-> h[p].worker, job |-> j, lease |-> row[j].lease] \in JobMsg
      <3>1. h[p].worker \in Worker
        BY <1>7, HandlerTypes DEF PushLease, Working, Handler
      <3>2. QED
        BY <3>1, RowFields, RowTypes DEF JobMsg
    <2>2. QED
      BY <1>7, <2>1, EndType DEF PushLease, TypeOK
  <1>8. QED
    BY <1>1, <1>2, <1>3, <1>4, <1>5, <1>6, <1>7

\* A sweep, a closing channel or a crash: the steps of no one job.
LEMMA SweepTypes ==
  ASSUME TypeOK, NEW p \in Proc,
         \/ SweepLeases(p) \/ Tell(p) \/ ReclaimEnds(p) \/ SweepEnds(p)
         \/ Crash(p) \/ \E w \in Worker : ChannelDown(p, w)
  PROVE  TypeOK'
  <1>1. ASSUME NEW S \in SUBSET Job, NEW why \in {"sweep", "down"}
        PROVE  [Begin("reclaim", S) EXCEPT !.out = why] \in Handler
    <2>1. Begin("reclaim", S) \in Handler /\ why \in Outs
      BY BeginType, OpsNames DEF TypeOK, Outs
    <2>2. QED
      BY <2>1, HandlerColumns
  <1>2. CASE SweepLeases(p)
    BY <1>1, <1>2, GotoType DEF SweepLeases, TypeOK
  <1>3. CASE \E w \in Worker : ChannelDown(p, w)
    BY <1>1, <1>3, GotoType DEF ChannelDown, TypeOK
  <1>4. CASE Tell(p)
    <2>1. [h[p] EXCEPT !.op = "reclaim", !.note = {}] \in Handler
      BY HandlerTypes, HandlerColumns, OpsNames
    <2>2. h' \in [Proc -> Handler]
      BY <1>4, <2>1, GotoType, EndType DEF Tell, TypeOK
    <2>3. cancels' \subseteq CancelMsg
      BY <1>4, HandlerTypes DEF Tell, TypeOK
    <2>4. QED
      BY <1>4, <2>2, <2>3 DEF Tell, TypeOK
  <1>5. CASE ReclaimEnds(p)
    <2>1. ASSUME NEW S \in SUBSET Job
          PROVE  [Idle EXCEPT !.op = "unanswered", !.todo = S] \in Handler
      BY IdleType, HandlerColumns, OpsNames
    <2>2. h' \in [Proc -> Handler]
      BY <1>5, <2>1, GotoType, EndType DEF ReclaimEnds, TypeOK
    <2>3. QED
      BY <1>5, <2>2 DEF ReclaimEnds, TypeOK
  <1>6. CASE SweepEnds(p)
    BY <1>6, EndType DEF SweepEnds, TypeOK
  <1>7. CASE Crash(p)
    <2>1. oban' \in [Job -> Nat]
      BY <1>7 DEF Crash, TypeOK
    <2>2. QED
      BY <1>7, <2>1, EndType DEF Crash, TypeOK
  <1>8. QED
    BY <1>2, <1>3, <1>4, <1>5, <1>6, <1>7

\* What a reclaim or a sweep does to one job.
LEMMA ReclaimTypes ==
  ASSUME TypeOK, NEW p \in Proc, NEW j \in Job,
         \/ ReclaimFails(p, j) \/ ReclaimRetries(p, j) \/ ReclaimSkips(p, j)
         \/ ReclaimRollsBack(p, j) \/ FailUnanswered(p, j)
  PROVE  TypeOK'
  <1>1. [h[p] EXCEPT !.todo = @ \ {j}] \in Handler
    BY HandlerTypes, HandlerColumns
  <1>2. ASSUME StillHeld(p, j), ThenTell(p, j)
        PROVE  h' \in [Proc -> Handler]
    <2>1. [job |-> j, lease |-> h[p].snap[j].lease] \in CancelMsg
      BY <1>2, HandlerTypes DEF StillHeld, IsLive, CancelMsg, Snapshot
    <2>2. [h[p] EXCEPT !.op = "tell", !.todo = @ \ {j},
             !.note = {[job |-> j, lease |-> h[p].snap[j].lease]}] \in Handler
      <3>1. /\ {[job |-> j, lease |-> h[p].snap[j].lease]}
                 \in SUBSET CancelMsg
            /\ "tell" \in Ops \ {"push"}
            /\ h[p].todo \ {j} \in SUBSET Job /\ h[p] \in Handler
        BY <2>1, HandlerTypes, OpsNames
      <3>2. QED
        BY <3>1, HandlerColumns
    <2>3. QED
      BY <1>2, <2>2, GotoType DEF ThenTell, TypeOK
  <1>3. CASE ReclaimFails(p, j)
    <2>1. row' \in [Job -> Row]
      BY <1>3, RowTypes, RowOperators, UpdateType DEF ReclaimFails, TypeOK
    <2>2. /\ state' \in [Job -> States]
          /\ told' \in [Job -> SUBSET {"ok", "error"}]
      BY <1>3, StatusSets, SetStateType, PublishType DEF ReclaimFails, TypeOK
    <2>3. QED
      BY <1>2, <1>3, <2>1, <2>2 DEF ReclaimFails, TypeOK
  <1>4. CASE ReclaimRetries(p, j)
    <2>1. row' \in [Job -> Row]
      BY <1>4, RowTypes, RowOperators, UpdateType DEF ReclaimRetries, TypeOK
    <2>2. oban' \in [Job -> Nat]
      BY <1>4, InsertType DEF ReclaimRetries, TypeOK
    <2>3. QED
      BY <1>2, <1>4, <2>1, <2>2 DEF ReclaimRetries, TypeOK
  <1>5. CASE ReclaimSkips(p, j)
    BY <1>1, <1>5, GotoType DEF ReclaimSkips, TypeOK
  <1>6. CASE ReclaimRollsBack(p, j)
    <2>1. [h[p] EXCEPT !.todo = @ \ {j}, !.out = "down"] \in Handler
      BY ZenonT(60), HandlerTypes, HandlerColumns DEF Outs
    <2>2. QED
      BY <1>6, <2>1, GotoType DEF ReclaimRollsBack, TypeOK
  <1>7. CASE FailUnanswered(p, j)
    <2>1. Finished(row[j], "failed") \in Row
      BY RowTypes, RowOperators, StatusSets
    <2>2. row' \in [Job -> Row]
      BY <1>7, <2>1, UpdateType DEF FailUnanswered, TypeOK
    <2>3. /\ state' \in [Job -> States]
          /\ told' \in [Job -> SUBSET {"ok", "error"}]
      BY <1>7, StatusSets, SetStateType, PublishType
      DEF FailUnanswered, TypeOK
    <2>4. QED
      BY <1>1, <1>7, <2>2, <2>3, GotoType DEF FailUnanswered, TypeOK
  <1>8. QED
    BY <1>3, <1>4, <1>5, <1>6, <1>7

\* What workers report.
LEMMA ReportTypes ==
  ASSUME TypeOK, NEW p \in Proc, NEW j \in Job, WorkerReports(p, j)
  PROVE  TypeOK'
  <1> PICK l \in Lease \cup {NoLease} :
        \/ \E out \in Reports : \/ ResultArrives(p, j, l, out)
                                \/ ResultUnread(p, j, l, out)
        \/ \E phase \in Phases : Progress(p, j, l, phase)
        \/ Renew(p, j, l)
        \/ QuestionArrives(p, j, l)
    BY DEF WorkerReports
  <1>1. ASSUME NEW out \in Reports, ResultArrives(p, j, l, out)
        PROVE  TypeOK'
    <2>1. [Begin("apply", {j}) EXCEPT !.out = out] \in Handler
      <3>1. Begin("apply", {j}) \in Handler /\ out \in Outs
        BY RowTypes, BeginType, OpsNames, JobsAssumption DEF TypeOK, Outs
      <3>2. QED
        BY <3>1, HandlerColumns
    <2>2. Verdict(out) \in {"ok", "error"}
      BY DEF Verdict
    <2>3. told' \in [Job -> SUBSET {"ok", "error"}]
      BY <1>1, <2>2, PublishType DEF ResultArrives, TypeOK
    <2>4. h' \in [Proc -> Handler]
      BY <1>1, <2>1, GotoType DEF ResultArrives, TypeOK
    <2>5. QED
      BY <1>1, <2>3, <2>4 DEF ResultArrives, TypeOK
  <1>6. ASSUME NEW out \in Reports, ResultUnread(p, j, l, out)
        PROVE  TypeOK'
    <2>1. Verdict(out) \in {"ok", "error"}
      BY DEF Verdict
    <2>2. told' \in [Job -> SUBSET {"ok", "error"}]
      BY <1>6, <2>1, PublishType DEF ResultUnread, TypeOK
    <2>3. QED
      BY <1>6, <2>2 DEF ResultUnread, TypeOK
  <1>2. ASSUME NEW phase \in Phases, Progress(p, j, l, phase)
        PROVE  TypeOK'
    <2>1. phase \in States
      BY JobsAssumption, StatusSets DEF ReportablePhases
    <2>2. QED
      BY <1>2, <2>1, SetStateType DEF Progress, TypeOK
  <1>3. CASE Renew(p, j, l)
    <2>1. [row[j] EXCEPT !.due = row[j].overdue] \in Row
      BY RowTypes DEF Row
    <2>2. row' \in [Job -> Row]
      BY <1>3, <2>1, UpdateType DEF Renew, TypeOK
    <2>3. QED
      BY <1>3, <2>2 DEF Renew, TypeOK
  <1>4. CASE QuestionArrives(p, j, l)
    <2>1. [Idle EXCEPT !.op = "giveup", !.todo = {j}] \in Handler
      BY IdleType, HandlerColumns, OpsNames, RowTypes
    <2>2. [Begin("park", {j}) EXCEPT !.lease = l] \in Handler
      <3>1. Begin("park", {j}) \in Handler
        BY RowTypes, BeginType, OpsNames DEF TypeOK
      <3>2. QED
        BY <3>1, HandlerColumns
    <2>3. h' \in [Proc -> Handler]
      BY <1>4, <2>1, <2>2, GotoType DEF QuestionArrives, TypeOK
    <2>4. QED
      BY <1>4, <2>3 DEF QuestionArrives, TypeOK
  <1>5. QED
    BY <1>1, <1>2, <1>3, <1>4, <1>6

\* What the coordinator makes of a report.
LEMMA ApplyTypes ==
  ASSUME TypeOK, NEW p \in Proc, NEW j \in Job,
         \/ ApplyOk(p, j) \/ ApplyFailure(p, j) \/ ApplyRetry(p, j)
         \/ ResultUnstored(p, j)
         \/ Enqueue(p, j) \/ Park(p, j) \/ GiveUp(p, j)
  PROVE  TypeOK'
  <1>1. CASE ApplyOk(p, j)
    <2>1. row' \in [Job -> Row] /\ state' \in [Job -> States]
      BY <1>1, WriteStatusType DEF ApplyOk, Terminal
    <2>2. QED
      BY <1>1, <2>1, PublishType, EndType DEF ApplyOk, TypeOK
  <1>2. CASE ApplyFailure(p, j)
    <2>1. row' \in [Job -> Row] /\ state' \in [Job -> States]
      BY <1>2, WriteStatusType DEF ApplyFailure, Terminal
    <2>2. QED
      BY <1>2, <2>1, PublishType, EndType DEF ApplyFailure, TypeOK
  <1>3. CASE ApplyRetry(p, j)
    BY <1>3, RequeueType DEF ApplyRetry, TypeOK
  <1>4. CASE Enqueue(p, j)
    <2>1. told' \in [Job -> SUBSET {"ok", "error"}]
      BY <1>4, PublishType DEF Enqueue, TypeOK
    <2>2. QED
      BY <1>4, <2>1, InsertType, EndType DEF Enqueue, TypeOK
  <1>5. CASE Park(p, j)
    <2>1. row' \in [Job -> Row]
      BY <1>5, RowTypes, RowOperators, UpdateType DEF Park, TypeOK
    <2>2. state' \in [Job -> States]
      BY <1>5, StatusSets, SetStateType DEF Park, TypeOK
    <2>3. QED
      BY <1>5, <2>1, <2>2, EndType DEF Park, TypeOK
  <1>6. CASE GiveUp(p, j)
    BY <1>6, RequeueType DEF GiveUp, TypeOK
  <1>7. CASE ResultUnstored(p, j)
    <2>1. Verdict(h[p].out) \in {"ok", "error"}
      BY DEF Verdict
    <2>2. told' \in [Job -> SUBSET {"ok", "error"}]
      BY <1>7, <2>1, PublishType DEF ResultUnstored, TypeOK
    <2>3. QED
      BY <1>7, <2>2, EndType DEF ResultUnstored, TypeOK
  <1>8. QED
    BY <1>1, <1>2, <1>3, <1>4, <1>5, <1>6, <1>7

\* What callers do.
LEMMA CallerTypes ==
  ASSUME TypeOK, NEW p \in Proc, NEW j \in Job,
         \/ AnswerArrives(p, j) \/ Resume(p, j)
         \/ CancelArrives(p, j) \/ Cancel(p, j)
  PROVE  TypeOK'
  <1>1. CASE AnswerArrives(p, j)
    <2>1. Begin("resume", {j}) \in Handler
      BY RowTypes, BeginType, OpsNames DEF TypeOK
    <2>2. QED
      BY <1>1, <2>1, GotoType DEF AnswerArrives, TypeOK
  <1>2. CASE Resume(p, j)
    <2>1. [Idle EXCEPT !.op = "enqueue", !.todo = {j}] \in Handler
      BY IdleType, HandlerColumns, OpsNames, RowTypes
    <2>2. h' \in [Proc -> Handler]
      BY <1>2, <2>1, GotoType, EndType DEF Resume, TypeOK
    <2>3. Resumed(row[j], h[p].snap[j]) \in Row
      BY RowTypes, HandlerTypes, RowOperators
    <2>4. row' \in [Job -> Row]
      BY <1>2, <2>3, UpdateType DEF Resume, TypeOK
    <2>5. state' \in [Job -> States]
      BY <1>2, StatusSets, SetStateType DEF Resume, TypeOK, Initial
    <2>6. QED
      BY <1>2, <2>2, <2>4, <2>5 DEF Resume, TypeOK
  <1>3. CASE CancelArrives(p, j)
    <2>1. Begin("cancel", {j}) \in Handler
      BY RowTypes, BeginType, OpsNames DEF TypeOK
    <2>2. QED
      BY <1>3, <2>1, GotoType DEF CancelArrives, TypeOK
  <1>4. CASE Cancel(p, j)
    <2>1. row' \in [Job -> Row] /\ state' \in [Job -> States]
      BY <1>4, WriteStatusType DEF Cancel, Terminal
    <2> DEFINE note == IF h[p].snap[j].lease = NoLease THEN {}
                       ELSE {[job |-> j, lease |-> h[p].snap[j].lease]}
    <2>2. note \in SUBSET CancelMsg
      BY HandlerTypes DEF Snapshot, CancelMsg
    <2>3. h' = [h EXCEPT ![p] = [Idle EXCEPT !.op = "tell", !.todo = {j},
                                   !.out = "cancelled", !.note = note]]
      BY <1>4 DEF Cancel, Goto
    <2> HIDE DEF note
    <2>4. [Idle EXCEPT !.op = "tell", !.todo = {j}, !.out = "cancelled",
             !.note = note] \in Handler
      <3>1. "tell" \in Ops \ {"push"} /\ "cancelled" \in Outs
        BY OpsNames DEF Outs
      <3>2. QED
        BY <2>2, <3>1, IdleType, HandlerColumns, RowTypes
    <2>5. h' \in [Proc -> Handler]
      BY <2>3, <2>4 DEF TypeOK
    <2>6. QED
      BY <1>4, <2>1, <2>5 DEF Cancel, TypeOK
  <1>5. QED
    BY <1>1, <1>2, <1>3, <1>4

LEMMA TypeInit == Init => TypeOK
  <1>1. ASSUME Init
        PROVE  TypeOK
    <2>1. row \in [Job -> Row] /\ h \in [Proc -> Handler]
      BY <1>1, NoRowType, IdleType DEF Init
    <2>2. state \in [Job -> States]
      BY <1>1, StatusSets DEF Init, Initial
    <2>3. QED
      BY <1>1, <2>1, <2>2 DEF Init, TypeOK
  <1>2. QED
    BY <1>1

LEMMA TypeStep == TypeOK /\ [Next]_vars => TypeOK'
  <1> SUFFICES ASSUME TypeOK, [Next]_vars
               PROVE  TypeOK'
    OBVIOUS
  <1>1. CASE \E j \in Job : Submit(j) \/ DeadlinePasses(j) \/ JobOverdue(j)
    BY <1>1, EnvironmentTypes
  <1>2. CASE \E p \in Proc : Continue(p) \/ SweepLeases(p) \/ Crash(p)
    BY <1>2, SweepTypes, LeaseWorkerTypes, ReclaimTypes, ApplyTypes,
       CallerTypes
    DEF Continue
  <1>3. CASE \E p \in Proc, w \in Worker : ChannelDown(p, w)
    BY <1>3, SweepTypes
  <1>4. CASE \E p \in Proc, j \in Job :
               \/ LeaseRead(p, j) \/ WorkerReports(p, j)
               \/ AnswerArrives(p, j) \/ CancelArrives(p, j)
    BY <1>4, LeaseWorkerTypes, ReportTypes, CallerTypes
  <1>5. CASE UNCHANGED vars
    BY <1>5 DEF vars, TypeOK
  <1>6. QED
    BY <1>1, <1>2, <1>3, <1>4, <1>5 DEF Next

\* Every variable keeps its type, whatever races whatever, for any number of
\* jobs, workers, processes and lease ids (run jobs_executors checks TypeOK on
\* a small instance).
THEOREM TypeCorrect == Spec => []TypeOK
  BY TypeInit, TypeStep, PTL DEF Spec

----------------------------------------------------------------------------
(* What the statements of jobs.ex do to the columns *)

LEMMA LeasedFields ==
  ASSUME NEW r \in Row, NEW w \in Worker, NEW l \in Lease
  PROVE  /\ Leased(r, w, l).status = "leased"
         /\ Leased(r, w, l).worker = w /\ Leased(r, w, l).lease = l
         /\ Leased(r, w, l).attempts = r.attempts
         /\ Leased(r, w, l).rounds = r.rounds
         /\ Leased(r, w, l).overdue = r.overdue
         /\ Leased(r, w, l).due = r.overdue
  BY DEF Leased, Row

LEMMA RetriedFields ==
  ASSUME NEW r \in Row
  PROVE  /\ Retried(r).status = "pending"
         /\ Retried(r).worker = NoWorker /\ Retried(r).lease = NoLease
         /\ Retried(r).attempts = r.attempts + 1
         /\ Retried(r).rounds = r.rounds
  BY DEF Retried, Row

LEMMA LeaseExpiredFields ==
  ASSUME NEW r \in Row
  PROVE  /\ LeaseExpired(r).status = "failed"
         /\ LeaseExpired(r).worker = NoWorker /\ LeaseExpired(r).lease = NoLease
         /\ LeaseExpired(r).attempts = r.attempts
         /\ LeaseExpired(r).rounds = r.rounds
  BY DEF LeaseExpired, Row

LEMMA ParkedFields ==
  ASSUME NEW r \in Row
  PROVE  /\ Parked(r).status = "awaiting_input"
         /\ Parked(r).worker = NoWorker /\ Parked(r).lease = NoLease
         /\ Parked(r).attempts = r.attempts
         /\ Parked(r).rounds = r.rounds + 1
  BY DEF Parked, Row

LEMMA ResumedFields ==
  ASSUME NEW r \in Row, NEW s \in Snapshot
  PROVE  /\ Resumed(r, s).status = "pending"
         /\ Resumed(r, s).worker = r.worker /\ Resumed(r, s).lease = r.lease
         /\ Resumed(r, s).attempts = r.attempts
         /\ Resumed(r, s).rounds = r.rounds
  BY DEF Resumed, Row

LEMMA FinishedFields ==
  ASSUME NEW r \in Row, NEW st
  PROVE  /\ Finished(r, st).status = st
         /\ Finished(r, st).worker = r.worker /\ Finished(r, st).lease = r.lease
         /\ Finished(r, st).attempts = r.attempts
         /\ Finished(r, st).rounds = r.rounds
  BY DEF Finished, Row

LEMMA NewRowFields ==
  /\ NewRow.status = "pending"
  /\ NewRow.worker = NoWorker /\ NewRow.lease = NoLease
  /\ NewRow.attempts = 0 /\ NewRow.rounds = 0
  BY DEF NewRow, NoRow

LEMMA ClockFields ==
  ASSUME NEW r \in Row, NEW d, NEW e
  PROVE  /\ \A f \in {[r EXCEPT !.due = d], [r EXCEPT !.overdue = e, !.due = d]} :
              /\ f.status = r.status /\ f.worker = r.worker /\ f.lease = r.lease
              /\ f.attempts = r.attempts /\ f.rounds = r.rounds /\ f.due = d
         /\ [r EXCEPT !.due = d].overdue = r.overdue
  BY DEF Row

----------------------------------------------------------------------------
(* Every step is a OneRowStep *)

LEMMA Written ==
  ASSUME TypeOK, NEW j \in Job
  PROVE  /\ \A r : Update(j, r) =>
              /\ row'[j] = r
              /\ \A k \in Job \ {j} : row'[k] = row[k]
         /\ \A st : SetState(j, st) =>
              /\ state'[j] = st
              /\ \A k \in Job \ {j} : state'[k] = state[k]
  BY DEF TypeOK, Update, SetState

\* Handlers that only read, or only move on.
LEMMA QuietSteps ==
  ASSUME TypeOK, NEW p \in Proc, NEW j \in Job,
         \/ LeaseRead(p, j) \/ LeaseLost(p, j) \/ Snooze(p, j)
         \/ PushLease(p, j) \/ SweepLeases(p) \/ ReclaimSkips(p, j)
         \/ ReclaimRollsBack(p, j) \/ Tell(p) \/ ReclaimEnds(p)
         \/ SweepEnds(p) \/ Enqueue(p, j) \/ AnswerArrives(p, j)
         \/ CancelArrives(p, j) \/ Crash(p) \/ ResultUnstored(p, j)
         \/ \E w \in Worker : ChannelDown(p, w)
         \/ \E l \in Lease \cup {NoLease} :
              \/ QuestionArrives(p, j, l)
              \/ \E out \in Reports : \/ ResultArrives(p, j, l, out)
                                      \/ ResultUnread(p, j, l, out)
  PROVE  UNCHANGED <<row, state, issued>>
  BY DEF LeaseRead, LeaseLost, Snooze, PushLease, SweepLeases, ReclaimSkips,
         ReclaimRollsBack, Tell, ReclaimEnds, SweepEnds, Enqueue,
         AnswerArrives, CancelArrives, Crash, ChannelDown, QuestionArrives,
         ResultArrives, ResultUnread, ResultUnstored

LEMMA EnvironmentSteps ==
  ASSUME TypeOK, NEW j \in Job,
         Submit(j) \/ DeadlinePasses(j) \/ JobOverdue(j)
  PROVE  OneRowStep
  <1>1. row[j] \in Row
    BY RowTypes
  <1>2. CASE Submit(j)
    <2>1. Enters(j)
      BY <1>2, Written, NewRowFields
      DEF Submit, Enters, Released, Initial, WorkingStates
    <2>2. QED
      BY <1>2, <2>1, Written DEF Submit, OneRowStep, RowStep
  <1>3. CASE DeadlinePasses(j)
    <2>1. row'[j] = [row[j] EXCEPT !.due = TRUE]
      BY <1>3, Written DEF DeadlinePasses
    <2>2. Ticks(j)
      BY <1>1, <1>3, <2>1, ClockFields
      DEF DeadlinePasses, Ticks, LeaseKept, CountersKept, Open
    <2>3. QED
      BY <1>3, <2>2, Written DEF DeadlinePasses, OneRowStep, RowStep
  <1>4. CASE JobOverdue(j)
    <2> DEFINE d == row[j].due \/ row[j].status = "leased"
    <2>1. row'[j] = [row[j] EXCEPT !.overdue = TRUE, !.due = d]
      BY <1>4, Written DEF JobOverdue
    <2>2. row[j].status = "leased" => d
      OBVIOUS
    <2> HIDE DEF d
    <2>3. Ticks(j)
      BY <1>1, <1>4, <2>1, <2>2, ClockFields
      DEF JobOverdue, IsOpen, Ticks, LeaseKept, CountersKept
    <2>4. QED
      BY <1>4, <2>3, Written DEF JobOverdue, OneRowStep, RowStep
  <1>5. QED
    BY <1>2, <1>3, <1>4

LEMMA LeaseWorkerSteps ==
  ASSUME TypeOK, NEW p \in Proc, NEW j \in Job,
         Expire(p, j) \/ MarkRouting(p, j) \/ MarkLeased(p, j)
  PROVE  OneRowStep
  <1>1. row[j] \in Row
    BY RowTypes
  <1>2. CASE Expire(p, j)
    <2>1. CASE row[j].status = "pending"
      <3>1. IsFinished(j)
        BY <1>1, <1>2, <2>1, Written, FinishedFields
        DEF Expire, IsFinished, Open, Terminal, LeaseKept, CountersKept,
            OverStates
      <3>2. QED
        BY <1>2, <2>1, <3>1, Written DEF Expire, OneRowStep, RowStep
    <2>2. CASE row[j].status # "pending"
      BY <1>2, <2>2 DEF Expire, OneRowStep
    <2>3. QED
      BY <2>1, <2>2
  <1>3. CASE MarkRouting(p, j)
    <2>1. CASE row[j].status = "pending" /\ state[j] = Initial
      <3>1. Stays(j)
        BY <1>3, <2>1, Written DEF MarkRouting, Stays, WorkingStates
      <3>2. QED
        BY <1>3, <2>1, <3>1, Written DEF MarkRouting, OneRowStep, RowStep
    <2>2. CASE ~(row[j].status = "pending" /\ state[j] = Initial)
      BY <1>3, <2>2 DEF MarkRouting, OneRowStep
    <2>3. QED
      BY <2>1, <2>2
  <1>4. CASE MarkLeased(p, j)
    <2>1. PICK w \in Worker, l \in Lease \ issued :
            Update(j, Leased(row[j], w, l)) /\ issued' = issued \cup {l}
      BY <1>4 DEF MarkLeased
    <2>2. IsAssigned(j)
      <3>1. row'[j] = Leased(row[j], w, l) /\ state'[j] = "leased"
        BY <1>4, <2>1, Written DEF MarkLeased
      <3>2. l \in (Lease \cap issued') \ issued /\ row[j].status = "pending"
        BY <1>4, <2>1 DEF MarkLeased
      <3>3. QED
        BY <1>1, <3>1, <3>2, LeasedFields
        DEF IsAssigned, CountersKept, WorkingStates
    <2>3. QED
      BY <1>4, <2>1, <2>2, Written DEF MarkLeased, OneRowStep, RowStep
  <1>5. QED
    BY <1>2, <1>3, <1>4

LEMMA ReclaimSteps ==
  ASSUME TypeOK, NEW p \in Proc, NEW j \in Job,
         \/ ReclaimFails(p, j) \/ ReclaimRetries(p, j) \/ FailUnanswered(p, j)
  PROVE  OneRowStep
  <1>1. row[j] \in Row
    BY RowTypes
  <1>2. CASE ReclaimFails(p, j)
    <2>1. IsExhausted(j)
      BY <1>1, <1>2, Written, LeaseExpiredFields
      DEF ReclaimFails, StillHeld, IsLive, IsExhausted, Released,
          CountersKept, OverStates
    <2>2. QED
      BY <1>2, <2>1, Written DEF ReclaimFails, OneRowStep, RowStep
  <1>3. CASE ReclaimRetries(p, j)
    <2>1. IsRetried(j)
      BY <1>1, <1>3, Written, RetriedFields
      DEF ReclaimRetries, StillHeld, IsLive, IsRetried, Released
    <2>2. QED
      BY <1>3, <2>1, Written DEF ReclaimRetries, OneRowStep, RowStep
  <1>4. CASE FailUnanswered(p, j)
    <2>1. CASE row[j].status = "awaiting_input"
      <3>1. IsFinished(j)
        BY <1>1, <1>4, <2>1, Written, FinishedFields
        DEF FailUnanswered, IsFinished, Open, Terminal, LeaseKept,
            CountersKept, OverStates
      <3>2. QED
        BY <1>4, <2>1, <3>1, Written DEF FailUnanswered, OneRowStep, RowStep
    <2>2. CASE row[j].status # "awaiting_input"
      BY <1>4, <2>2 DEF FailUnanswered, OneRowStep
    <2>3. QED
      BY <2>1, <2>2
  <1>5. QED
    BY <1>2, <1>3, <1>4

LEMMA WriteStatusSteps ==
  ASSUME TypeOK, NEW j \in Job, NEW st \in Terminal, WriteStatus(j, st),
         issued' = issued
  PROVE  OneRowStep
  <1>1. CASE IsOpen(row[j])
    <2>1. row'[j] = Finished(row[j], st) /\ state'[j] \in OverStates
      BY <1>1, Written DEF WriteStatus, Terminal, OverStates
    <2>2. IsFinished(j)
      BY <1>1, <2>1, RowTypes, FinishedFields
      DEF IsOpen, IsFinished, LeaseKept, CountersKept
    <2>3. \A k \in Job \ {j} : row'[k] = row[k] /\ state'[k] = state[k]
      BY <1>1, Written DEF WriteStatus
    <2>4. QED
      BY <2>2, <2>3 DEF OneRowStep, RowStep
  <1>2. CASE ~IsOpen(row[j])
    BY <1>2 DEF WriteStatus, OneRowStep
  <1>3. QED
    BY <1>1, <1>2

LEMMA RequeueSteps ==
  ASSUME TypeOK, NEW p \in Proc, NEW j \in Job, Requeue(p, j),
         issued' = issued
  PROVE  OneRowStep
  <1>1. CASE row[j].status \in {"pending", "leased"}
    <2>1. IsRetried(j)
      BY <1>1, RowTypes, Written, RetriedFields
      DEF Requeue, IsRetried, Released, Initial, WorkingStates
    <2>2. QED
      BY <1>1, <2>1, Written DEF Requeue, OneRowStep, RowStep
  <1>2. CASE row[j].status \notin {"pending", "leased"}
    BY <1>2 DEF Requeue, OneRowStep
  <1>3. QED
    BY <1>1, <1>2

LEMMA ProgressSteps ==
  ASSUME TypeOK, NEW p \in Proc, NEW j \in Job, NEW l, NEW phase \in Phases,
         Progress(p, j, l, phase)
  PROVE  OneRowStep
  <1>1. Stays(j)
    BY Written, JobsAssumption
    DEF Progress, IsLive, Stays, WorkingStates, ReportablePhases
  <1>2. QED
    BY <1>1, Written DEF Progress, OneRowStep, RowStep

LEMMA RenewSteps ==
  ASSUME TypeOK, NEW p \in Proc, NEW j \in Job, NEW l, Renew(p, j, l)
  PROVE  OneRowStep
  <1>1. row'[j] = [row[j] EXCEPT !.due = row[j].overdue]
    BY Written DEF Renew
  <1>2. Ticks(j)
    BY <1>1, RowTypes, ClockFields
    DEF Renew, IsLive, Ticks, LeaseKept, CountersKept, Open
  <1>3. QED
    BY <1>2, Written DEF Renew, OneRowStep, RowStep

LEMMA ApplySteps ==
  ASSUME TypeOK, NEW p \in Proc, NEW j \in Job,
         \/ ApplyOk(p, j) \/ ApplyFailure(p, j) \/ ApplyRetry(p, j)
         \/ Park(p, j) \/ GiveUp(p, j) \/ Resume(p, j) \/ Cancel(p, j)
  PROVE  OneRowStep
  <1>1. CASE ApplyOk(p, j)
    BY <1>1, WriteStatusSteps DEF ApplyOk, Terminal
  <1>2. CASE ApplyFailure(p, j)
    BY <1>2, WriteStatusSteps DEF ApplyFailure, Terminal
  <1>3. CASE ApplyRetry(p, j)
    BY <1>3, RequeueSteps DEF ApplyRetry
  <1>4. CASE Park(p, j)
    <2>1. CASE IsLive(row[j], h[p].lease)
      <3>1. IsParked(j)
        BY <1>4, <2>1, RowTypes, Written, ParkedFields
        DEF Park, IsParked, Released
      <3>2. QED
        BY <1>4, <2>1, <3>1, Written DEF Park, OneRowStep, RowStep
    <2>2. CASE ~IsLive(row[j], h[p].lease)
      BY <1>4, <2>2 DEF Park, OneRowStep
    <2>3. QED
      BY <2>1, <2>2
  <1>5. CASE GiveUp(p, j)
    BY <1>5, RequeueSteps DEF GiveUp
  <1>6. CASE Resume(p, j)
    <2>1. CASE row[j].status = "awaiting_input"
      <3>1. IsResumed(j)
        BY <1>6, <2>1, RowTypes, HandlerTypes, Written, ResumedFields
        DEF Resume, IsResumed, LeaseKept, CountersKept, Initial,
            WorkingStates
      <3>2. QED
        BY <1>6, <2>1, <3>1, Written DEF Resume, OneRowStep, RowStep
    <2>2. CASE row[j].status # "awaiting_input"
      BY <1>6, <2>2 DEF Resume, OneRowStep
    <2>3. QED
      BY <2>1, <2>2
  <1>7. CASE Cancel(p, j)
    BY <1>7, WriteStatusSteps DEF Cancel, Terminal
  <1>8. QED
    BY <1>1, <1>2, <1>3, <1>4, <1>5, <1>6, <1>7

\* One step of the system changes at most one row, in one of nine ways.
LEMMA RowSteps ==
  ASSUME TypeOK, [Next]_vars
  PROVE  OneRowStep
  <1>1. UNCHANGED <<row, state, issued>> => OneRowStep
    BY DEF OneRowStep
  <1>2. CASE \E j \in Job : Submit(j) \/ DeadlinePasses(j) \/ JobOverdue(j)
    BY <1>2, EnvironmentSteps
  <1>3. CASE \E p \in Proc : Continue(p) \/ SweepLeases(p) \/ Crash(p)
    <2>1. PICK p \in Proc : Continue(p) \/ SweepLeases(p) \/ Crash(p)
      BY <1>3
    <2>2. CASE Tell(p) \/ ReclaimEnds(p) \/ SweepEnds(p) \/ SweepLeases(p)
               \/ Crash(p)
      BY <1>1, <2>2
      DEF Tell, ReclaimEnds, SweepEnds, SweepLeases, Crash
    <2>3. ASSUME NEW j \in Job,
            \/ Expire(p, j) \/ MarkRouting(p, j)
            \/ MarkLeased(p, j) \/ LeaseLost(p, j) \/ Snooze(p, j)
            \/ PushLease(p, j)
            \/ ReclaimFails(p, j) \/ ReclaimRetries(p, j) \/ ReclaimSkips(p, j)
            \/ ReclaimRollsBack(p, j) \/ FailUnanswered(p, j)
            \/ ApplyOk(p, j) \/ ApplyFailure(p, j) \/ ApplyRetry(p, j)
            \/ ResultUnstored(p, j)
            \/ Enqueue(p, j) \/ Park(p, j) \/ GiveUp(p, j)
            \/ Resume(p, j) \/ Cancel(p, j)
          PROVE  OneRowStep
      BY <1>1, <2>3, QuietSteps, LeaseWorkerSteps, ReclaimSteps, ApplySteps
    <2>4. QED
      BY <2>1, <2>2, <2>3 DEF Continue
  <1>4. CASE \E p \in Proc, w \in Worker : ChannelDown(p, w)
    BY <1>1, <1>4 DEF ChannelDown
  <1>5. CASE \E p \in Proc, j \in Job :
               \/ LeaseRead(p, j) \/ WorkerReports(p, j)
               \/ AnswerArrives(p, j) \/ CancelArrives(p, j)
    <2>1. PICK p \in Proc, j \in Job :
               \/ LeaseRead(p, j) \/ WorkerReports(p, j)
               \/ AnswerArrives(p, j) \/ CancelArrives(p, j)
      BY <1>5
    <2>2. CASE WorkerReports(p, j)
      <3>1. PICK l \in Lease \cup {NoLease} :
              \/ \E out \in Reports : \/ ResultArrives(p, j, l, out)
                                      \/ ResultUnread(p, j, l, out)
              \/ \E phase \in Phases : Progress(p, j, l, phase)
              \/ Renew(p, j, l)
              \/ QuestionArrives(p, j, l)
        BY <2>2 DEF WorkerReports
      <3>2. QED
        BY <1>1, <3>1, QuietSteps, ProgressSteps, RenewSteps
    <2>3. QED
      BY <1>1, <2>1, <2>2, QuietSteps
  <1>6. CASE UNCHANGED vars
    BY <1>1, <1>6 DEF vars
  <1>7. QED
    BY <1>2, <1>3, <1>4, <1>5, <1>6 DEF Next

----------------------------------------------------------------------------
(* Every step is a HandlerStep of every process *)

EveryHandler == \A q \in Proc : HandlerStep(q)

LEMMA HandlerQuiet ==
  ASSUME h' = h
  PROVE  EveryHandler
  BY DEF EveryHandler, HandlerStep

LEMMA Handled ==
  ASSUME TypeOK, NEW p \in Proc, NEW k, Goto(p, k)
  PROVE  /\ h'[p] = k
         /\ HandlerStep(p) => EveryHandler
  BY DEF TypeOK, Goto, EveryHandler, HandlerStep

\* The three ways a handler moves on, each from what it keeps.
LEMMA Renews ==
  ASSUME TypeOK, NEW p \in Proc, NEW k, Goto(p, k),
         k.snap = NoSnap, k.lease = NoLease,
         \A j \in k.todo : row[j].status # Absent
  PROVE  EveryHandler
  BY Handled DEF HandlerStep, HandlerRenews

LEMMA Reads ==
  ASSUME TypeOK, NEW p \in Proc, NEW k, Goto(p, k), row' = row,
         k.snap = Select(k.todo),
         \A j \in k.todo : row[j].status # Absent,
         IF k.op = "park"
         THEN /\ \E m \in sent : m.lease = k.lease
              /\ \A j \in k.todo : row[j].rounds < MaxRounds
         ELSE k.lease = NoLease
  PROVE  EveryHandler
  BY Handled DEF HandlerStep, HandlerReads

LEMMA GoesOn ==
  ASSUME TypeOK, NEW p \in Proc, NEW k, Goto(p, k),
         k.snap = h[p].snap, k.lease = h[p].lease,
         k.todo \subseteq h[p].todo, k.op # "park",
         k.op \in {"reclaim", "tell"} => h[p].op \in {"reclaim", "tell"}
  PROVE  EveryHandler
  BY Handled DEF HandlerStep, HandlerGoesOn

LEMMA HandlerEnds ==
  ASSUME TypeOK, NEW p \in Proc, End(p)
  PROVE  EveryHandler
  <1>1. Idle.snap = NoSnap /\ Idle.lease = NoLease /\ Idle.todo = {}
    BY DEF Idle
  <1>2. QED
    BY <1>1, Renews DEF End

LEMMA LeaseWorkerHandlers ==
  ASSUME TypeOK, NEW p \in Proc, NEW j \in Job,
         \/ LeaseRead(p, j) \/ Expire(p, j) \/ MarkRouting(p, j)
         \/ MarkLeased(p, j) \/ LeaseLost(p, j) \/ Snooze(p, j)
         \/ PushLease(p, j)
  PROVE  EveryHandler
  <1>1. CASE LeaseRead(p, j)
    <2>1. CASE row[j].status = "pending"
      <3>1. PICK op \in {"expire", "route"} :
              Goto(p, [Idle EXCEPT !.todo = {j}, !.op = op])
        BY <1>1, <2>1 DEF LeaseRead
      <3> DEFINE k == [Idle EXCEPT !.todo = {j}, !.op = op]
      <3>2. k.snap = NoSnap /\ k.lease = NoLease /\ k.todo = {j}
        BY DEF Idle
      <3>3. Goto(p, k)
        BY <3>1
      <3> HIDE DEF k
      <3>4. QED
        BY <2>1, <3>2, <3>3, Renews DEF Absent
    <2>2. CASE row[j].status # "pending"
      BY <1>1, <2>2, HandlerQuiet DEF LeaseRead
    <2>3. QED
      BY <2>1, <2>2
  <1>2. CASE MarkRouting(p, j)
    <2> DEFINE k == [h[p] EXCEPT !.op = "assign"]
    <2>1. k.snap = h[p].snap /\ k.lease = h[p].lease /\ k.todo = h[p].todo
          /\ k.op = "assign"
      BY HandlerTypes DEF Handler
    <2>2. Goto(p, k)
      BY <1>2 DEF MarkRouting
    <2> HIDE DEF k
    <2>3. QED
      BY <2>1, <2>2, GoesOn
  <1>3. CASE MarkLeased(p, j)
    <2>1. PICK w \in Worker :
            Goto(p, [Idle EXCEPT !.op = "push", !.todo = {j}, !.worker = w])
      BY <1>3 DEF MarkLeased
    <2> DEFINE k == [Idle EXCEPT !.op = "push", !.todo = {j}, !.worker = w]
    <2>2. k.snap = NoSnap /\ k.lease = NoLease /\ k.todo = {j}
      BY DEF Idle
    <2>3. Goto(p, k) /\ row[j].status # Absent
      BY <1>3, <2>1 DEF MarkLeased, Absent
    <2> HIDE DEF k
    <2>4. QED
      BY <2>2, <2>3, Renews
  <1>4. CASE Expire(p, j) \/ LeaseLost(p, j) \/ Snooze(p, j) \/ PushLease(p, j)
    BY <1>4, HandlerEnds DEF Expire, LeaseLost, Snooze, PushLease
  <1>5. QED
    BY <1>1, <1>2, <1>3, <1>4

LEMMA SweepHandlers ==
  ASSUME TypeOK, NEW p \in Proc,
         \/ SweepLeases(p) \/ Tell(p) \/ ReclaimEnds(p) \/ SweepEnds(p)
         \/ Crash(p) \/ \E w \in Worker : ChannelDown(p, w)
  PROVE  EveryHandler
  <1>1. ASSUME row' = row, NEW S \in SUBSET Job, NEW why,
               Goto(p, [Begin("reclaim", S) EXCEPT !.out = why]),
               \A j \in S : row[j].status = "leased"
        PROVE  EveryHandler
    <2> DEFINE k == [Begin("reclaim", S) EXCEPT !.out = why]
    <2>1. /\ k.op = "reclaim" /\ k.todo = S
          /\ k.snap = Select(S) /\ k.lease = NoLease
      BY DEF Begin, Idle
    <2>2. Goto(p, k)
      BY <1>1
    <2> HIDE DEF k
    <2>3. QED
      BY <1>1, <2>1, <2>2, Reads DEF Absent
  <1>2. CASE SweepLeases(p)
    BY SMTT(30), <1>1, <1>2 DEF SweepLeases
  <1>3. CASE \E w \in Worker : ChannelDown(p, w)
    BY <1>1, <1>3 DEF ChannelDown
  <1>4. CASE Tell(p)
    <2>1. CASE h[p].out = "cancelled"
      BY <1>4, <2>1, HandlerEnds DEF Tell
    <2>2. CASE h[p].out # "cancelled"
      <3> DEFINE k == [h[p] EXCEPT !.op = "reclaim", !.note = {}]
      <3>1. k.snap = h[p].snap /\ k.lease = h[p].lease /\ k.todo = h[p].todo
            /\ k.op = "reclaim"
        BY HandlerTypes DEF Handler
      <3>2. Goto(p, k) /\ h[p].op = "tell"
        BY <1>4, <2>2 DEF Tell
      <3> HIDE DEF k
      <3>3. QED
        BY <3>1, <3>2, GoesOn
    <2>3. QED
      BY <2>1, <2>2
  <1>5. CASE ReclaimEnds(p)
    <2>1. CASE h[p].out = "sweep"
      <3> DEFINE late == {j \in Job : /\ row[j].status = "awaiting_input"
                                      /\ row[j].due}
                 k == [Idle EXCEPT !.op = "unanswered", !.todo = late]
      <3>1. Goto(p, k)
        BY <1>5, <2>1 DEF ReclaimEnds
      <3>2. \A j \in late : row[j].status # Absent
        BY DEF Absent
      <3> HIDE DEF late
      <3>3. k.snap = NoSnap /\ k.lease = NoLease /\ k.todo = late
        BY DEF Idle
      <3> HIDE DEF k
      <3>4. QED
        BY <3>1, <3>2, <3>3, Renews
    <2>2. CASE h[p].out # "sweep"
      BY <1>5, <2>2, HandlerEnds DEF ReclaimEnds
    <2>3. QED
      BY <2>1, <2>2
  <1>6. CASE SweepEnds(p) \/ Crash(p)
    BY <1>6, HandlerEnds DEF SweepEnds, Crash
  <1>7. QED
    BY <1>2, <1>3, <1>4, <1>5, <1>6

LEMMA ReclaimHandlers ==
  ASSUME TypeOK, NEW p \in Proc, NEW j \in Job,
         \/ ReclaimFails(p, j) \/ ReclaimRetries(p, j) \/ ReclaimSkips(p, j)
         \/ ReclaimRollsBack(p, j) \/ FailUnanswered(p, j)
  PROVE  EveryHandler
  <1>1. CASE ReclaimFails(p, j) \/ ReclaimRetries(p, j)
    <2> DEFINE n == {[job |-> j, lease |-> h[p].snap[j].lease]}
    <2> HIDE DEF n
    <2> DEFINE k == [h[p] EXCEPT !.op = "tell", !.todo = @ \ {j}, !.note = n]
    <2>1. Goto(p, k) /\ h[p].op = "reclaim"
      BY <1>1 DEF ReclaimFails, ReclaimRetries, Working, ThenTell, n
    <2>2. k.snap = h[p].snap /\ k.lease = h[p].lease
          /\ k.todo = h[p].todo \ {j} /\ k.op = "tell"
      BY HandlerTypes DEF Handler
    <2> HIDE DEF k
    <2>3. QED
      BY <2>1, <2>2, GoesOn
  <1>2. CASE ReclaimSkips(p, j) \/ FailUnanswered(p, j)
    <2> DEFINE k == [h[p] EXCEPT !.todo = @ \ {j}]
    <2>1. Goto(p, k) /\ h[p].op \in {"reclaim", "unanswered"}
      BY <1>2 DEF ReclaimSkips, FailUnanswered, Working
    <2>2. k.snap = h[p].snap /\ k.lease = h[p].lease
          /\ k.todo = h[p].todo \ {j} /\ k.op = h[p].op
      BY HandlerTypes DEF Handler
    <2> HIDE DEF k
    <2>3. QED
      BY <2>1, <2>2, GoesOn
  <1>3. CASE ReclaimRollsBack(p, j)
    <2> DEFINE k == [h[p] EXCEPT !.todo = @ \ {j}, !.out = "down"]
    <2>1. Goto(p, k) /\ h[p].op = "reclaim"
      BY <1>3 DEF ReclaimRollsBack, Working
    <2>2. k.snap = h[p].snap /\ k.lease = h[p].lease
          /\ k.todo = h[p].todo \ {j} /\ k.op = h[p].op
      BY HandlerTypes DEF Handler
    <2> HIDE DEF k
    <2>3. QED
      BY <2>1, <2>2, GoesOn
  <1>4. QED
    BY <1>1, <1>2, <1>3

LEMMA ReportHandlers ==
  ASSUME TypeOK, Submitted, NEW p \in Proc, NEW j \in Job, WorkerReports(p, j)
  PROVE  EveryHandler
  <1>1. PICK l \in Lease \cup {NoLease} :
          \/ \E out \in Reports : \/ ResultArrives(p, j, l, out)
                                  \/ ResultUnread(p, j, l, out)
          \/ \E phase \in Phases : Progress(p, j, l, phase)
          \/ Renew(p, j, l)
          \/ QuestionArrives(p, j, l)
    BY DEF WorkerReports
  <1>2. Delivered(j, l) => row[j].status # Absent
    BY DEF Delivered, Submitted
  <1>3. ASSUME NEW out \in Reports, ResultArrives(p, j, l, out)
        PROVE  EveryHandler
    <2>1. CASE h' = h
      BY <2>1, HandlerQuiet
    <2>2. CASE Goto(p, [Begin("apply", {j}) EXCEPT !.out = out])
      <3> DEFINE k == [Begin("apply", {j}) EXCEPT !.out = out]
      <3>1. /\ k.op = "apply" /\ k.todo = {j}
            /\ k.snap = Select({j}) /\ k.lease = NoLease
        BY DEF Begin, Idle
      <3>2. Goto(p, k) /\ row' = row /\ row[j].status # Absent
        BY <1>2, <1>3, <2>2 DEF ResultArrives
      <3> HIDE DEF k
      <3>3. QED
        BY <3>1, <3>2, Reads
    <2>3. QED
      BY <1>3, <2>1, <2>2 DEF ResultArrives
  <1>4. ASSUME QuestionArrives(p, j, l)
        PROVE  EveryHandler
    <2>1. row' = row /\ row[j].status # Absent
      BY <1>2, <1>4 DEF QuestionArrives
    <2>2. CASE row[j].rounds >= MaxRounds
      <3> DEFINE k == [Idle EXCEPT !.op = "giveup", !.todo = {j}]
      <3>1. k.snap = NoSnap /\ k.lease = NoLease /\ k.todo = {j}
        BY DEF Idle
      <3>2. Goto(p, k)
        BY <1>4, <2>2 DEF QuestionArrives
      <3> HIDE DEF k
      <3>3. QED
        BY <2>1, <3>1, <3>2, Renews
    <2>3. CASE ~(row[j].rounds >= MaxRounds)
      <3> DEFINE k == [Begin("park", {j}) EXCEPT !.lease = l]
      <3>1. Goto(p, k)
        BY <1>4, <2>3 DEF QuestionArrives
      <3>2. row[j].rounds < MaxRounds
        BY <2>3, RowTypes, RowFields, JobsAssumption
      <3>3. \E m \in sent : m.lease = l
        BY <1>4 DEF QuestionArrives, Delivered
      <3>4. k.op = "park" /\ k.todo = {j} /\ k.snap = Select({j}) /\ k.lease = l
        BY DEF Begin, Idle
      <3> HIDE DEF k
      <3>5. QED
        BY <2>1, <3>1, <3>2, <3>3, <3>4, Reads
    <2>4. QED
      BY <2>2, <2>3
  <1>5. QED
    BY <1>1, <1>3, <1>4, HandlerQuiet DEF Progress, Renew, ResultUnread

LEMMA RequeueHandlers ==
  ASSUME TypeOK, NEW p \in Proc, NEW j \in Job, Requeue(p, j)
  PROVE  EveryHandler
  <1>1. CASE row[j].status \in {"pending", "leased"}
    <2> DEFINE o == h[p].out
    <2> HIDE DEF o
    <2> DEFINE k == [Idle EXCEPT !.op = "enqueue", !.todo = {j}, !.out = o]
    <2>1. Goto(p, k)
      BY <1>1 DEF Requeue, o
    <2>2. k.snap = NoSnap /\ k.lease = NoLease /\ k.todo = {j}
      BY DEF Idle
    <2> HIDE DEF k
    <2>3. QED
      BY <1>1, <2>1, <2>2, Renews DEF Absent
  <1>2. CASE row[j].status \notin {"pending", "leased"}
    BY <1>2, HandlerEnds DEF Requeue
  <1>3. QED
    BY <1>1, <1>2

LEMMA ApplyHandlers ==
  ASSUME TypeOK, Submitted, NEW p \in Proc, NEW j \in Job,
         \/ ApplyOk(p, j) \/ ApplyFailure(p, j) \/ ApplyRetry(p, j)
         \/ ResultUnstored(p, j)
         \/ Enqueue(p, j) \/ Park(p, j) \/ GiveUp(p, j)
         \/ AnswerArrives(p, j) \/ Resume(p, j)
         \/ CancelArrives(p, j) \/ Cancel(p, j)
  PROVE  EveryHandler
  <1>1. CASE \/ ApplyOk(p, j) \/ ApplyFailure(p, j) \/ Enqueue(p, j)
             \/ Park(p, j) \/ ResultUnstored(p, j)
    BY <1>1, HandlerEnds
    DEF ApplyOk, ApplyFailure, Enqueue, Park, ResultUnstored
  <1>2. CASE ApplyRetry(p, j) \/ GiveUp(p, j)
    BY <1>2, RequeueHandlers DEF ApplyRetry, GiveUp
  <1>3. CASE AnswerArrives(p, j)
    <2> DEFINE k == Begin("resume", {j})
    <2>1. row[j].status # Absent /\ row' = row /\ Goto(p, k)
      BY <1>3 DEF AnswerArrives, Absent
    <2>2. /\ k.op = "resume" /\ k.todo = {j}
          /\ k.snap = Select({j}) /\ k.lease = NoLease
      BY DEF Begin, Idle
    <2> HIDE DEF k
    <2>3. QED
      BY <2>1, <2>2, Reads
  <1>4. CASE CancelArrives(p, j)
    <2> DEFINE k == Begin("cancel", {j})
    <2>1. row[j].status # Absent /\ row' = row /\ Goto(p, k)
      BY <1>4 DEF CancelArrives, IsOpen, Open, Absent
    <2>2. /\ k.op = "cancel" /\ k.todo = {j}
          /\ k.snap = Select({j}) /\ k.lease = NoLease
      BY DEF Begin, Idle
    <2> HIDE DEF k
    <2>3. QED
      BY <2>1, <2>2, Reads
  <1>5. CASE Resume(p, j)
    <2>1. CASE row[j].status = "awaiting_input"
      <3> DEFINE k == [Idle EXCEPT !.op = "enqueue", !.todo = {j}]
      <3>1. Goto(p, k)
        BY <1>5, <2>1 DEF Resume
      <3>2. k.snap = NoSnap /\ k.lease = NoLease /\ k.todo = {j}
        BY DEF Idle
      <3> HIDE DEF k
      <3>3. QED
        BY <2>1, <3>1, <3>2, Renews DEF Absent
    <2>2. CASE row[j].status # "awaiting_input"
      BY <1>5, <2>2, HandlerEnds DEF Resume
    <2>3. QED
      BY <2>1, <2>2
  <1>6. CASE Cancel(p, j)
    <2>1. PICK note : Goto(p, [Idle EXCEPT !.op = "tell", !.todo = {j},
                                 !.out = "cancelled", !.note = note])
      BY <1>6 DEF Cancel
    <2> DEFINE k == [Idle EXCEPT !.op = "tell", !.todo = {j},
                               !.out = "cancelled", !.note = note]
    <2>2. k.snap = NoSnap /\ k.lease = NoLease /\ k.todo = {j}
      BY DEF Idle
    <2>3. Goto(p, k) /\ row[j].status # Absent
      BY <1>6, <2>1 DEF Cancel, Working, Submitted
    <2> HIDE DEF k
    <2>4. QED
      BY <2>2, <2>3, Renews
  <1>7. QED
    BY <1>1, <1>2, <1>3, <1>4, <1>5, <1>6

LEMMA HandlerSteps ==
  ASSUME TypeOK, Submitted, [Next]_vars
  PROVE  EveryHandler
  <1>1. CASE \E j \in Job : Submit(j) \/ DeadlinePasses(j) \/ JobOverdue(j)
    BY <1>1, HandlerQuiet DEF Submit, DeadlinePasses, JobOverdue
  <1>2. CASE \E p \in Proc : Continue(p) \/ SweepLeases(p) \/ Crash(p)
    BY <1>2, SweepHandlers, LeaseWorkerHandlers, ReclaimHandlers, ApplyHandlers
    DEF Continue
  <1>3. CASE \E p \in Proc, w \in Worker : ChannelDown(p, w)
    BY <1>3, SweepHandlers
  <1>4. CASE \E p \in Proc, j \in Job :
               \/ LeaseRead(p, j) \/ WorkerReports(p, j)
               \/ AnswerArrives(p, j) \/ CancelArrives(p, j)
    BY <1>4, LeaseWorkerHandlers, ReportHandlers, ApplyHandlers
  <1>5. CASE UNCHANGED vars
    BY <1>5, HandlerQuiet DEF vars
  <1>6. QED
    BY <1>1, <1>2, <1>3, <1>4, <1>5 DEF Next

----------------------------------------------------------------------------
(* What is sent, and what a caller is told *)

\* Only PushLease sends, and where channels store what they publish only
\* ApplyOk publishes an "ok" that was not there before for a job that was not
\* over.
OkHasEnded(j) == ChannelsStore /\ "ok" \in told'[j] =>
                   "ok" \in told[j] \/ row'[j].status \in Terminal

SendOrTell == SendStep /\ \A j \in Job : OkHasEnded(j)

LEMMA Untold ==
  ASSUME sent' = sent, told' = told
  PROVE  SendOrTell
  BY DEF SendOrTell, SendStep, OkHasEnded

LEMMA ToldError ==
  ASSUME TypeOK, NEW j \in Job, sent' = sent, Publish(j, "error")
  PROVE  SendOrTell
  BY DEF TypeOK, Publish, SendOrTell, SendStep, OkHasEnded

LEMMA ToldOk ==
  ASSUME TypeOK, NEW j \in Job, sent' = sent, Publish(j, "ok"),
         row'[j].status \in Terminal
  PROVE  SendOrTell
  BY DEF TypeOK, Publish, SendOrTell, SendStep, OkHasEnded

LEMMA ToldUnstored ==
  ASSUME ~ChannelsStore, sent' = sent
  PROVE  SendOrTell
  BY DEF SendOrTell, SendStep, OkHasEnded

LEMMA RequeueTells ==
  ASSUME TypeOK, NEW p \in Proc, NEW j \in Job, Requeue(p, j), sent' = sent
  PROVE  SendOrTell
  BY Untold, ToldError DEF Requeue

LEMMA ActionTells ==
  ASSUME TypeOK, Submitted, NEW p \in Proc, NEW j \in Job,
         \/ Expire(p, j) \/ MarkRouting(p, j)
         \/ MarkLeased(p, j) \/ LeaseLost(p, j) \/ Snooze(p, j)
         \/ PushLease(p, j)
         \/ ReclaimFails(p, j) \/ ReclaimRetries(p, j) \/ ReclaimSkips(p, j)
         \/ ReclaimRollsBack(p, j) \/ FailUnanswered(p, j)
         \/ ApplyOk(p, j) \/ ApplyFailure(p, j) \/ ApplyRetry(p, j)
         \/ ResultUnstored(p, j)
         \/ Enqueue(p, j) \/ Park(p, j) \/ GiveUp(p, j)
         \/ Resume(p, j) \/ Cancel(p, j)
  PROVE  SendOrTell
  <1>1. CASE Expire(p, j) \/ ReclaimFails(p, j) \/ FailUnanswered(p, j)
             \/ ApplyFailure(p, j)
    BY <1>1, Untold, ToldError
    DEF Expire, ReclaimFails, FailUnanswered, ApplyFailure
  <1>2. CASE MarkRouting(p, j) \/ MarkLeased(p, j) \/ LeaseLost(p, j)
             \/ Snooze(p, j) \/ ReclaimRetries(p, j) \/ ReclaimSkips(p, j)
             \/ ReclaimRollsBack(p, j) \/ Park(p, j) \/ Resume(p, j)
             \/ Cancel(p, j)
    BY <1>2, Untold
    DEF MarkRouting, MarkLeased, LeaseLost, Snooze, ReclaimRetries,
        ReclaimSkips, ReclaimRollsBack, Park, Resume, Cancel
  <1>3. CASE PushLease(p, j)
    <2>1. h[p].worker \in Worker /\ j \in h[p].todo
      BY <1>3, HandlerTypes DEF PushLease, Working, Handler
    <2>2. SendStep
      BY <1>3, <2>1 DEF PushLease, SendStep
    <2>3. QED
      BY <1>3, <2>2 DEF PushLease, SendOrTell, OkHasEnded
  <1>4. CASE ApplyOk(p, j)
    <2>1. row[j].status \in Open \cup Terminal
      BY <1>4, RowTypes, RowFields, StatusSets
      DEF ApplyOk, Working, Submitted, Open, Terminal
    <2>2. row'[j].status \in Terminal
      <3>1. CASE IsOpen(row[j])
        BY <1>4, <3>1, RowTypes, Written, FinishedFields
        DEF ApplyOk, WriteStatus, Terminal
      <3>2. CASE ~IsOpen(row[j])
        BY <1>4, <2>1, <3>2 DEF ApplyOk, WriteStatus, IsOpen
      <3>3. QED
        BY <3>1, <3>2
    <2>3. QED
      BY <1>4, <2>2, ToldOk DEF ApplyOk
  <1>5. CASE ApplyRetry(p, j) \/ GiveUp(p, j)
    BY <1>5, RequeueTells DEF ApplyRetry, GiveUp
  <1>6. CASE Enqueue(p, j)
    BY <1>6, Untold, ToldError DEF Enqueue
  <1>7. CASE ResultUnstored(p, j)
    BY <1>7, ToldUnstored DEF ResultUnstored, ChannelsStore
  <1>8. QED
    BY <1>1, <1>2, <1>3, <1>4, <1>5, <1>6, <1>7

LEMMA ReportTells ==
  ASSUME TypeOK, NEW p \in Proc, NEW j \in Job, WorkerReports(p, j)
  PROVE  SendOrTell
  <1>1. PICK l \in Lease \cup {NoLease} :
          \/ \E out \in Reports : \/ ResultArrives(p, j, l, out)
                                  \/ ResultUnread(p, j, l, out)
          \/ \E phase \in Phases : Progress(p, j, l, phase)
          \/ Renew(p, j, l)
          \/ QuestionArrives(p, j, l)
    BY DEF WorkerReports
  <1>2. ASSUME NEW out \in Reports, ResultArrives(p, j, l, out)
        PROVE  SendOrTell
    <2>1. CASE row[j].status = "cancelled"
      <3>1. sent' = sent /\ Publish(j, Verdict(out)) /\ row' = row
        BY <1>2, <2>1 DEF ResultArrives
      <3>2. QED
        BY <2>1, <3>1, ToldOk, ToldError DEF Verdict, Terminal
    <2>2. CASE row[j].status # "cancelled"
      BY <1>2, <2>2, Untold, ToldError DEF ResultArrives
    <2>3. QED
      BY <2>1, <2>2
  <1>3. QED
    BY <1>1, <1>2, Untold, ToldUnstored
    DEF Progress, Renew, QuestionArrives, ResultUnread, ChannelsStore

LEMMA TellSteps ==
  ASSUME TypeOK, Submitted, [Next]_vars
  PROVE  SendOrTell
  <1>1. CASE \E j \in Job : Submit(j) \/ DeadlinePasses(j) \/ JobOverdue(j)
    BY <1>1, Untold DEF Submit, DeadlinePasses, JobOverdue
  <1>2. CASE \E p \in Proc : Continue(p) \/ SweepLeases(p) \/ Crash(p)
    <2>1. PICK p \in Proc : Continue(p) \/ SweepLeases(p) \/ Crash(p)
      BY <1>2
    <2>2. CASE Tell(p) \/ ReclaimEnds(p) \/ SweepEnds(p) \/ SweepLeases(p)
               \/ Crash(p)
      BY <2>2, Untold DEF Tell, ReclaimEnds, SweepEnds, SweepLeases, Crash
    <2>3. QED
      BY <2>1, <2>2, ActionTells DEF Continue
  <1>3. CASE \E p \in Proc, w \in Worker : ChannelDown(p, w)
    BY <1>3, Untold DEF ChannelDown
  <1>4. CASE \E p \in Proc, j \in Job :
               \/ LeaseRead(p, j) \/ WorkerReports(p, j)
               \/ AnswerArrives(p, j) \/ CancelArrives(p, j)
    BY <1>4, ReportTells, Untold DEF LeaseRead, AnswerArrives, CancelArrives
  <1>5. CASE UNCHANGED vars
    BY <1>5, Untold DEF vars
  <1>6. QED
    BY <1>1, <1>2, <1>3, <1>4, <1>5 DEF Next
=============================================================================
