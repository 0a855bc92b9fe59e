------------------------------- MODULE Jobs -------------------------------
(***************************************************************************)
(* The durable job row of the coordinator and everything that writes it:   *)
(* Coordinator.Jobs (jobs.ex), the Oban job that assigns a lease           *)
(* (lease_worker.ex), the sweeper (lease_sweeper.ex), and the channel and  *)
(* caller entry points that reach Jobs (worker_session.ex).                *)
(*                                                                         *)
(* One step is one database statement or transaction.  A handler that      *)
(* reads a row and then writes it takes two steps, and every other process *)
(* may run between them; the write is the conditional UPDATE of the code,  *)
(* so its guard is over the row as it is NOW, while everything else it     *)
(* uses comes from the snapshot the handler read.                          *)
(*                                                                         *)
(* Time is two flags per row.  `due`: the deadline of the current status   *)
(* has passed (lease_expires_at while leased, awaiting_input_until while   *)
(* parked).  `overdue`: the caller's deadline expires_at has passed.       *)
(***************************************************************************)
EXTENDS JobStates, Integers, FiniteSets

CONSTANTS
  Job,           \* job ids
  Worker,        \* worker ids
  Lease,         \* lease ids gen_lease_id may return
  NoWorker, NoLease,
  Slot,          \* concurrent executors of the Oban queue `leases`
  Channel,       \* worker channel processes
  Caller,        \* processes that cancel a job or answer its question
  Phases,        \* the phases workers report here
  Reports,       \* the results workers report here
  Budgeted,      \* jobs with a token budget that may be spent
  MaxAttempts,   \* @max_attempts
  MaxRounds,     \* :max_input_rounds
  Fallible,      \* processes that may crash, or whose database calls may fail
  AttemptBound   \* bound: no worker reports on a job with more attempts

Proc == Slot \cup Channel \cup Caller

ASSUME JobsAssumption ==
  /\ NoWorker \notin Worker
  /\ NoLease \notin Lease
  /\ Phases \subseteq ReportablePhases
  /\ Reports \subseteq {"ok", "error", "too_large"}
  /\ Budgeted \subseteq Job
  /\ Fallible \subseteq Proc
  /\ MaxAttempts \in Nat
  /\ MaxRounds \in Nat
  /\ AttemptBound \in Nat
  /\ Slot \cap Channel = {}
  /\ Slot \cap Caller = {}
  /\ Channel \cap Caller = {}

VARIABLES
  row,      \* the columns of each job's row that guards and decisions read
  state,    \* its observational column
  oban,     \* how many lease-assignment Oban jobs wait for each job
  issued,   \* lease ids generated so far
  sent,     \* "job" messages pushed to workers, ever
  cancels,  \* "cancel" messages pushed to workers, ever
  told,     \* what was published on each job's result topic
  h         \* what each process is in the middle of

vars == <<row, state, oban, issued, sent, cancels, told, h>>

----------------------------------------------------------------------------
(* Rows *)

Row == [status      : Statuses \cup {Absent},
        worker      : Worker \cup {NoWorker},
        lease       : Lease \cup {NoLease},
        attempts    : Nat,
        rounds      : Nat,
        due         : BOOLEAN,
        overdue     : BOOLEAN,
        parkOverdue : BOOLEAN]   \* expires_at had passed when it was parked

NoRow == [status |-> Absent, worker |-> NoWorker, lease |-> NoLease,
          attempts |-> 0, rounds |-> 0,
          due |-> FALSE, overdue |-> FALSE, parkOverdue |-> FALSE]

\* The SET lists of the UPDATE statements, one operator per statement.
NewRow == [NoRow EXCEPT !.status = "pending"]

Leased(r, w, l) ==
  [r EXCEPT !.status = "leased", !.worker = w, !.lease = l, !.due = r.overdue]

\* reclaim_lease and requeue clear the lease and spend an attempt.
Retried(r) ==
  [r EXCEPT !.status = "pending", !.worker = NoWorker, !.lease = NoLease,
            !.attempts = @ + 1, !.due = FALSE]

\* reclaim_lease with no attempt left: the only terminal write that clears
\* the lease columns.
LeaseExpired(r) ==
  [r EXCEPT !.status = "failed", !.worker = NoWorker, !.lease = NoLease,
            !.due = FALSE]

\* Mutation: parking leaves the generation on the row.
ParkedStillHeld(r) ==
  [r EXCEPT !.status = "awaiting_input", !.rounds = @ + 1, !.due = FALSE,
            !.parkOverdue = r.overdue]

Parked(r) ==
  [r EXCEPT !.status = "awaiting_input", !.worker = NoWorker,
            !.lease = NoLease, !.rounds = @ + 1, !.due = FALSE,
            !.parkOverdue = r.overdue]

\* do_resume moves expires_at by the time spent waiting, measured from the
\* snapshot `s`: what was left of the deadline when `s` was parked is left now.
Resumed(r, s) ==
  [r EXCEPT !.status = "pending", !.due = FALSE, !.overdue = s.parkOverdue]

Finished(r, status) == [r EXCEPT !.status = status, !.due = FALSE]

IsLive(r, l) == r.status = "leased" /\ r.lease = l /\ l # NoLease
IsOpen(r)    == r.status \in Open

----------------------------------------------------------------------------
(* Handlers *)

LeaseOps == {"route", "assign", "expire", "push"}
Ops == LeaseOps \cup
       {"idle", "reclaim", "unanswered", "tell", "apply", "enqueue",
        "park", "giveup", "resume", "cancel"}
Outs == {"none", "ok", "error", "too_large", "sweep", "down", "cancelled"}

JobMsg    == [to : Worker, job : Job, lease : Lease \cup {NoLease}]
CancelMsg == [job : Job, lease : Lease]

\* What a handler keeps of a row it read: the columns it uses later.
Snapshot == [lease : Lease \cup {NoLease}, attempts : Nat, rounds : Nat,
             parkOverdue : BOOLEAN]

\* One about to push a lease has chosen the worker.
Handler ==
  {k \in [op     : Ops,
          todo   : SUBSET Job,          \* the jobs it is working on
          snap   : [Job -> Snapshot],   \* the rows it read
          lease  : Lease \cup {NoLease},\* the lease its request names
          worker : Worker \cup {NoWorker},
          out    : Outs,                \* the result, or why it reclaims
          note   : SUBSET CancelMsg] :  \* cancels it is about to send
     k.op = "push" => k.worker \in Worker}

SnapOf(r) == [lease |-> r.lease, attempts |-> r.attempts,
              rounds |-> r.rounds, parkOverdue |-> r.parkOverdue]
NoSnap == [j \in Job |-> SnapOf(NoRow)]
Idle == [op |-> "idle", todo |-> {}, snap |-> NoSnap, lease |-> NoLease,
         worker |-> NoWorker, out |-> "none", note |-> {}]

\* What a SELECT of the rows in S returns.
Select(S) == [j \in Job |-> SnapOf(IF j \in S THEN row[j] ELSE NoRow)]

Begin(op, S) == [Idle EXCEPT !.op = op, !.todo = S, !.snap = Select(S)]

Working(p, op, j) == h[p].op = op /\ j \in h[p].todo
IsIdle(p)  == h[p].op = "idle"
Goto(p, hr) == h' = [h EXCEPT ![p] = hr]
End(p)      == Goto(p, Idle)

Update(j, r)     == row' = [row EXCEPT ![j] = r]
SetState(j, st)  == state' = [state EXCEPT ![j] = st]
InsertLeaseJob(j) == oban' = [oban EXCEPT ![j] = @ + 1]
Publish(j, what) == told' = [told EXCEPT ![j] = @ \cup {what}]

\* How a result reads on the result topic.
Verdict(out) == IF out = "ok" THEN "ok" ELSE "error"
IsResult(out) == out \in {"ok", "error", "too_large"}

Delivered(j, l) == \E m \in sent : m.job = j /\ m.lease = l

\* Bound on the model, not a guard of the code: workers stop reporting on a
\* job once it has spent this many attempts.
WithinBound(j) == row[j].attempts <= AttemptBound

----------------------------------------------------------------------------
(* Submission and time *)

\* enqueue/1: the row and its first Oban job in one transaction.
Submit(j) ==
  /\ row[j].status = Absent
  /\ Update(j, NewRow)
  /\ SetState(j, Initial)
  /\ InsertLeaseJob(j)
  /\ UNCHANGED <<issued, sent, cancels, told, h>>

\* The deadline of the current status passes.
DeadlinePasses(j) ==
  /\ row[j].status \in {"leased", "awaiting_input"}
  /\ ~row[j].due
  /\ Update(j, [row[j] EXCEPT !.due = TRUE])
  /\ UNCHANGED <<state, oban, issued, sent, cancels, told, h>>

\* expires_at passes.  lease_deadline/2 never grants a lease past it.
JobOverdue(j) ==
  /\ IsOpen(row[j])
  /\ ~row[j].overdue
  /\ Update(j, [row[j] EXCEPT !.overdue = TRUE,
                              !.due = @ \/ row[j].status = "leased"])
  /\ UNCHANGED <<state, oban, issued, sent, cancels, told, h>>

----------------------------------------------------------------------------
(* LeaseWorker.perform/1, run by an Oban executor *)

\* Mutation: two executors may fetch the same Oban job.
LeaseReadUnclaimed(p, j) ==
  /\ p \in Slot /\ IsIdle(p)
  /\ oban' = [oban EXCEPT ![j] = @ - 1]
  /\ row[j].status = "pending"
  /\ Goto(p, [Idle EXCEPT !.op = "route", !.todo = {j}])
  /\ UNCHANGED <<row, state, issued, sent, cancels, told>>

\* Takes the Oban job and reads the row; a job that is not pending any more
\* is nothing to do.
LeaseRead(p, j) ==
  /\ p \in Slot /\ IsIdle(p)
  /\ oban[j] > 0
  /\ oban' = [oban EXCEPT ![j] = @ - 1]
  /\ IF row[j].status = "pending"
     THEN Goto(p, [Idle EXCEPT !.todo = {j},
                     !.op = IF row[j].overdue THEN "expire" ELSE "route"])
     ELSE UNCHANGED h
  /\ UNCHANGED <<row, state, issued, sent, cancels, told>>

\* fail_expired/1
Expire(p, j) ==
  /\ Working(p, "expire", j)
  /\ IF row[j].status = "pending"
     THEN /\ Update(j, Finished(row[j], "failed"))
          /\ SetState(j, "expired")
          /\ Publish(j, "error")
     ELSE UNCHANGED <<row, state, told>>
  /\ End(p)
  /\ UNCHANGED <<oban, issued, sent, cancels>>

\* mark_routing/1
MarkRouting(p, j) ==
  /\ Working(p, "route", j)
  /\ IF row[j].status = "pending" /\ state[j] = Initial
     THEN SetState(j, "routing")
     ELSE UNCHANGED state
  /\ Goto(p, [h[p] EXCEPT !.op = "assign"])
  /\ UNCHANGED <<row, oban, issued, sent, cancels, told>>

\* Mutation: a lease id of an earlier generation is used again.
MarkLeasedAgain(p, j) ==
  /\ Working(p, "assign", j)
  /\ row[j].status = "pending"
  /\ \E w \in Worker, l \in Lease :
       /\ Update(j, Leased(row[j], w, l))
       /\ issued' = issued \cup {l}
       /\ Goto(p, [Idle EXCEPT !.op = "push", !.todo = {j}, !.worker = w])
  /\ SetState(j, "leased")
  /\ UNCHANGED <<oban, sent, cancels, told>>

\* mark_leased/4 with a fresh lease id.
MarkLeased(p, j) ==
  /\ Working(p, "assign", j)
  /\ row[j].status = "pending"
  /\ \E w \in Worker, l \in Lease \ issued :
       /\ Update(j, Leased(row[j], w, l))
       /\ issued' = issued \cup {l}
       /\ Goto(p, [Idle EXCEPT !.op = "push", !.todo = {j}, !.worker = w])
  /\ SetState(j, "leased")
  /\ UNCHANGED <<oban, sent, cancels, told>>

\* Another executor won the race for the row.
LeaseLost(p, j) ==
  /\ Working(p, "assign", j)
  /\ row[j].status # "pending"
  /\ End(p)
  /\ UNCHANGED <<row, state, oban, issued, sent, cancels, told>>

\* No eligible worker: {:snooze, 5} puts the Oban job back.
Snooze(p, j) ==
  /\ Working(p, "assign", j)
  /\ InsertLeaseJob(j)
  /\ End(p)
  /\ UNCHANGED <<row, state, issued, sent, cancels, told>>

\* mark_leased/4 returns a row it reads back, and WorkerChannel.lease/2
\* broadcasts the lease id that row holds by then.
PushLease(p, j) ==
  /\ Working(p, "push", j)
  /\ sent' = sent \cup
       {[to |-> h[p].worker, job |-> j, lease |-> row[j].lease]}
  /\ End(p)
  /\ UNCHANGED <<row, state, oban, issued, cancels, told>>

----------------------------------------------------------------------------
(* LeaseSweeper.perform/1, and terminate/2 of a worker's last channel *)

SweepLeases(p) ==
  /\ p \in Slot /\ IsIdle(p)
  /\ LET late == {j \in Job : row[j].status = "leased" /\ row[j].due}
     IN  Goto(p, [Begin("reclaim", late) EXCEPT !.out = "sweep"])
  /\ UNCHANGED <<row, state, oban, issued, sent, cancels, told>>

ChannelDown(p, w) ==
  /\ p \in Channel /\ IsIdle(p)
  /\ LET held == {j \in Job : row[j].status = "leased" /\ row[j].worker = w}
     IN  Goto(p, [Begin("reclaim", held) EXCEPT !.out = "down"])
  /\ UNCHANGED <<row, state, oban, issued, sent, cancels, told>>

\* The generation this handler selected is still the live one.
StillHeld(p, j) == IsLive(row[j], h[p].snap[j].lease)

\* Having reclaimed j, tell the worker that lost it.
ThenTell(p, j) ==
  Goto(p, [h[p] EXCEPT !.op = "tell", !.todo = @ \ {j},
             !.note = {[job |-> j, lease |-> h[p].snap[j].lease]}])

\* reclaim_lease/1, attempts exhausted.  Nothing reads the row between the
\* write and its broadcast, so they are one step.
ReclaimFails(p, j) ==
  /\ Working(p, "reclaim", j)
  /\ h[p].snap[j].attempts >= MaxAttempts
  /\ StillHeld(p, j)
  /\ Update(j, LeaseExpired(row[j]))
  /\ SetState(j, "failed")
  /\ Publish(j, "error")
  /\ ThenTell(p, j)
  /\ UNCHANGED <<oban, issued, sent, cancels>>

\* Mutation: the reclaimed job gets no Oban job.
ReclaimSilently(p, j) ==
  /\ Working(p, "reclaim", j)
  /\ h[p].snap[j].attempts < MaxAttempts
  /\ StillHeld(p, j)
  /\ Update(j, Retried(row[j]))
  /\ ThenTell(p, j)
  /\ UNCHANGED <<state, oban, issued, sent, cancels, told>>

\* reclaim_lease/1: back to pending with its Oban job in one transaction.
\* The SET list has no `state`.
ReclaimRetries(p, j) ==
  /\ Working(p, "reclaim", j)
  /\ h[p].snap[j].attempts < MaxAttempts
  /\ StillHeld(p, j)
  /\ Update(j, Retried(row[j]))
  /\ InsertLeaseJob(j)
  /\ ThenTell(p, j)
  /\ UNCHANGED <<state, issued, sent, cancels, told>>

ReclaimSkips(p, j) ==
  /\ Working(p, "reclaim", j)
  /\ ~StillHeld(p, j)
  /\ Goto(p, [h[p] EXCEPT !.todo = @ \ {j}])
  /\ UNCHANGED <<row, state, oban, issued, sent, cancels, told>>

\* The Oban insert fails and the transaction rolls back; the other rows are
\* still tried, but the sweep then stops before its second question.
ReclaimRollsBack(p, j) ==
  /\ p \in Fallible
  /\ Working(p, "reclaim", j)
  /\ h[p].snap[j].attempts < MaxAttempts
  /\ StillHeld(p, j)
  /\ Goto(p, [h[p] EXCEPT !.todo = @ \ {j}, !.out = "down"])
  /\ UNCHANGED <<row, state, oban, issued, sent, cancels, told>>

\* WorkerChannel.cancel/3, after the write is durable.
Tell(p) ==
  /\ h[p].op = "tell"
  /\ cancels' = cancels \cup h[p].note
  /\ IF h[p].out = "cancelled"
     THEN End(p)
     ELSE Goto(p, [h[p] EXCEPT !.op = "reclaim", !.note = {}])
  /\ UNCHANGED <<row, state, oban, issued, sent, told>>

\* The reclaim loop is over: a sweep goes on to the parked jobs
\* (fail_unanswered_input/0 selects their ids), a closing channel is done.
ReclaimEnds(p) ==
  /\ h[p].op = "reclaim" /\ h[p].todo = {}
  /\ IF h[p].out = "sweep"
     THEN LET late == {j \in Job : /\ row[j].status = "awaiting_input"
                                   /\ row[j].due}
          IN  Goto(p, [Idle EXCEPT !.op = "unanswered", !.todo = late])
     ELSE End(p)
  /\ UNCHANGED <<row, state, oban, issued, sent, cancels, told>>

\* The UPDATE for one selected id: conditional on the status alone.
FailUnanswered(p, j) ==
  /\ Working(p, "unanswered", j)
  /\ IF row[j].status = "awaiting_input"
     THEN /\ Update(j, Finished(row[j], "failed"))
          /\ SetState(j, "failed")
          /\ Publish(j, "error")
     ELSE UNCHANGED <<row, state, told>>
  /\ Goto(p, [h[p] EXCEPT !.todo = @ \ {j}])
  /\ UNCHANGED <<oban, issued, sent, cancels>>

SweepEnds(p) ==
  /\ h[p].op = "unanswered" /\ h[p].todo = {}
  /\ End(p)
  /\ UNCHANGED <<row, state, oban, issued, sent, cancels, told>>

----------------------------------------------------------------------------
(* What a worker reports.  A worker may report on any lease it was ever    *)
(* sent, at any time and any number of times: results arrive late, twice,  *)
(* and from workers whose lease was reclaimed long ago.                    *)

\* complete/2 reads the row.  A cancelled job keeps only the usage, a result
\* of a superseded lease is refused -- though an oversize one is published
\* all the same -- and any other result goes on to be applied.
ResultArrives(p, j, l, out) ==
  /\ p \in Channel /\ IsIdle(p)
  /\ Delivered(j, l) /\ WithinBound(j)
  /\ LET stale == l # NoLease /\ l # row[j].lease
     IN  CASE row[j].status = "cancelled" ->
                /\ Publish(j, Verdict(out))
                /\ UNCHANGED h
           [] row[j].status # "cancelled" /\ stale ->
                /\ IF out = "too_large" THEN Publish(j, "error")
                                        ELSE UNCHANGED told
                /\ UNCHANGED h
           [] row[j].status # "cancelled" /\ ~stale ->
                /\ Goto(p, [Begin("apply", {j}) EXCEPT !.out = out])
                /\ UNCHANGED told
  /\ UNCHANGED <<row, state, oban, issued, sent, cancels>>

\* Mutation: the outcome is written whatever the row's status.
WriteStatusAlways(j, status) ==
  /\ Update(j, Finished(row[j], status))
  /\ SetState(j, CASE status = "done"      -> "completed"
                   [] status = "failed"    -> "failed"
                   [] status = "cancelled" -> "cancelled")

\* update_status/4: any open row, whatever generation it is on now.
WriteStatus(j, status) ==
  IF IsOpen(row[j])
  THEN /\ Update(j, Finished(row[j], status))
       /\ SetState(j, CASE status = "done"      -> "completed"
                        [] status = "failed"    -> "failed"
                        [] status = "cancelled" -> "cancelled")
  ELSE UNCHANGED <<row, state>>

\* Mutation: a retry takes a parked job with it.
RequeueOpen(p, j) ==
  /\ IsOpen(row[j])
  /\ Update(j, Retried(row[j]))
  /\ SetState(j, Initial)
  /\ Goto(p, [Idle EXCEPT !.op = "enqueue", !.todo = {j}])
  /\ UNCHANGED told

\* requeue/1: any pending or leased row, whatever generation it is on now.
\* The Oban job is inserted by a statement of its own (requeue_lease/1).
Requeue(p, j) ==
  IF row[j].status \in {"pending", "leased"}
  THEN /\ Update(j, Retried(row[j]))
       /\ SetState(j, Initial)
       /\ Goto(p, [Idle EXCEPT !.op = "enqueue", !.todo = {j},
                               !.out = h[p].out])
       /\ UNCHANGED told
  ELSE /\ End(p)
       /\ IF IsResult(h[p].out) THEN Publish(j, "error")
                                  ELSE UNCHANGED told
       /\ UNCHANGED <<row, state>>

\* Mutation: the generation is checked again at the write, but the result is
\* published whether or not it was stored.
ApplyOkIfHeld(p, j) ==
  /\ Working(p, "apply", j)
  /\ h[p].out = "ok"
  /\ IF IsLive(row[j], h[p].snap[j].lease) THEN WriteStatus(j, "done")
                                           ELSE UNCHANGED <<row, state>>
  /\ Publish(j, "ok")
  /\ End(p)
  /\ UNCHANGED <<oban, issued, sent, cancels>>

ApplyOk(p, j) ==
  /\ Working(p, "apply", j)
  /\ h[p].out = "ok"
  /\ WriteStatus(j, "done")
  /\ Publish(j, "ok")
  /\ End(p)
  /\ UNCHANGED <<oban, issued, sent, cancels>>

\* Out of budget, or out of attempts by the snapshot's count.
ApplyFailure(p, j) ==
  /\ Working(p, "apply", j)
  /\ h[p].out # "ok"
  /\ j \in Budgeted \/ h[p].snap[j].attempts >= MaxAttempts
  /\ WriteStatus(j, "failed")
  /\ Publish(j, "error")
  /\ End(p)
  /\ UNCHANGED <<oban, issued, sent, cancels>>

ApplyRetry(p, j) ==
  /\ Working(p, "apply", j)
  /\ h[p].out # "ok"
  /\ h[p].snap[j].attempts < MaxAttempts
  /\ Requeue(p, j)
  /\ UNCHANGED <<oban, issued, sent, cancels>>

\* persist_result/1 rescues whatever complete/2 raises: when a database call
\* fails, the result is published as if it had been stored.  The call may be
\* the first read, before anything of the lease was looked at ...
ResultUnread(p, j, l, out) ==
  /\ p \in Channel \cap Fallible /\ IsIdle(p)
  /\ Delivered(j, l) /\ WithinBound(j)
  /\ Publish(j, Verdict(out))
  /\ UNCHANGED <<row, state, oban, issued, sent, cancels, h>>

\* ... or the UPDATE that decides the job, or the insert after a requeue.
ResultUnstored(p, j) ==
  /\ p \in Channel \cap Fallible
  /\ Working(p, "apply", j) \/ Working(p, "enqueue", j)
  /\ IsResult(h[p].out)
  /\ Publish(j, Verdict(h[p].out))
  /\ End(p)
  /\ UNCHANGED <<row, state, oban, issued, sent, cancels>>

\* enqueue_lease/2 after a requeue or a resume, then the broadcast of the
\* result that caused it.
Enqueue(p, j) ==
  /\ Working(p, "enqueue", j)
  /\ InsertLeaseJob(j)
  /\ IF IsResult(h[p].out) THEN Publish(j, "error") ELSE UNCHANGED told
  /\ End(p)
  /\ UNCHANGED <<row, state, issued, sent, cancels>>

\* record_progress/2: one statement.  Its sequence number drops a replayed
\* frame; which phase of the generation was accepted last is left open here.
Progress(p, j, l, phase) ==
  /\ p \in Channel /\ IsIdle(p)
  /\ Delivered(j, l)
  /\ IsLive(row[j], l)
  /\ SetState(j, phase)
  /\ UNCHANGED <<row, oban, issued, sent, cancels, told, h>>

\* Mutation: a heartbeat buys time past the caller's deadline.
RenewUnclamped(p, j, l) ==
  /\ p \in Channel /\ IsIdle(p)
  /\ [to |-> row[j].worker, job |-> j, lease |-> l] \in sent
  /\ IsLive(row[j], l)
  /\ Update(j, [row[j] EXCEPT !.due = FALSE])
  /\ UNCHANGED <<state, oban, issued, sent, cancels, told, h>>

\* renew_lease/3: the new deadline never passes the caller's.
Renew(p, j, l) ==
  /\ p \in Channel /\ IsIdle(p)
  /\ [to |-> row[j].worker, job |-> j, lease |-> l] \in sent
  /\ IsLive(row[j], l)
  /\ Update(j, [row[j] EXCEPT !.due = row[j].overdue])
  /\ UNCHANGED <<state, oban, issued, sent, cancels, told, h>>

\* park_for_input/2 reads the row and counts the rounds.
QuestionArrives(p, j, l) ==
  /\ p \in Channel /\ IsIdle(p)
  /\ l # NoLease /\ Delivered(j, l) /\ WithinBound(j)
  /\ Goto(p, IF row[j].rounds >= MaxRounds
             THEN [Idle EXCEPT !.op = "giveup", !.todo = {j}]
             ELSE [Begin("park", {j}) EXCEPT !.lease = l])
  /\ UNCHANGED <<row, state, oban, issued, sent, cancels, told>>

\* Mutations: the write forgets `state`; it is not tied to the generation.
ParkWithoutState(p, j) ==
  /\ Working(p, "park", j)
  /\ IsLive(row[j], h[p].lease)
  /\ Update(j, Parked(row[j]))
  /\ End(p)
  /\ UNCHANGED <<state, oban, issued, sent, cancels, told>>

ParkAnyGeneration(p, j) ==
  /\ Working(p, "park", j)
  /\ row[j].status = "leased"
  /\ Update(j, Parked(row[j]))
  /\ SetState(j, "input_required")
  /\ End(p)
  /\ UNCHANGED <<oban, issued, sent, cancels, told>>

\* do_park/3: conditional on the lease the request names.
Park(p, j) ==
  /\ Working(p, "park", j)
  /\ IF IsLive(row[j], h[p].lease)
     THEN /\ Update(j, Parked(row[j]))
          /\ SetState(j, "input_required")
     ELSE UNCHANGED <<row, state>>
  /\ End(p)
  /\ UNCHANGED <<oban, issued, sent, cancels, told>>

\* One question too many: handle_input_request/1 requeues the job.
GiveUp(p, j) ==
  /\ Working(p, "giveup", j)
  /\ Requeue(p, j)
  /\ UNCHANGED <<oban, issued, sent, cancels>>

----------------------------------------------------------------------------
(* What a caller does *)

\* resume_with_input/3 reads the row.  The request id it compares is the one
\* the row holds: workers derive it from the job id alone.
AnswerArrives(p, j) ==
  /\ p \in Caller /\ IsIdle(p)
  /\ row[j].status = "awaiting_input"
  /\ Goto(p, Begin("resume", {j}))
  /\ UNCHANGED <<row, state, oban, issued, sent, cancels, told>>

\* do_resume/2: conditional on the status alone; the Oban job follows in a
\* statement of its own.
Resume(p, j) ==
  /\ Working(p, "resume", j)
  /\ IF row[j].status = "awaiting_input"
     THEN /\ Update(j, Resumed(row[j], h[p].snap[j]))
          /\ SetState(j, Initial)
          /\ Goto(p, [Idle EXCEPT !.op = "enqueue", !.todo = {j}])
     ELSE /\ End(p)
          /\ UNCHANGED <<row, state>>
  /\ UNCHANGED <<oban, issued, sent, cancels, told>>

\* cancel/1 reads the row.
CancelArrives(p, j) ==
  /\ p \in Caller /\ IsIdle(p)
  /\ IsOpen(row[j])
  /\ Goto(p, Begin("cancel", {j}))
  /\ UNCHANGED <<row, state, oban, issued, sent, cancels, told>>

\* update_status/4, then the worker named by the snapshot is told.
Cancel(p, j) ==
  /\ Working(p, "cancel", j)
  /\ WriteStatus(j, "cancelled")
  /\ LET s == h[p].snap[j]
     IN  Goto(p, [Idle EXCEPT !.op = "tell", !.todo = {j},
                    !.out = "cancelled",
                    !.note = IF s.lease = NoLease THEN {}
                             ELSE {[job |-> j, lease |-> s.lease]}])
  /\ UNCHANGED <<oban, issued, sent, cancels, told>>

----------------------------------------------------------------------------
(* A process dies between two steps.  Oban runs an interrupted job again;  *)
(* a channel, a request or a sweep is simply gone.                         *)

Crash(p) ==
  /\ p \in Fallible /\ ~IsIdle(p)
  /\ oban' = IF h[p].op \in LeaseOps
             THEN [j \in Job |-> IF j \in h[p].todo THEN oban[j] + 1
                                                    ELSE oban[j]]
             ELSE oban
  /\ End(p)
  /\ UNCHANGED <<row, state, issued, sent, cancels, told>>

----------------------------------------------------------------------------
Init ==
  /\ row     = [j \in Job |-> NoRow]
  /\ state   = [j \in Job |-> Initial]
  /\ oban    = [j \in Job |-> 0]
  /\ issued  = {}
  /\ sent    = {}
  /\ cancels = {}
  /\ told    = [j \in Job |-> {}]
  /\ h       = [p \in Proc |-> Idle]

\* The steps of a handler that has begun.
Continue(p) ==
  \/ Tell(p) \/ ReclaimEnds(p) \/ SweepEnds(p)
  \/ \E j \in Job :
       \/ Expire(p, j) \/ MarkRouting(p, j)
       \/ MarkLeased(p, j) \/ LeaseLost(p, j) \/ Snooze(p, j)
       \/ PushLease(p, j)
       \/ ReclaimFails(p, j) \/ ReclaimRetries(p, j) \/ ReclaimSkips(p, j)
       \/ ReclaimRollsBack(p, j) \/ FailUnanswered(p, j)
       \/ ApplyOk(p, j) \/ ApplyFailure(p, j) \/ ApplyRetry(p, j)
       \/ ResultUnstored(p, j)
       \/ Enqueue(p, j) \/ Park(p, j) \/ GiveUp(p, j)
       \/ Resume(p, j) \/ Cancel(p, j)

\* What arrives from outside.
WorkerReports(p, j) ==
  \E l \in Lease \cup {NoLease} :
    \/ \E out \in Reports : ResultArrives(p, j, l, out) \/ ResultUnread(p, j, l, out)
    \/ \E phase \in Phases : Progress(p, j, l, phase)
    \/ Renew(p, j, l)
    \/ QuestionArrives(p, j, l)

Next ==
  \/ \E j \in Job : Submit(j) \/ DeadlinePasses(j) \/ JobOverdue(j)
  \/ \E p \in Proc : Continue(p) \/ SweepLeases(p) \/ Crash(p)
  \/ \E p \in Proc, w \in Worker : ChannelDown(p, w)
  \/ \E p \in Proc, j \in Job :
       \/ LeaseRead(p, j) \/ WorkerReports(p, j)
       \/ AnswerArrives(p, j) \/ CancelArrives(p, j)

Spec == Init /\ [][Next]_vars

\* Clocks run, begun handlers go on, Oban executes what is in its queue and
\* its cron plugin keeps inserting the sweep: both compete for executors, so
\* they are only intermittently enabled.  Nothing is assumed of workers or
\* callers.
Fairness ==
  /\ \A j \in Job : WF_vars(DeadlinePasses(j)) /\ WF_vars(JobOverdue(j))
  /\ \A p \in Proc : WF_vars(Continue(p))
  /\ \A j \in Job : SF_vars(\E p \in Slot : LeaseRead(p, j))
  /\ SF_vars(\E p \in Slot : SweepLeases(p))

FairSpec == Spec /\ Fairness
=============================================================================
