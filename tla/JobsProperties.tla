--------------------------- MODULE JobsProperties ---------------------------
(***************************************************************************)
(* What must hold of module Jobs.                                          *)
(***************************************************************************)
EXTENDS Jobs

\* The types of the variables (job_record.ex's columns and the bookkeeping).
TypeOK ==
  /\ row \in [Job -> Row]
  /\ state \in [Job -> States]
  /\ oban \in [Job -> Nat]
  /\ issued \subseteq Lease
  /\ sent \subseteq JobMsg
  /\ cancels \subseteq CancelMsg
  /\ told \in [Job -> SUBSET {"ok", "error"}]
  /\ h \in [Proc -> Handler]

\* Only a leased row or a finished one carries a lease id: a pending or parked
\* job cannot be decided, renewed or moved by the generation it had before
\* (park_for_input/2 clears it "deliberately", requeue and reclaim too).
LeaseColumns ==
  \A j \in Job :
    /\ row[j].status = "leased" <=>
         row[j].lease # NoLease /\ row[j].status \notin Terminal
    /\ row[j].lease # NoLease => row[j].worker # NoWorker

\* What a handler decided from its snapshot is still true of the row when its
\* generation-guarded write goes through.  reclaim_lease/1 picks between
\* "retry" and "fail" on the attempts it read, and park_for_input/2 counts the
\* rounds it read: neither re-reads, both rely on the lease id to notice that
\* the row moved on.
SnapshotCurrent ==
  \A p \in Proc : \A j \in h[p].todo :
    LET s == h[p].snap[j]
    IN  /\ h[p].op = "reclaim" /\ IsLive(row[j], s.lease) =>
             s.attempts = row[j].attempts
        /\ h[p].op = "park" /\ IsLive(row[j], h[p].lease) =>
             /\ s.rounds = row[j].rounds
             /\ s.rounds < MaxRounds

\* A job is parked at most MaxRounds times, however requests are duplicated
\* and whatever runs between reading the counter and incrementing it.
RoundsBounded == \A j \in Job : row[j].rounds <= MaxRounds

\* What a poller is told through MCP (mcp_status/1 reads `state` alone) never
\* disagrees with `status` on the two things it acts on: whether the job is
\* over and whether it waits for an answer.
PollerNotMisled ==
  \A j \in Job : row[j].status # Absent =>
    /\ McpStatus(state[j]) \in {"completed", "cancelled"} <=>
         row[j].status \in Terminal
    /\ McpStatus(state[j]) = "input_required" <=>
         row[j].status = "awaiting_input"

\* A lease never outlives the caller's deadline: once expires_at has passed,
\* the lease is due too, whatever heartbeats renew it (renew_lease/3: "without
\* extending it past the caller deadline").
LeaseWithinDeadline ==
  \A j \in Job : row[j].status = "leased" /\ row[j].overdue => row[j].due

\* Once a result was published as "ok" the job is over: no retry, no later
\* question and no second lease can follow the answer a caller was given
\* (do_handle_result/1 publishes after persisting).  This needs the database
\* calls of the channels to succeed: persist_result/1 rescues the
\* exception of one that fails, and the result is published as if it had been
\* stored.
OkIsTheEnd == \A j \in Job : "ok" \in told[j] => row[j].status \in Terminal

\* Nothing changes a finished job: not its status or counters, and not what a
\* poller sees of it.  Every write path has its own guard for this.
TerminalIsFinal ==
  [][\A j \in Job : row[j].status \in Terminal =>
       row'[j] = row[j] /\ state'[j] = state[j]]_<<row, state>>

\* The row only ever moves the way the lifecycle allows.
Lifecycle ==
  INSTANCE JobLifecycle WITH status   <- [j \in Job |-> row[j].status],
                             attempts <- [j \in Job |-> row[j].attempts],
                             rounds   <- [j \in Job |-> row[j].rounds]

ImplementsLifecycle == Lifecycle!Spec

----------------------------------------------------------------------------
(* Without crashes *)

\* A pending job is never forgotten: an Oban job for it is queued, or an
\* executor has read it as pending, or the handler that made it pending is
\* about to insert one (enqueue/1: "a `pending` row that nothing would ever
\* pick up" is a job silently lost).
NeverStranded ==
  \A j \in Job : row[j].status = "pending" =>
    \/ oban[j] > 0
    \/ \E p \in Proc : /\ j \in h[p].todo
                       /\ h[p].op \in {"route", "assign", "expire", "enqueue"}

\* Every submitted job ends: whatever workers do or fail to do, and however
\* often they renew their lease, the deadlines and the sweep finish it.
EveryJobEnds ==
  \A j \in Job : row[j].status # Absent ~> row[j].status \in Terminal
=============================================================================
