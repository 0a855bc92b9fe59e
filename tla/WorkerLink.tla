----------------------------- MODULE WorkerLink -----------------------------
(***************************************************************************)
(* One worker and the coordinator's end of its connections: the channel    *)
(* process that counts what the worker has in hand (worker_channel.ex) and *)
(* the client that runs it (coordinator_client.rs).  A lease names one     *)
(* generation of one job, so it stands for the pair {job_id, lease_id}.    *)
(*                                                                         *)
(* What the rest of the system does is one variable, row: the generation   *)
(* is live, answered by the worker, or taken back by somebody else.  A     *)
(* generation is granted from the start: nothing happens here until it is  *)
(* broadcast or revoked, in either order.                                  *)
(***************************************************************************)
EXTENDS Integers, Sequences, FiniteSets

CONSTANTS
  Lease,        \* lease generations granted to this worker
  Conn,         \* connections, in the order they are made
  NoConn,
  Parallel,     \* max_parallel_jobs, the permits of one connection
  Acks,         \* connections whose registration has supports_cancel_ack
  Twice,        \* generations that two executors may push
  Undecodable   \* generations whose job this worker may be unable to decode

ASSUME WorkerLinkAssumption ==
  /\ IsFiniteSet(Lease)
  /\ Conn \subseteq Nat /\ NoConn \notin Conn
  /\ Parallel \in Nat \ {0}
  /\ Acks \subseteq Conn
  /\ Twice \subseteq Lease
  /\ Undecodable \subseteq Lease

VARIABLES
  row,       \* what the job row says of the generation
  pushes,    \* how often WorkerChannel.lease/2 broadcast it
  told,      \* whether WorkerChannel.cancel/3 broadcast it
  chan,      \* the channel process of a connection
  bus,       \* broadcasts that wait in the channel's mailbox
  active,    \* active_leases of the channel
  inflight,  \* worker.inflight of the channel
  down, up,  \* frames on the socket, towards and from the worker
  link,      \* the connection the client is on
  task,      \* the tracked task of a generation on that connection
  doomed     \* aborted tasks that have not noticed yet

coordinator == <<row, pushes, told>>
channel     == <<chan, bus, active, inflight>>
client      == <<link, task, doomed>>
vars        == <<coordinator, channel, client, down, up>>

Broadcast == [kind : {"job", "cancel"}, lease : Lease]
Report    == [kind : {"answer", "cancelled"}, lease : Lease]
Msg(k, l) == [kind |-> k, lease |-> l]

TypeOK ==
  /\ row \in [Lease -> {"live", "answered", "revoked"}]
  /\ pushes \in [Lease -> 0..2]
  /\ told \in [Lease -> BOOLEAN]
  /\ chan \in [Conn -> {"off", "open", "gone"}]
  /\ bus \in [Conn -> SUBSET Broadcast]
  /\ active \in [Conn -> SUBSET Lease]
  /\ inflight \in [Conn -> Nat]
  /\ down \in [Conn -> Seq(Broadcast)]
  /\ up \in [Conn -> Seq(Report)]
  /\ link \in Conn \cup {NoConn}
  /\ task \in [Lease -> {"none", "waiting", "running"}]
  /\ doomed \subseteq Lease

Init ==
  /\ row = [l \in Lease |-> "live"]
  /\ pushes = [l \in Lease |-> 0]
  /\ told = [l \in Lease |-> FALSE]
  /\ chan = [c \in Conn |-> "off"]
  /\ bus = [c \in Conn |-> {}]
  /\ active = [c \in Conn |-> {}]
  /\ inflight = [c \in Conn |-> 0]
  /\ down = [c \in Conn |-> <<>>]
  /\ up = [c \in Conn |-> <<>>]
  /\ link = NoConn
  /\ task = [l \in Lease |-> "none"]
  /\ doomed = {}

----------------------------------------------------------------------------
(* The rest of the coordinator *)

Deliver(m) ==
  bus' = [c \in Conn |-> IF chan[c] = "open" THEN bus[c] \cup {m} ELSE bus[c]]

\* WorkerChannel.lease/2.  It runs after the row was written, whatever became
\* of the row since; two executors may push one generation, because
\* mark_leased/4 reads the row again before it pushes.
BroadcastJob(l) ==
  /\ pushes[l] < (IF l \in Twice THEN 2 ELSE 1)
  /\ pushes' = [pushes EXCEPT ![l] = @ + 1]
  /\ Deliver(Msg("job", l))
  /\ UNCHANGED <<row, told, chan, active, inflight, client, down, up>>

\* The caller cancels, the lease runs out or the last channel's terminate/2
\* takes it back.
Revoke(l) ==
  /\ row[l] = "live"
  /\ row' = [row EXCEPT ![l] = "revoked"]
  /\ UNCHANGED <<pushes, told, channel, client, down, up>>

\* WorkerChannel.cancel/3, which follows that write in its own time.
BroadcastCancel(l) ==
  /\ row[l] = "revoked" /\ ~told[l]
  /\ told' = [told EXCEPT ![l] = TRUE]
  /\ Deliver(Msg("cancel", l))
  /\ UNCHANGED <<row, pushes, chan, active, inflight, client, down, up>>

----------------------------------------------------------------------------
(* The channel process *)

\* A frame reaches the worker only while it is on this connection.
Push(c, m) ==
  down' = [down EXCEPT ![c] = IF link = c THEN Append(@, m) ELSE @]

\* Mutants of finish_lease/4: a report of a lease that is not active frees a
\* slot all the same, without and with the clamp; the slot is not given back.
FinishUnclamped(c, l) ==
  /\ active' = [active EXCEPT ![c] = @ \ {l}]
  /\ inflight' = [inflight EXCEPT ![c] = @ - 1]

FinishUnknown(c, l) ==
  /\ active' = [active EXCEPT ![c] = @ \ {l}]
  /\ inflight' = [inflight EXCEPT ![c] = IF @ > 0 THEN @ - 1 ELSE 0]

FinishKeepsSlot(c, l) ==
  /\ active' = [active EXCEPT ![c] = @ \ {l}]
  /\ UNCHANGED inflight

\* finish_lease/4: only a lease that is active is released, and only once.
FinishLease(c, l) ==
  IF l \in active[c]
  THEN /\ active' = [active EXCEPT ![c] = @ \ {l}]
       /\ inflight' = [inflight EXCEPT ![c] = IF @ > 0 THEN @ - 1 ELSE 0]
  ELSE UNCHANGED <<active, inflight>>

\* handle_out("job")
PushJob(c, l) ==
  /\ chan[c] = "open" /\ Msg("job", l) \in bus[c]
  /\ bus' = [bus EXCEPT ![c] = @ \ {Msg("job", l)}]
  /\ Push(c, Msg("job", l))
  /\ active' = [active EXCEPT ![c] = @ \cup {l}]
  /\ inflight' = [inflight EXCEPT ![c] = @ + 1]
  /\ UNCHANGED <<coordinator, client, chan, up>>

\* A mutant: every worker is taken to acknowledge.
PushCancelAwaitsAck(c, l) ==
  /\ chan[c] = "open" /\ Msg("cancel", l) \in bus[c]
  /\ bus' = [bus EXCEPT ![c] = @ \ {Msg("cancel", l)}]
  /\ Push(c, Msg("cancel", l))
  /\ UNCHANGED <<coordinator, client, chan, active, inflight, up>>

\* handle_out("cancel"): a worker that acknowledges frees the slot itself.
PushCancel(c, l) ==
  /\ chan[c] = "open" /\ Msg("cancel", l) \in bus[c]
  /\ bus' = [bus EXCEPT ![c] = @ \ {Msg("cancel", l)}]
  /\ Push(c, Msg("cancel", l))
  /\ IF c \in Acks THEN UNCHANGED <<active, inflight>> ELSE FinishLease(c, l)
  /\ UNCHANGED <<coordinator, client, chan, up>>

\* handle_in("result"), ("input_request"), ("cancelled").  The first two end
\* the generation in the row if it is still the live one; an answer that is
\* refused frees the slot all the same.
TakeReport(c) ==
  /\ chan[c] = "open" /\ up[c] # <<>>
  /\ LET m == Head(up[c])
     IN  /\ row' = IF m.kind = "answer" /\ row[m.lease] = "live"
                   THEN [row EXCEPT ![m.lease] = "answered"] ELSE row
         /\ FinishLease(c, m.lease)
  /\ up' = [up EXCEPT ![c] = Tail(@)]
  /\ UNCHANGED <<pushes, told, client, chan, bus, down>>

\* The transport is closed or timed out and the channel process ends; what it
\* wrote may still reach the worker, in part.
Close(c) ==
  /\ chan[c] = "open"
  /\ chan' = [chan EXCEPT ![c] = "gone"]
  /\ bus' = [bus EXCEPT ![c] = {}]
  /\ active' = [active EXCEPT ![c] = {}]
  /\ inflight' = [inflight EXCEPT ![c] = 0]
  /\ \E n \in 0..Len(down[c]) : down' = [down EXCEPT ![c] = SubSeq(@, 1, n)]
  /\ up' = [up EXCEPT ![c] = <<>>]
  /\ UNCHANGED <<coordinator, client>>

----------------------------------------------------------------------------
(* The worker's client *)

\* A frame in the outbound queue is lost when the coordinator's end is gone.
Send(c, m) ==
  up' = [up EXCEPT ![c] = IF chan[c] = "open" THEN Append(@, m) ELSE @]

Running == {l \in Lease : task[l] = "running"}

\* JoinHandle::abort: a task that waits is dropped, one that runs may first
\* get through the send it has reached.
Abort(l) ==
  \/ UNCHANGED doomed
  \/ task[l] = "running" /\ doomed' = doomed \cup {l}

\* connect_and_run/3, up to the join's reply.  The client makes one connection
\* after the other.
Connect(c) ==
  /\ link = NoConn /\ chan[c] = "off"
  /\ \A d \in Conn : d < c => chan[d] # "off"
  /\ chan' = [chan EXCEPT ![c] = "open"]
  /\ link' = c
  /\ UNCHANGED <<coordinator, bus, active, inflight, task, doomed, down, up>>

\* A mutant: a job that finds no free permit is dropped.
ReceiveJobIfFree(c) ==
  /\ link = c /\ down[c] # <<>> /\ Head(down[c]).kind = "job"
  /\ down' = [down EXCEPT ![c] = Tail(@)]
  /\ LET l == Head(down[c]).lease
     IN  /\ Abort(l)
         /\ task' = [task EXCEPT ![l] = IF Cardinality(Running) < Parallel
                                       THEN "waiting" ELSE @]
  /\ UNCHANGED <<coordinator, channel, link, up>>

\* track_job/5: a second push of a generation replaces its task.
ReceiveJob(c) ==
  /\ link = c /\ down[c] # <<>> /\ Head(down[c]).kind = "job"
  /\ down' = [down EXCEPT ![c] = Tail(@)]
  /\ LET l == Head(down[c]).lease
     IN  Abort(l) /\ task' = [task EXCEPT ![l] = "waiting"]
  /\ UNCHANGED <<coordinator, channel, link, up>>

\* from_value::<Job> fails, on a field the worker's build does not know: the
\* frame is dropped, and nothing is tracked, answered or logged.
SkipJob(c) ==
  /\ link = c /\ down[c] # <<>> /\ Head(down[c]).kind = "job"
  /\ Head(down[c]).lease \in Undecodable
  /\ down' = [down EXCEPT ![c] = Tail(@)]
  /\ UNCHANGED <<coordinator, channel, client, up>>

\* cancel_job/3, and the acknowledgement whether or not there was a task (an
\* older worker sends none).
ReceiveCancel(c) ==
  /\ link = c /\ down[c] # <<>> /\ Head(down[c]).kind = "cancel"
  /\ down' = [down EXCEPT ![c] = Tail(@)]
  /\ LET l == Head(down[c]).lease
     IN  /\ Abort(l)
         /\ task' = [task EXCEPT ![l] = "none"]
         /\ IF c \in Acks THEN Send(c, Msg("cancelled", l)) ELSE UNCHANGED up
  /\ UNCHANGED <<coordinator, channel, link>>

\* acquire_owned(): the permit is held until the task is dropped.
Acquire(l) ==
  /\ task[l] = "waiting"
  /\ Cardinality(Running) + Cardinality(doomed) < Parallel
  /\ task' = [task EXCEPT ![l] = "running"]
  /\ UNCHANGED <<coordinator, channel, link, doomed, down, up>>

\* The generation ends and its result, or its question, is queued.
Answer(l) ==
  /\ link # NoConn /\ task[l] = "running"
  /\ task' = [task EXCEPT ![l] = "none"]
  /\ Send(link, Msg("answer", l))
  /\ UNCHANGED <<coordinator, channel, link, doomed, down>>

\* An aborted task is dropped, after its last send or before it.
Drop(l) ==
  /\ link # NoConn /\ l \in doomed
  /\ doomed' = doomed \ {l}
  /\ Send(link, Msg("answer", l)) \/ UNCHANGED up
  /\ UNCHANGED <<coordinator, channel, link, task, down>>

\* The socket closes or the worker dies.  What was queued may still arrive, in
\* part; every task of the connection is aborted and its sends go nowhere.
Disconnect ==
  /\ link # NoConn
  /\ link' = NoConn
  /\ task' = [l \in Lease |-> "none"]
  /\ doomed' = {}
  /\ down' = [down EXCEPT ![link] = <<>>]
  /\ \E n \in 0..Len(up[link]) : up' = [up EXCEPT ![link] = SubSeq(@, 1, n)]
  /\ UNCHANGED <<coordinator, channel>>

----------------------------------------------------------------------------
\* What the two event loops do.
ChannelStep(c) ==
  \/ \E l \in Lease : PushJob(c, l) \/ PushCancel(c, l)
  \/ TakeReport(c)

ReaderStep(c) == ReceiveJob(c) \/ SkipJob(c) \/ ReceiveCancel(c)

Next ==
  \/ \E l \in Lease :
       \/ BroadcastJob(l) \/ Revoke(l) \/ BroadcastCancel(l)
       \/ Acquire(l) \/ Answer(l) \/ Drop(l)
  \/ \E c \in Conn : ChannelStep(c) \/ Close(c) \/ Connect(c) \/ ReaderStep(c)
  \/ Disconnect

\* Channel processes handle their mailboxes, the client reads its socket, and a
\* transport the client has left times out.  Messages are finite in number, so
\* one fairness condition for all of these is enough.  No generation need ever
\* end: a backend may hang.
Progress ==
  \E c \in Conn : ChannelStep(c) \/ ReaderStep(c) \/ (link # c /\ Close(c))

Spec == Init /\ [][Next]_vars /\ WF_vars(Progress)

----------------------------------------------------------------------------
(* Properties *)

\* The slot count the router sees never falls below the leases that are out
\* (handle_out("job") counts pushes, finish_lease/4 releases only a lease it
\* finds): a duplicate, late or unknown report frees nobody else's slot.
InflightCovers == \A c \in Conn : inflight[c] >= Cardinality(active[c])

\* It exceeds them by no more than one for every generation pushed twice.
InflightDrift ==
  \A c \in Conn :
    inflight[c] <= Cardinality(active[c]) + Cardinality({l \in Lease : pushes[l] = 2})

\* The worker has yet to read the job, is working on it, or has reported.
InHand(c, l) ==
  \/ task[l] # "none"
  \/ \E i \in DOMAIN down[c] : down[c][i] = Msg("job", l)
  \/ \E i \in DOMAIN up[c] : up[c][i].lease = l

\* No lease is forgotten on a live connection, whatever is pushed twice,
\* cancelled, waiting for a permit or aborted (track_job/5, cancel_job/3): the
\* channel holds active only what the worker has in hand.  The jobs a build
\* cannot decode are the exception: those it drops, and their leases stay
\* active until they run out.
LeaseAccountedFor ==
  \A c \in Conn : chan[c] = "open" /\ link = c =>
    \A l \in active[c] \ Undecodable : InHand(c, l)

\* A cancel that reaches the channel frees the worker's slot, even when the
\* generation hangs, waits for a permit, was pushed twice, was never decoded or
\* is on a connection that is already lost.
CancelFreesSlot ==
  \A c \in Conn, l \in Lease :
    (l \in active[c] /\ Msg("cancel", l) \in bus[c]) ~> (l \notin active[c])
=============================================================================
