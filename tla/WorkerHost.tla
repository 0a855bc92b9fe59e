---------------------------- MODULE WorkerHost ----------------------------
(***************************************************************************)
(* The tasks of a worker process: Start and Stop of the desktop app        *)
(* (runner.rs), the run they start (worker_run.rs, build_and_run) and the  *)
(* tasks a connection spawns (coordinator_client.rs, connect_and_run).     *)
(*                                                                         *)
(* A run is one tokio task.  abort() drops its future at an await, never   *)
(* inside the code between two awaits: Wake begins such a stretch, one of  *)
(* the actions below is its effects, and Drop needs the run at an await.   *)
(* The tasks a run has spawned are not part of its future and outlive it.  *)
(***************************************************************************)
CONSTANTS
  Run,      \* run tasks that may exist at once; a finished one is used again
  Conn,     \* connections that may exist at once, likewise
  Job,      \* leased generations, likewise
  NoRun, NoConn

ASSUME WorkerHostAssumption ==
  NoRun \notin Run /\ NoConn \notin Conn

VARIABLES
  held,      \* the run whose JoinHandle Runner.task holds
  stopping,  \* Stop has taken the handle and not yet marked the status
  running, connected,  \* RunStatus, as the UI polls it
  at,        \* the await each run is at, or came from when it is awake
  awake,     \* runs between two awaits
  aborted,   \* runs whose handle was aborted
  link,      \* the connection a run reads
  open,      \* connections the coordinator's side has not closed
  writer, pulse, catalog,  \* connections whose writer, heartbeat and catalog
                           \* refresh tasks live
  owner,     \* the connection each job came on
  work,      \* jobs whose task lives: it waits for a permit or executes
  beat,      \* jobs whose lease heartbeat task lives
  raced      \* history: a Stop overlapped the run's own writes to the status

status == <<running, connected>>
runs   == <<at, awake, aborted, link>>
side   == <<writer, pulse, catalog>>
jobs   == <<owner, work, beat>>
vars   == <<held, stopping, status, runs, open, side, jobs, raced>>

Await == {"none", "probing", "connecting", "reading", "sleeping"}

TypeOK ==
  /\ held \in Run \cup {NoRun}
  /\ stopping \in BOOLEAN /\ raced \in BOOLEAN
  /\ running \in BOOLEAN /\ connected \in BOOLEAN
  /\ at \in [Run -> Await]
  /\ awake \subseteq Run /\ aborted \subseteq Run
  /\ link \in [Run -> Conn \cup {NoConn}]
  /\ open \subseteq Conn
  /\ writer \subseteq Conn /\ pulse \subseteq Conn /\ catalog \subseteq Conn
  /\ owner \in [Job -> Conn \cup {NoConn}]
  /\ work = {k \in Job : owner[k] # NoConn} /\ beat \subseteq Job

Live(r)   == at[r] # "none"
Reads(c)  == \E r \in Run : at[r] = "reading" /\ link[r] = c
JobsOf(c) == {k \in Job : owner[k] = c}
Over(c)   == /\ ~Reads(c) /\ c \notin writer \cup pulse \cup catalog
             /\ JobsOf(c) = {}

Init ==
  /\ held = NoRun /\ stopping = FALSE /\ raced = FALSE
  /\ running = FALSE /\ connected = FALSE
  /\ at = [r \in Run |-> "none"] /\ awake = {} /\ aborted = {}
  /\ link = [r \in Run |-> NoConn]
  /\ open = {} /\ writer = {} /\ pulse = {} /\ catalog = {}
  /\ owner = [k \in Job |-> NoConn] /\ work = {} /\ beat = {}

---------------------------------------------------------------------------
(* The desktop app. *)

Shows(up, on) == running' = up /\ connected' = on

\* Runner::start: refused while the task it holds has not finished.
Start(r) ==
  /\ ~\E q \in Run : q = held /\ Live(q)
  /\ ~Live(r)
  /\ held' = r
  /\ at' = [at EXCEPT ![r] = "probing"]
  /\ aborted' = aborted \ {r}
  /\ Shows(TRUE, FALSE)
  /\ raced' = (stopping \/ awake # {})
  /\ UNCHANGED <<stopping, awake, link, open, side, jobs>>

\* Runner::stop, in two steps: start_worker runs on another thread and may
\* fall between them.
StopTakes ==
  /\ stopping = FALSE /\ stopping' = TRUE
  /\ held' = NoRun
  /\ aborted' = aborted \cup ({held} \cap Run)
  /\ raced' = (raced \/ held \in awake)
  /\ UNCHANGED <<status, at, awake, link, open, side, jobs>>

StopMarks ==
  /\ stopping = TRUE /\ stopping' = FALSE
  /\ Shows(FALSE, FALSE)
  /\ UNCHANGED <<held, runs, open, side, jobs, raced>>

---------------------------------------------------------------------------
(* The run. *)

\* The executor polls the run because what it awaits is ready.
Wake(r) ==
  /\ Live(r) /\ r \notin aborted \cup awake
  /\ awake' = awake \cup {r}
  /\ UNCHANGED <<held, stopping, status, at, aborted, link, open, side,
                 jobs, raced>>

\* An aborted run is dropped at its await, with the half of the socket it
\* reads and the handles of the tasks it spawned.
Drop(r) ==
  /\ Live(r) /\ r \in aborted \ awake
  /\ at' = [at EXCEPT ![r] = "none"]
  /\ link' = [link EXCEPT ![r] = NoConn]
  /\ UNCHANGED <<held, stopping, status, awake, aborted, open, side,
                 jobs, raced>>

Reaches(r, from, to) ==
  /\ r \in awake /\ at[r] = from
  /\ awake' = awake \ {r}
  /\ at' = [at EXCEPT ![r] = to]

\* No client, usage store or device key: the run ends with an error, which
\* Runner::start's task marks.
SetupFails(r) ==
  /\ Reaches(r, "probing", "none")
  /\ Shows(FALSE, FALSE)
  /\ UNCHANGED <<held, stopping, aborted, link, open, side, jobs, raced>>

Registers(r) ==
  /\ Reaches(r, "probing", "connecting")
  /\ Shows(TRUE, FALSE)
  /\ UNCHANGED <<held, stopping, aborted, link, open, side, jobs, raced>>

ConnectFails(r) ==
  /\ Reaches(r, "connecting", "sleeping")
  /\ UNCHANGED <<held, stopping, status, aborted, link, open, side, jobs,
                 raced>>

\* The socket is up: the join is queued and the tasks that serve it start.
Connects(r, c) ==
  /\ Reaches(r, "connecting", "reading")
  /\ c \notin open /\ Over(c)
  /\ running' = running /\ connected' = TRUE
  /\ link' = [link EXCEPT ![r] = c]
  /\ open' = open \cup {c}
  /\ writer' = writer \cup {c} /\ pulse' = pulse \cup {c}
  /\ catalog' = catalog \cup {c}
  /\ UNCHANGED <<held, stopping, aborted, jobs, raced>>

SleepEnds(r) ==
  /\ Reaches(r, "sleeping", "connecting")
  /\ UNCHANGED <<held, stopping, status, aborted, link, open, side, jobs,
                 raced>>

\* A frame that is neither a job nor a cancel, such as a reply.
ReadsOther(r) ==
  /\ Reaches(r, "reading", "reading") /\ link[r] \in open
  /\ UNCHANGED <<held, stopping, status, aborted, link, open, side, jobs,
                 raced>>

\* A leased job: its task and its lease heartbeat are spawned and tracked.
ReadsJob(r, k) ==
  /\ Reaches(r, "reading", "reading") /\ link[r] \in open
  /\ owner[k] = NoConn
  /\ owner' = [owner EXCEPT ![k] = link[r]]
  /\ work' = work \cup {k} /\ beat' = beat \cup {k}
  /\ UNCHANGED <<held, stopping, status, aborted, link, open, side, raced>>

\* The job and its heartbeat are gone.
Ends(K) ==
  /\ work' = work \ K /\ beat' = beat \ K
  /\ owner' = [k \in Job |-> IF k \in K THEN NoConn ELSE owner[k]]

\* As cancel_job would be if it left the lease heartbeat to its own devices.
CancelKeepsBeat(r, k) ==
  /\ Reaches(r, "reading", "reading") /\ link[r] \in open
  /\ owner[k] = link[r]
  /\ work' = work \ {k}
  /\ owner' = [owner EXCEPT ![k] = NoConn]
  /\ UNCHANGED <<held, stopping, status, aborted, link, open, side, beat, raced>>

\* A cancel of a job this connection tracks, and its acknowledgement.
ReadsCancel(r, k) ==
  /\ Reaches(r, "reading", "reading") /\ link[r] \in open
  /\ owner[k] = link[r]
  /\ Ends({k})
  /\ UNCHANGED <<held, stopping, status, aborted, link, open, side, raced>>

\* As the exit would be if it left the status to the next connect.
CloseUnmarked(r) ==
  LET c == link[r] IN
  /\ Reaches(r, "reading", "sleeping") /\ c \notin open
  /\ link' = [link EXCEPT ![r] = NoConn]
  /\ Ends(JobsOf(c))
  /\ writer' = writer \ {c} /\ pulse' = pulse \ {c} /\ catalog' = catalog \ {c}
  /\ UNCHANGED <<held, stopping, status, aborted, open, raced>>

\* The stream has ended: every task of the connection is aborted, and the run
\* backs off before it connects again.
ReadsClose(r) ==
  LET c == link[r] IN
  /\ Reaches(r, "reading", "sleeping") /\ c \notin open
  /\ running' = running /\ connected' = FALSE
  /\ link' = [link EXCEPT ![r] = NoConn]
  /\ Ends(JobsOf(c))
  /\ writer' = writer \ {c} /\ pulse' = pulse \ {c} /\ catalog' = catalog \ {c}
  /\ UNCHANGED <<held, stopping, aborted, open, raced>>

---------------------------------------------------------------------------
(* The tasks of a connection.  A send fails when the writer, which holds   *)
(* the receiver, is gone; the writer ends when the socket refuses a send.  *)

Senders(c) == \/ Reads(c) \/ c \in pulse \cup catalog \/ JobsOf(c) # {}

\* On a closed socket the next send, and the heartbeat is one, ends the
\* writer; so does a queue that nobody can fill any more.
WriterEnds(c) ==
  /\ c \in writer /\ (c \in open => ~Senders(c))
  /\ writer' = writer \ {c}
  /\ UNCHANGED <<held, stopping, status, runs, open, pulse, catalog, jobs, raced>>

\* As the heartbeat would be if it ignored a failed send.
PulseIgnoresFailure(c) ==
  /\ c \in pulse
  /\ UNCHANGED <<held, stopping, status, runs, open, side, jobs, raced>>

Pulses(c) ==
  /\ c \in pulse
  /\ pulse' = IF c \in writer THEN pulse ELSE pulse \ {c}
  /\ UNCHANGED <<held, stopping, status, runs, open, writer, catalog, jobs, raced>>

Refreshes(c) ==
  /\ c \in catalog
  /\ catalog' = IF c \in writer THEN catalog ELSE catalog \ {c}
  /\ UNCHANGED <<held, stopping, status, runs, open, writer, pulse, jobs, raced>>

\* The lease heartbeat of a job.
Beats(k) ==
  /\ k \in beat
  /\ beat' = IF owner[k] \in writer THEN beat ELSE beat \ {k}
  /\ UNCHANGED <<held, stopping, status, runs, open, side, owner, work, raced>>

\* As the end of a job would be if the reader never reaped its entry.
FinishesUnreaped(k) ==
  /\ k \in work
  /\ work' = work \ {k} /\ beat' = beat \ {k}
  /\ UNCHANGED <<held, stopping, status, runs, open, side, owner, raced>>

\* The gateway has answered: the result is sent and the heartbeat aborted.  The
\* entry in the reader's table, which the next frame reaps, goes with the task.
Finishes(k) ==
  /\ k \in work /\ Ends({k})
  /\ UNCHANGED <<held, stopping, status, runs, open, side, raced>>

\* The coordinator, or the network, closes a connection.
PeerCloses(c) ==
  /\ c \in open /\ open' = open \ {c}
  /\ UNCHANGED <<held, stopping, status, runs, side, jobs, raced>>

---------------------------------------------------------------------------
Section(r) ==
  \/ SetupFails(r) \/ Registers(r) \/ ConnectFails(r)
  \/ \E c \in Conn : Connects(r, c)
  \/ SleepEnds(r) \/ ReadsOther(r) \/ ReadsClose(r)
  \/ \E k \in Job : ReadsJob(r, k) \/ ReadsCancel(r, k)

Serves(c) == WriterEnds(c) \/ Pulses(c) \/ Refreshes(c)

Next ==
  \/ \E r \in Run : Start(r) \/ Wake(r) \/ Drop(r) \/ Section(r)
  \/ StopTakes \/ StopMarks
  \/ \E c \in Conn : Serves(c) \/ PeerCloses(c)
  \/ \E k \in Job : Beats(k) \/ Finishes(k)

\* The executor polls every ready task, timers fire and the code between two
\* awaits ends; a probe of the backends and a connect have timeouts of their own
\* (gateway.rs, CATALOG_PROBE_TIMEOUT).  Nothing is assumed of the user, of the
\* coordinator or of the backends: a local one has no read timeout (http.rs,
\* local_client), and a job ignores that its deltas cannot be sent, so that a
\* call, and with it the job, may last for ever.
Fairness ==
  /\ \A r \in Run : WF_vars(Wake(r)) /\ WF_vars(Drop(r)) /\ WF_vars(Section(r))
  /\ \A c \in Conn : WF_vars(WriterEnds(c)) /\ WF_vars(Pulses(c))
                     /\ WF_vars(Refreshes(c))
  /\ \A k \in Job : WF_vars(Beats(k))

Spec == Init /\ [][Next]_vars /\ Fairness

---------------------------------------------------------------------------
(* Properties. *)

\* The worker keeps a lease alive only for a job it still has: whatever ends
\* the job's task, a result, a cancel or the end of its connection, ends the
\* lease heartbeat too (coordinator_client.rs: cancel_job, the exit of
\* connect_and_run and the end of the job's task each abort it).  Otherwise a
\* lease nobody works on would never expire.
BeatMeansWork == beat \subseteq work

\* What the UI polls is what the run does: running from Start until Stop or
\* the run's own failure, connected exactly while the held run reads its
\* socket, unless a Stop overlapped the run's own writes (an aborted run
\* finishes the code it is in, and may mark the status after stop() or after
\* the next start()).
ShownIsTrue ==
  ~raced /\ ~stopping =>
    /\ running = \E r \in Run : r = held /\ Live(r)
    /\ connected = \E r \in Run : r = held /\ at[r] = "reading"

\* Once the other side has closed a connection, everything that speaks for the
\* worker on it ends: its reader, writer, heartbeat and catalog refresh, and the
\* lease heartbeats of its jobs, even those that an aborted run left behind,
\* which only a failing send reaches.  A job left behind may stay, its backend
\* hung, but nothing keeps its lease alive.
Quiet(c) == /\ ~Reads(c) /\ c \notin writer \cup pulse \cup catalog
            /\ JobsOf(c) \cap beat = {}
ClosedFallsSilent == \A c \in Conn : c \notin open ~> Quiet(c)

\* Stop drops the socket: no connection stays open that no run reads.
StopDropsSocket == \A c \in open : Reads(c)
===========================================================================
