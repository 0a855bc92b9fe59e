--------------------------- MODULE JobsInvariant ---------------------------
(***************************************************************************)
(* The inductive invariant of module Jobs.  The invariants of              *)
(* JobsProperties are not inductive by themselves: that a decision taken   *)
(* from a snapshot still holds depends on a lease id never being live      *)
(* twice, which depends on every lease id in use having been issued.       *)
(***************************************************************************)
EXTENDS JobsProperties

\* What is being worked on, or was sent to a worker, has a row.
Submitted ==
  /\ \A p \in Proc : \A j \in h[p].todo : row[j].status # Absent
  /\ \A m \in sent : row[m.job].status # Absent

\* A job that was never submitted has spent nothing.
Unsubmitted ==
  \A j \in Job : row[j].status = Absent =>
    row[j].attempts = 0 /\ row[j].rounds = 0

Known == issued \cup {NoLease}

\* Every lease id in a row, a snapshot, a request or a message was issued, so
\* the next one issued is none of them.
LeasesKnown ==
  /\ \A j \in Job : row[j].lease \in Known
  /\ \A p \in Proc : /\ h[p].lease \in Known
                     /\ \A j \in Job : h[p].snap[j].lease \in Known
  /\ \A m \in sent : m.lease \in Known

\* SnapshotCurrent, and the same for the reclaim loop while it tells a worker.
DecisionsHold ==
  \A p \in Proc : \A j \in h[p].todo :
    /\ h[p].op \in {"reclaim", "tell"} /\ IsLive(row[j], h[p].snap[j].lease) =>
         h[p].snap[j].attempts = row[j].attempts
    /\ h[p].op = "park" /\ IsLive(row[j], h[p].lease) =>
         /\ h[p].snap[j].rounds = row[j].rounds
         /\ h[p].snap[j].rounds < MaxRounds

WorkingStates == {"queued", "routing", "leased", "loading_model", "prefill",
                  "generating", "finalizing"}
OverStates == {"completed", "failed", "expired", "cancelled"}

\* The pairs of columns that occur.
ColumnsPaired ==
  \A j \in Job :
    /\ row[j].status \in {"pending", "leased"} => state[j] \in WorkingStates
    /\ row[j].status = "awaiting_input" => state[j] = "input_required"
    /\ row[j].status \in Terminal => state[j] \in OverStates

\* No database call of a channel fails.
ChannelsStore == Fallible \cap Channel = {}

IInv ==
  /\ TypeOK
  /\ Submitted
  /\ Unsubmitted
  /\ LeasesKnown
  /\ LeaseColumns
  /\ DecisionsHold
  /\ RoundsBounded
  /\ LeaseWithinDeadline
  /\ ColumnsPaired
  /\ ChannelsStore => OkIsTheEnd

----------------------------------------------------------------------------
(* What one step does to one row: nine kinds of change.  Primed operators, *)
(* so that the proofs reason about kinds rather than about every action.   *)

CountersKept(j) == /\ row'[j].attempts = row[j].attempts
                   /\ row'[j].rounds = row[j].rounds
Released(j) == row'[j].worker = NoWorker /\ row'[j].lease = NoLease
LeaseKept(j) == /\ row'[j].worker = row[j].worker
                /\ row'[j].lease = row[j].lease

Stays(j) ==
  /\ row'[j] = row[j]
  /\ \/ state'[j] = state[j]
     \/ row[j].status \in {"pending", "leased"} /\ state'[j] \in WorkingStates

Enters(j) ==
  /\ row[j].status = Absent /\ row'[j].status = "pending"
  /\ Released(j) /\ row'[j].attempts = 0 /\ row'[j].rounds = 0
  /\ state'[j] \in WorkingStates

Ticks(j) ==
  /\ row[j].status \in Open /\ row'[j].status = row[j].status
  /\ LeaseKept(j) /\ CountersKept(j)
  /\ row[j].status = "leased" /\ row'[j].overdue => row'[j].due
  /\ state'[j] = state[j]

IsAssigned(j) ==
  /\ row[j].status = "pending" /\ row'[j].status = "leased"
  /\ row'[j].worker \in Worker
  /\ row'[j].lease \in (Lease \cap issued') \ issued
  /\ CountersKept(j)
  /\ row'[j].overdue => row'[j].due
  /\ state'[j] \in WorkingStates

IsRetried(j) ==
  /\ row[j].status \in {"pending", "leased"} /\ row'[j].status = "pending"
  /\ Released(j)
  /\ row'[j].attempts = row[j].attempts + 1 /\ row'[j].rounds = row[j].rounds
  /\ state'[j] \in WorkingStates \cup {state[j]}

IsExhausted(j) ==
  /\ row[j].status = "leased" /\ row'[j].status = "failed"
  /\ Released(j) /\ CountersKept(j)
  /\ state'[j] \in OverStates

IsParked(j) ==
  /\ \E p \in Proc : Working(p, "park", j) /\ IsLive(row[j], h[p].lease)
  /\ row'[j].status = "awaiting_input"
  /\ Released(j)
  /\ row'[j].attempts = row[j].attempts /\ row'[j].rounds = row[j].rounds + 1
  /\ state'[j] = "input_required"

IsResumed(j) ==
  /\ row[j].status = "awaiting_input" /\ row'[j].status = "pending"
  /\ LeaseKept(j) /\ CountersKept(j)
  /\ state'[j] \in WorkingStates

IsFinished(j) ==
  /\ row[j].status \in Open /\ row'[j].status \in Terminal
  /\ LeaseKept(j) /\ CountersKept(j)
  /\ state'[j] \in OverStates

RowStep(j) ==
  \/ Stays(j) \/ Enters(j) \/ Ticks(j) \/ IsAssigned(j) \/ IsRetried(j)
  \/ IsExhausted(j) \/ IsParked(j) \/ IsResumed(j) \/ IsFinished(j)

\* A step changes one row.
OneRowStep ==
  /\ issued \subseteq issued'
  /\ \/ UNCHANGED <<row, state>>
     \/ \E j \in Job : /\ RowStep(j)
                       /\ \A k \in Job \ {j} : row'[k] = row[k] /\ state'[k] = state[k]

(* What one step does to one handler. *)

HandlerReads(p) ==
  /\ row' = row
  /\ h'[p].snap = Select(h'[p].todo)
  /\ \A j \in h'[p].todo : row[j].status # Absent
  /\ IF h'[p].op = "park"
     THEN /\ \E m \in sent : m.lease = h'[p].lease
          /\ \A j \in h'[p].todo : row[j].rounds < MaxRounds
     ELSE h'[p].lease = NoLease

HandlerRenews(p) ==
  /\ h'[p].snap = NoSnap /\ h'[p].lease = NoLease
  /\ \A j \in h'[p].todo : row[j].status # Absent

HandlerGoesOn(p) ==
  /\ h'[p].snap = h[p].snap /\ h'[p].lease = h[p].lease
  /\ h'[p].todo \subseteq h[p].todo
  /\ h'[p].op # "park"
  /\ h'[p].op \in {"reclaim", "tell"} => h[p].op \in {"reclaim", "tell"}

HandlerStep(p) ==
  h'[p] = h[p] \/ HandlerReads(p) \/ HandlerRenews(p) \/ HandlerGoesOn(p)

\* A step sends at most the lease that one row holds.
SendStep ==
  \/ sent' = sent
  \/ \E p \in Proc : \E j \in h[p].todo, w \in Worker :
       sent' = sent \cup {[to |-> w, job |-> j, lease |-> row[j].lease]}
=============================================================================
