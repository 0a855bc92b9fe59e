---------------------------- MODULE JobLifecycle ----------------------------
(***************************************************************************)
(* What the coordinator promises about one job, whatever races it: the     *)
(* lifecycle a caller is told about (the moduledoc of jobs.ex and the      *)
(* status table of jobs/state.ex) with its two counters.  Every transition *)
(* is of one job; `attempts` counts returns to pending that were failures, *)
(* `rounds` the questions the job has asked, never more than MaxRounds;    *)
(* and nothing leaves a terminal status.  Module Jobs implements it.       *)
(***************************************************************************)
EXTENDS JobStates, Integers

CONSTANTS Job, MaxRounds

VARIABLES status, attempts, rounds

vars == <<status, attempts, rounds>>

Become(j, s) == status' = [status EXCEPT ![j] = s]

Submit(j) ==
  /\ status[j] = Absent
  /\ Become(j, "pending")
  /\ UNCHANGED <<attempts, rounds>>

Assign(j) ==
  /\ status[j] = "pending"
  /\ Become(j, "leased")
  /\ UNCHANGED <<attempts, rounds>>

\* A failed attempt: the job is pending again and the attempt is counted.
Retry(j) ==
  /\ status[j] \in {"pending", "leased"}
  /\ Become(j, "pending")
  /\ attempts' = [attempts EXCEPT ![j] = @ + 1]
  /\ UNCHANGED rounds

\* Only a job a worker holds can ask its caller something.
Ask(j) ==
  /\ status[j] = "leased"
  /\ rounds[j] < MaxRounds
  /\ Become(j, "awaiting_input")
  /\ rounds' = [rounds EXCEPT ![j] = @ + 1]
  /\ UNCHANGED attempts

\* An answer costs no attempt.
Answer(j) ==
  /\ status[j] = "awaiting_input"
  /\ Become(j, "pending")
  /\ UNCHANGED <<attempts, rounds>>

Finish(j, s) ==
  /\ status[j] \in Open /\ s \in Terminal
  /\ Become(j, s)
  /\ UNCHANGED <<attempts, rounds>>

Init ==
  /\ status   = [j \in Job |-> Absent]
  /\ attempts = [j \in Job |-> 0]
  /\ rounds   = [j \in Job |-> 0]

Next ==
  \E j \in Job :
    \/ Submit(j) \/ Assign(j) \/ Retry(j) \/ Ask(j) \/ Answer(j)
    \/ \E s \in Terminal : Finish(j, s)

Spec == Init /\ [][Next]_vars
=============================================================================
