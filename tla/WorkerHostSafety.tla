------------------------- MODULE WorkerHostSafety -------------------------
(***************************************************************************)
(* Proofs about WorkerHost, for any number of runs, connections and jobs.  *)
(*                                                                         *)
(* BeatMeansWork is inductive beside the types.  ShownIsTrue needs two     *)
(* facts about which run may write the status: every live run but the held *)
(* one has been aborted, and unless a Stop overlapped a run's writes only  *)
(* the held run is between two awaits.                                     *)
(***************************************************************************)
EXTENDS WorkerHost, TLAPS

\* Every live run but the held one was aborted, and the held one was not.
OneRun == /\ \A r \in Run : Live(r) /\ r # held => r \in aborted
          /\ held \notin aborted

\* Without a race, only the held run writes the status.
OneWriter == ~raced => awake \subseteq {held} /\ (stopping => held = NoRun)

\* The status tells the truth, but between the two halves of a Stop.
IInv == /\ TypeOK
        /\ BeatMeansWork
        /\ OneRun
        /\ OneWriter
        /\ ShownIsTrue

---------------------------------------------------------------------------
LEMMA InitIInv == Init => IInv
BY WorkerHostAssumption DEF Init, IInv, TypeOK, BeatMeansWork, OneRun, OneWriter,
   ShownIsTrue, Live, Await

\* Types.
LEMMA TypeStep == TypeOK /\ [Next]_vars => TypeOK'
<1> SUFFICES ASSUME TypeOK, [Next]_vars PROVE TypeOK'
  OBVIOUS
<1> USE WorkerHostAssumption DEF TypeOK
<1>1. ASSUME NEW r \in Run, Start(r) PROVE TypeOK'
  BY <1>1 DEF Start, Shows, Await, side, jobs
<1>2. CASE StopTakes
  BY <1>2 DEF StopTakes, status, side, jobs
<1>3. CASE StopMarks
  BY <1>3 DEF StopMarks, Shows, runs, side, jobs
<1>4. ASSUME NEW r \in Run, Wake(r) PROVE TypeOK'
  BY <1>4 DEF Wake, status, side, jobs
<1>5. ASSUME NEW r \in Run, Drop(r) PROVE TypeOK'
  BY <1>5 DEF Drop, status, side, jobs, Await
<1>6. ASSUME NEW r \in Run, Section(r) PROVE TypeOK'
  <2>1. CASE SetupFails(r)
    BY <2>1 DEF SetupFails, Reaches, Shows, Await, side, jobs
  <2>2. CASE Registers(r)
    BY <2>2 DEF Registers, Reaches, Shows, Await, side, jobs
  <2>3. CASE ConnectFails(r) \/ SleepEnds(r) \/ ReadsOther(r)
    BY <2>3 DEF ConnectFails, SleepEnds, ReadsOther, Reaches, Await, status, side,
       jobs
  <2>4. ASSUME NEW c \in Conn, Connects(r, c) PROVE TypeOK'
    BY <2>4 DEF Connects, Reaches, Await, jobs
  <2>5. CASE ReadsClose(r)
    BY <2>5 DEF ReadsClose, Reaches, Await, Ends
  <2>6. ASSUME NEW k \in Job, ReadsJob(r, k) PROVE TypeOK'
    BY <2>6 DEF ReadsJob, Reaches, Await, status, side
  <2>7. ASSUME NEW k \in Job, ReadsCancel(r, k) PROVE TypeOK'
    BY <2>7 DEF ReadsCancel, Reaches, Await, Ends, status, side
  <2> QED
    BY <1>6, <2>1, <2>2, <2>3, <2>4, <2>5, <2>6, <2>7 DEF Section
<1>7. ASSUME NEW c \in Conn, Serves(c) \/ PeerCloses(c) PROVE TypeOK'
  BY <1>7 DEF Serves, WriterEnds, Pulses, Refreshes, PeerCloses, status, runs,
     side, jobs
<1>8. ASSUME NEW k \in Job, Beats(k) PROVE TypeOK'
  BY <1>8 DEF Beats, status, runs, side
<1>9. ASSUME NEW k \in Job, Finishes(k) PROVE TypeOK'
  BY <1>9 DEF Finishes, Ends, status, runs, side
<1>10. CASE UNCHANGED vars
  BY <1>10 DEF vars, status, runs, side, jobs
<1> QED
  BY <1>1, <1>2, <1>3, <1>4, <1>5, <1>6, <1>7, <1>8, <1>9, <1>10 DEF Next

\* Whatever ends a job's task ends its lease heartbeat.
LEMMA BeatStep == TypeOK /\ BeatMeansWork /\ [Next]_vars => BeatMeansWork'
<1> SUFFICES ASSUME TypeOK, BeatMeansWork, [Next]_vars PROVE BeatMeansWork'
  OBVIOUS
<1> USE DEF BeatMeansWork
<1>1. CASE UNCHANGED jobs
  BY <1>1 DEF jobs
<1>2. ASSUME NEW r \in Run, NEW k \in Job, ReadsJob(r, k) PROVE BeatMeansWork'
  BY <1>2 DEF ReadsJob
<1>3. ASSUME NEW K, Ends(K) PROVE BeatMeansWork'
  BY <1>3 DEF Ends
<1>4. ASSUME NEW k \in Job, Beats(k) PROVE BeatMeansWork'
  BY <1>4 DEF Beats
<1>5. ASSUME NEW r \in Run, Section(r) PROVE BeatMeansWork'
  BY <1>5, <1>1, <1>2, <1>3 DEF Section, SetupFails, Registers, ConnectFails,
     Connects, SleepEnds, ReadsOther, ReadsClose, ReadsCancel
<1> QED
  BY <1>1, <1>3, <1>4, <1>5 DEF Next, Start, StopTakes, StopMarks, Wake, Drop,
     Serves, WriterEnds, Pulses, Refreshes, PeerCloses, Finishes, vars

---------------------------------------------------------------------------
\* What the status depends on.
view == <<held, stopping, status, runs, raced>>

\* Sections other than those that write the status.
Silent(r) == \/ ConnectFails(r) \/ SleepEnds(r) \/ ReadsOther(r)
             \/ \E k \in Job : ReadsJob(r, k) \/ ReadsCancel(r, k)

LEMMA ViewSame ==
  ASSUME OneRun, OneWriter, ShownIsTrue, UNCHANGED view
  PROVE  (OneRun /\ OneWriter /\ ShownIsTrue)'
BY DEF OneRun, OneWriter, ShownIsTrue, Live, view, status, runs

\* A stretch between two awaits keeps the run where only its end can tell.
LEMMA SectionShown ==
  ASSUME TypeOK, OneRun, OneWriter, ShownIsTrue, NEW r \in Run, Section(r)
  PROVE  (OneRun /\ OneWriter /\ ShownIsTrue)'
<1> USE WorkerHostAssumption DEF OneRun, OneWriter, ShownIsTrue, Live, TypeOK,
        Reaches
<1>1. CASE SetupFails(r)
  BY <1>1 DEF SetupFails, Shows
<1>2. CASE Registers(r)
  BY <1>2 DEF Registers, Shows
<1>3. ASSUME NEW c \in Conn, Connects(r, c) PROVE (OneRun /\ OneWriter /\ ShownIsTrue)'
  BY <1>3 DEF Connects
<1>4. CASE ReadsClose(r)
  BY <1>4 DEF ReadsClose
<1>5. CASE Silent(r)
  <2>1. PICK to \in {"connecting", "reading", "sleeping"} :
          at' = [at EXCEPT ![r] = to] /\ (to = "reading" <=> at[r] = "reading")
    BY <1>5 DEF Silent, ConnectFails, SleepEnds, ReadsOther, ReadsJob, ReadsCancel
  <2>2. /\ r \in awake /\ awake' = awake \ {r} /\ at[r] # "none"
        /\ UNCHANGED <<held, stopping, running, connected, aborted, raced>>
    BY <1>5 DEF Silent, ConnectFails, SleepEnds, ReadsOther, ReadsJob, ReadsCancel,
       status
  <2>3. /\ \A q \in Run : (at'[q] # "none") = (at[q] # "none")
        /\ \A q \in Run : (at'[q] = "reading") = (at[q] = "reading")
    BY <2>1, <2>2
  <2> QED
    BY <2>2, <2>3
<1> QED
  BY <1>1, <1>2, <1>3, <1>4, <1>5 DEF Section, Silent

LEMMA ShownStep ==
  ASSUME TypeOK, OneRun, OneWriter, ShownIsTrue, [Next]_vars
  PROVE  (OneRun /\ OneWriter /\ ShownIsTrue)'
<1> USE WorkerHostAssumption
<1>1. ASSUME NEW r \in Run, Start(r) PROVE (OneRun /\ OneWriter /\ ShownIsTrue)'
  BY <1>1 DEF Start, Shows, OneRun, OneWriter, ShownIsTrue, Live, TypeOK
<1>2. CASE StopTakes
  BY <1>2 DEF StopTakes, OneRun, OneWriter, ShownIsTrue, Live, TypeOK
<1>3. CASE StopMarks
  BY <1>3 DEF StopMarks, Shows, runs, OneRun, OneWriter, ShownIsTrue, Live, TypeOK
<1>4. ASSUME NEW r \in Run, Wake(r) PROVE (OneRun /\ OneWriter /\ ShownIsTrue)'
  BY <1>4 DEF Wake, status, OneRun, OneWriter, ShownIsTrue, Live, TypeOK
<1>5. ASSUME NEW r \in Run, Drop(r) PROVE (OneRun /\ OneWriter /\ ShownIsTrue)'
  BY <1>5 DEF Drop, status, OneRun, OneWriter, ShownIsTrue, Live, TypeOK
<1>6. ASSUME NEW r \in Run, Section(r) PROVE (OneRun /\ OneWriter /\ ShownIsTrue)'
  BY <1>6, SectionShown
<1>7. CASE UNCHANGED view
  BY <1>7, ViewSame
<1> QED
  BY <1>1, <1>2, <1>3, <1>4, <1>5, <1>6, <1>7 DEF Next, Serves, WriterEnds, Pulses,
     Refreshes, PeerCloses, Beats, Finishes, vars, view

LEMMA NextIInv == IInv /\ [Next]_vars => IInv'
BY TypeStep, BeatStep, ShownStep DEF IInv

LEMMA AlwaysIInv == Spec => []IInv
BY InitIInv, NextIInv, PTL DEF Spec

---------------------------------------------------------------------------
\* The types of the tasks of a worker process, for every number of them: a job
\* belongs to a connection exactly while its task lives.
THEOREM TypeCorrect == Spec => []TypeOK
BY AlwaysIInv, PTL DEF IInv

\* A lease heartbeat never outlives the job it beats for (coordinator_client.rs,
\* cancel_job, track_job's table and the exit of connect_and_run).
THEOREM BeatsOnlyForWork == Spec => []BeatMeansWork
BY AlwaysIInv, PTL DEF IInv

\* The status the UI polls is the state of the held run, but for the races with
\* Stop that raced records (runner.rs, RunStatus).
THEOREM StatusIsTrue == Spec => []ShownIsTrue
BY AlwaysIInv, PTL DEF IInv

\* Start never leaves two runs at work: all but the held one are aborted
\* (runner.rs, the guard of start and the abort of stop).
THEOREM AtMostOneRun == Spec => []OneRun
BY AlwaysIInv, PTL DEF IInv
===========================================================================
