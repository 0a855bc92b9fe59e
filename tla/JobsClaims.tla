----------------------------- MODULE JobsClaims -----------------------------
(***************************************************************************)
(* What a comment of the repository says of the job row and the code does  *)
(* not keep.                                                               *)
(***************************************************************************)
EXTENDS JobsProperties

\* "Cancel a pending or leased job, and tell its worker to stop" (jobs.ex:941):
\* once no cancel is under way, the worker that was sent the cancelled row's
\* lease has been told.
CancelledLeaseIsTold ==
  \A j \in Job :
    (/\ row[j].status = "cancelled" /\ row[j].lease # NoLease
     /\ Delivered(j, row[j].lease)
     /\ \A p \in Proc : IsIdle(p)) =>
        [job |-> j, lease |-> row[j].lease] \in cancels
=============================================================================
