------------------------------- MODULE MCJobs -------------------------------
EXTENDS JobsClaims, TLC

\* Lease ids, workers and the processes of one kind are interchangeable.
Symmetry == Permutations(Lease) \cup Permutations(Worker)
            \cup Permutations(Slot) \cup Permutations(Channel)
            \cup Permutations(Caller)
=============================================================================
