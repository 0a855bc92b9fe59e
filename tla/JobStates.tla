----------------------------- MODULE JobStates -----------------------------
(***************************************************************************)
(* The two lifecycle columns of a job row (jobs/state.ex): `status`, the   *)
(* transactional one every compare-and-swap guards on, and `state`, the    *)
(* observational one a delegating caller polls.  Pure definitions.         *)
(***************************************************************************)

\* A job id that was never submitted has no row; the modules that keep one
\* record per id give it this status.
Absent == "absent"

StatesFor == [pending        |-> {"queued", "routing"},
              leased         |-> {"leased", "loading_model", "prefill",
                                  "generating", "finalizing"},
              awaiting_input |-> {"input_required"},
              done           |-> {"completed"},
              failed         |-> {"failed", "expired"},
              cancelled      |-> {"cancelled"}]

Statuses == DOMAIN StatesFor
States   == UNION {StatesFor[s] : s \in Statuses}

StatusOf(state) == CHOOSE s \in Statuses : state \in StatesFor[s]

\* The statuses no guarded UPDATE of jobs.ex leaves.
Terminal == {"done", "failed", "cancelled"}
Open     == {"pending", "leased", "awaiting_input"}

Initial == "queued"

\* The phases a worker may report in a progress frame (put_state/2).
ReportablePhases == {"loading_model", "prefill", "generating", "finalizing"}

\* The five statuses MCP defines.  A failed job is a completed tool call that
\* carries an error, so `failed` is not one of its values.
McpStatus(state) ==
  LET status == StatusOf(state)
  IN  CASE status \in {"done", "failed"}  -> "completed"
        [] status = "cancelled"           -> "cancelled"
        [] status = "awaiting_input"      -> "input_required"
        [] status \in {"pending", "leased"} -> "working"
=============================================================================
