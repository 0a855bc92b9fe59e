------------------------------ MODULE Routing ------------------------------
(***************************************************************************)
(* The two decisions about where a job runs: the coordinator's, on the     *)
(* snapshot a worker registered (router.ex, worker.ex), and the worker's,  *)
(* on its own catalog and configuration (gateway.rs, privacy.rs).          *)
(*                                                                         *)
(* A model is [name, external].  Only models that serve the job's          *)
(* capability are listed, so a catalog without models serves nothing.      *)
(***************************************************************************)
CONSTANT NoModel     \* the job names no model

Level == {"public", "private", "sensitive", "local_only"}

Preference == {"prefer_local", "prefer_external", "external_only", "local_only"}

HasLocal(models) == \E m \in models : ~m.external
HasExternal(models) == \E m \in models : m.external
ServesModel(models, name) == \E m \in models : m.name = name

----------------------------------------------------------------------------
(* The coordinator *)

\* A mutant: a private job may go to any worker with a provider.
PrivacyWithoutConsent(job, models) ==
  CASE job.privacy \in {"public", "private"} -> TRUE
    [] OTHER                                -> HasLocal(models)

\* The privacy table, privacy_compatible?/2.
PrivacyCompatible(job, models) ==
  CASE job.privacy = "public"  -> TRUE
    [] job.privacy = "private" -> HasLocal(models) \/ (job.allow /\ HasExternal(models))
    [] OTHER                   -> HasLocal(models)

\* prefer_requested_model/2: a model that is named is an exact constraint, and
\* require_local is read only when none is.
PreferRequestedModel(job, models) ==
  IF job.model = NoModel
  THEN job.local => HasLocal(models)
  ELSE ServesModel(models, job.model)

\* route/2, without the hourly ceiling: any eligible worker may have the best
\* score.
Routable(job, worker) ==
  /\ job.privacy \in worker.levels
  /\ worker.models # {}
  /\ PrivacyCompatible(job, worker.models)
  /\ job.context => worker.pauses
  /\ PreferRequestedModel(job, worker.models)

----------------------------------------------------------------------------
(* The worker *)

\* A mutant of check/4: sensitive is treated as private without consent.
CheckPolicyOnly(job, m, cfg) ==
  m.external => job.privacy # "local_only" /\ job.privacy \in cfg.external

\* privacy::check
Check(job, m, cfg) ==
  m.external =>
    /\ job.privacy # "local_only"
    /\ job.privacy = "public" \/ job.allow
    /\ job.privacy \in cfg.external

\* A mutant of candidates_for/2: the two exclusive preferences only order.
CandidatesOrdered(job, models, cfg) ==
  LET named == {m \in models : job.model \in {NoModel, m.name}}
  IN  IF cfg.preference = "prefer_local" /\ ~cfg.fallback /\ HasLocal(named)
      THEN {m \in named : ~m.external} ELSE named

\* candidates_for/2, as a set.
CandidatesFor(job, models, cfg) ==
  LET named == {m \in models : job.model \in {NoModel, m.name}}
      kept  == {m \in named : /\ cfg.preference = "local_only" => ~m.external
                              /\ cfg.preference = "external_only" => m.external}
  IN  IF cfg.preference = "prefer_local" /\ ~cfg.fallback /\ HasLocal(kept)
      THEN {m \in kept : ~m.external} ELSE kept

\* A mutant: the first candidate that is allowed, in the catalog's order.
ChoicesUnsorted(job, models, cfg) ==
  {m \in CandidatesFor(job, models, cfg) : Check(job, m, cfg)}

\* The candidates execute_observed/3 may settle on: the first one allowed in
\* the order of preference; the order within a kind is the catalog's.
Choices(job, models, cfg) ==
  LET allowed    == {m \in CandidatesFor(job, models, cfg) : Check(job, m, cfg)}
      localFirst == cfg.preference \in {"prefer_local", "local_only"}
      first      == {m \in allowed : m.external # localFirst}
  IN  IF first # {} THEN first ELSE allowed
=============================================================================
