------------------------------ MODULE Dispatch ------------------------------
(***************************************************************************)
(* A request on its way from a caller to a model: the front doors settle   *)
(* its privacy (api_router.ex, delegation.ex), the coordinator routes it   *)
(* on what a worker registered, the worker decides again on what it has by *)
(* then (gateway.rs) and holds a reservation while it runs (limits.rs).    *)
(*                                                                         *)
(* Leases, attempts and connections are the subject of Jobs and WorkerLink;*)
(* here a lease may end at any time, and a job that ended badly may or may *)
(* not be queued again.                                                    *)
(***************************************************************************)
EXTENDS Integers, FiniteSets, Routing

CONSTANTS
  Job, Worker, NoWorker,
  Request,     \* what callers ask for
  NoRequest,
  Config,      \* configurations a worker may run with
  Backend,     \* the models a worker can have
  Policy,      \* sets of levels an admin may grant
  NoSnapshot

Asked == [door : {"openai", "mcp"}, privacy : Level \cup {"unset"},
          allow : {"yes", "no", "unset"}, model : {m.name : m \in Backend} \cup {NoModel},
          local : BOOLEAN, context : BOOLEAN]

ASSUME DispatchAssumption ==
  /\ IsFiniteSet(Job)
  /\ NoWorker \notin Worker
  /\ \A m \in Backend : m.external \in BOOLEAN /\ m.name # NoModel
  /\ Request \subseteq Asked /\ NoRequest \notin Request
  /\ Policy \subseteq SUBSET Level
  /\ \A c \in Config :
       /\ c.preference \in Preference
       /\ c.fallback \in BOOLEAN /\ c.pauses \in BOOLEAN
       /\ c.accepts \subseteq Level /\ c.external \subseteq Level
       /\ c.parallel \in Nat /\ c.perHour \in Nat

VARIABLES
  asked,     \* the caller's own words, which only the properties read
  row,       \* the job as it was stored
  phase,     \* where it is
  at,        \* the worker it is leased to
  model,     \* the model it runs on
  granted,   \* worker_keys.accepted_job_levels
  shown,     \* the worker's snapshot in Presence
  config,    \* the worker's configuration
  boot,      \* its catalog when it started, which every join repeats
  catalog,   \* its catalog now
  times,     \* LimitGuard: requests of the trailing hour
  slots      \* LimitGuard: provider calls in flight

jobs    == <<asked, row, phase, at, model>>
workers == <<granted, shown, config, boot, catalog>>
limits  == <<times, slots>>
vars    == <<jobs, workers, limits>>

Stored   == [privacy : Level, allow : BOOLEAN,
             model : {m.name : m \in Backend} \cup {NoModel},
             local : BOOLEAN, context : BOOLEAN]
Snapshot == [levels : SUBSET Level, models : SUBSET Backend, pauses : BOOLEAN]
Phases   == {"none", "pending", "leased", "running", "done"}

TypeOK ==
  /\ asked \in [Job -> Request \cup {NoRequest}]
  /\ row \in [Job -> Stored \cup {NoRequest}]
  /\ phase \in [Job -> Phases]
  /\ at \in [Job -> Worker \cup {NoWorker}]
  /\ model \in [Job -> Backend \cup {NoModel}]
  /\ granted \in [Worker -> SUBSET Level]
  /\ shown \in [Worker -> Snapshot \cup {NoSnapshot}]
  /\ config \in [Worker -> Config]
  /\ boot \in [Worker -> SUBSET Backend]
  /\ catalog \in [Worker -> SUBSET Backend]
  /\ times \in [Worker -> Nat]
  /\ slots \in [Worker -> Nat]

Init ==
  /\ asked = [j \in Job |-> NoRequest]
  /\ row = [j \in Job |-> NoRequest]
  /\ phase = [j \in Job |-> "none"]
  /\ at = [j \in Job |-> NoWorker]
  /\ model = [j \in Job |-> NoModel]
  /\ granted = [w \in Worker |-> {"public"}]
  /\ shown = [w \in Worker |-> NoSnapshot]
  /\ config \in [Worker -> Config]
  /\ boot \in [Worker -> SUBSET Backend]
  /\ catalog = boot
  /\ times = [w \in Worker |-> 0]
  /\ slots = [w \in Worker |-> 0]

Listed == {w \in Worker : shown[w] # NoSnapshot}

----------------------------------------------------------------------------
(* The front doors *)

LevelOf(r) ==
  IF r.privacy # "unset" THEN r.privacy
  ELSE IF r.door = "openai" THEN "public" ELSE "local_only"

\* A mutant: what the caller says of external providers stands.
AllowAsked(r) == r.allow = "yes" \/ (r.allow = "unset" /\ r.door = "openai")

\* resolve_privacy/2 of both doors: two levels refuse whatever else is asked.
AllowOf(r) ==
  /\ LevelOf(r) \notin {"sensitive", "local_only"}
  /\ r.allow = "yes" \/ (r.allow = "unset" /\ r.door = "openai")

\* A model, and over MCP a level, that no connected worker could take is
\* refused here; with no worker connected everything is accepted.
Admissible(r) ==
  /\ \/ r.model = NoModel
     \/ \A w \in Listed : shown[w].models = {}
     \/ \E w \in Listed : ServesModel(shown[w].models, r.model)
  /\ r.door = "mcp" /\ Listed # {} => \E w \in Listed : LevelOf(r) \in shown[w].levels

\* The row of a request; the payload of the HTTP door has no model_policy.
StoredOf(r) ==
  [privacy |-> LevelOf(r), allow |-> AllowOf(r), model |-> r.model,
   local |-> r.local /\ r.door = "mcp", context |-> r.context]

\* Delegation.submit/1, and submit/5 of the HTTP door.
Submit(j, r) ==
  /\ phase[j] = "none" /\ Admissible(r)
  /\ phase' = [phase EXCEPT ![j] = "pending"]
  /\ asked' = [asked EXCEPT ![j] = r]
  /\ row' = [row EXCEPT ![j] = StoredOf(r)]
  /\ UNCHANGED <<at, model, workers, limits>>

----------------------------------------------------------------------------
(* What the coordinator knows of a worker *)

\* set_accepted_levels/2: the row, and in its own time the snapshot.
Grant(w, levels) ==
  /\ granted' = [granted EXCEPT ![w] = levels]
  /\ UNCHANGED <<jobs, shown, config, boot, catalog, limits>>

ApplyGrant(w) ==
  /\ shown[w] # NoSnapshot
  /\ shown' = [shown EXCEPT ![w].levels = granted[w]]
  /\ UNCHANGED <<jobs, granted, config, boot, catalog, limits>>

\* handle_register/1, at a join with the models the worker had when it started
\* and at a refresh with those it has.
Register(w) ==
  /\ \E models \in {boot[w], catalog[w]} :
       shown' = [shown EXCEPT ![w] =
         [levels |-> granted[w], models |-> models, pauses |-> config[w].pauses]]
  /\ UNCHANGED <<jobs, granted, config, boot, catalog, limits>>

Leave(w) ==
  /\ shown' = [shown EXCEPT ![w] = NoSnapshot]
  /\ UNCHANGED <<jobs, granted, config, boot, catalog, limits>>

\* perform/1
Lease(j, w) ==
  /\ phase[j] = "pending"
  /\ w \in Listed /\ Routable(row[j], shown[w])
  /\ phase' = [phase EXCEPT ![j] = "leased"]
  /\ at' = [at EXCEPT ![j] = w]
  /\ UNCHANGED <<asked, row, model, workers, limits>>

----------------------------------------------------------------------------
(* The worker *)

\* refresh_catalog/0: a probe that fails leaves its models out.
Probe(w) ==
  /\ \E models \in SUBSET Backend : catalog' = [catalog EXCEPT ![w] = models]
  /\ UNCHANGED <<jobs, granted, shown, config, boot, limits>>

Options(j) ==
  LET cfg == config[at[j]]
  IN  IF row[j].privacy \in cfg.accepts
      THEN Choices(row[j], catalog[at[j]], cfg) ELSE {}

\* LimitGuard::try_reserve
Reserve(w, m) ==
  /\ times[w] < config[w].perHour
  /\ m.external => slots[w] < config[w].parallel
  /\ times' = [times EXCEPT ![w] = @ + 1]
  /\ slots' = [slots EXCEPT ![w] = IF m.external THEN @ + 1 ELSE @]

\* execute_observed/3, up to the call of the adapter.
Start(j) ==
  /\ phase[j] = "leased"
  /\ \E m \in Options(j) :
       /\ Reserve(at[j], m)
       /\ model' = [model EXCEPT ![j] = m]
  /\ phase' = [phase EXCEPT ![j] = "running"]
  /\ UNCHANGED <<asked, row, at, workers>>

\* A mutant: the reservation gives back a slot it may not have taken.
ReleaseUnflagged(j) ==
  slots' = IF phase[j] = "running" THEN [slots EXCEPT ![at[j]] = @ - 1] ELSE slots

\* The lease is over: a rejection, a payload that does not parse, a result, an
\* error, an invalid output, a cancel or a lost connection.  The reservation is
\* dropped with the task, whichever it was.
Release(j) ==
  slots' = IF phase[j] = "running" /\ model[j].external /\ slots[at[j]] > 0
           THEN [slots EXCEPT ![at[j]] = @ - 1] ELSE slots

\* A mutant: the slot is given back on success only.
EndKeepsSlot(j) ==
  /\ phase[j] \in {"leased", "running"}
  /\ \E next \in {"pending", "done"} :
       /\ phase' = [phase EXCEPT ![j] = next]
       /\ IF next = "done" THEN Release(j) ELSE UNCHANGED slots
  /\ at' = [at EXCEPT ![j] = NoWorker]
  /\ model' = [model EXCEPT ![j] = NoModel]
  /\ UNCHANGED <<asked, row, workers, times>>

End(j) ==
  /\ phase[j] \in {"leased", "running"}
  /\ \E next \in {"pending", "done"} : phase' = [phase EXCEPT ![j] = next]
  /\ at' = [at EXCEPT ![j] = NoWorker]
  /\ model' = [model EXCEPT ![j] = NoModel]
  /\ Release(j)
  /\ UNCHANGED <<asked, row, workers, times>>

\* A request leaves the rolling hour.
Age(w) ==
  /\ times[w] > 0
  /\ times' = [times EXCEPT ![w] = @ - 1]
  /\ UNCHANGED <<jobs, workers, slots>>

----------------------------------------------------------------------------
Next ==
  \/ \E j \in Job :
       \/ \E r \in Request : Submit(j, r)
       \/ \E w \in Worker : Lease(j, w)
       \/ Start(j) \/ End(j)
  \/ \E w \in Worker :
       \/ \E levels \in Policy : Grant(w, levels)
       \/ ApplyGrant(w) \/ Register(w) \/ Leave(w) \/ Probe(w) \/ Age(w)

Spec == Init /\ [][Next]_vars

----------------------------------------------------------------------------
(* Properties *)

OnProvider(j) == phase[j] = "running" /\ model[j].external

\* "sensitive and local_only never leave the machine that runs them, whatever
\* else is asked for" (tools.ex:401): whatever the caller says of providers,
\* the operator allows, the worker prefers or the catalog has become since.
NeverLeaves ==
  \A j \in Job : OnProvider(j) => row[j].privacy \notin {"sensitive", "local_only"}

\* A job that is not public runs on a provider only if its caller asked for
\* private and did not refuse: over MCP by saying yes, at the HTTP door also by
\* saying nothing (api_router.ex:674); and only if the operator of that worker
\* allows the level (privacy.rs:33).
ExternalByConsent ==
  \A j \in Job : OnProvider(j) =>
    /\ row[j].privacy # "public" =>
         /\ asked[j].privacy = "private" /\ asked[j].allow # "no"
         /\ asked[j].door = "mcp" => asked[j].allow = "yes"
    /\ row[j].privacy \in config[at[j]].external

\* The operator's word and the caller's model hold on the machine itself,
\* whatever the admin granted and the coordinator believed: levels not
\* accepted do not run, the exclusive preferences are not overruled, and no
\* other model is substituted (gateway.rs:141, 147).
OperatorObeyed ==
  \A j \in Job : phase[j] = "running" =>
    /\ row[j].privacy \in config[at[j]].accepts
    /\ config[at[j]].preference = "local_only" => ~model[j].external
    /\ config[at[j]].preference = "external_only" => model[j].external
    /\ row[j].model \in {NoModel, model[j].name}

\* A slot is held by exactly the provider calls that run, over successes,
\* errors, cancels and lost connections, and never by more than the limit
\* (limits.rs:33, 75).
SlotsBalance ==
  \A w \in Worker :
    /\ slots[w] = Cardinality({j \in Job : OnProvider(j) /\ at[j] = w})
    /\ slots[w] <= config[w].parallel

\* A worker that prefers local models calls a provider only for a job that no
\* local model it has at that moment can serve, with or without
\* fallback_to_external_provider (gateway.rs:156).
ProviderIsLastResort ==
  [][\A j \in Job :
       /\ phase[j] = "leased" /\ OnProvider(j)'
       /\ config[at[j]].preference = "prefer_local"
       => ~HasLocal({m \in catalog[at[j]] : row[j].model \in {NoModel, m.name}})]_vars

\* What the router may send to a worker whose registration is current, the
\* worker can run, if its operator refuses nothing and no model is named: the
\* two decisions, in two languages, agree.
RoutableIsRunnable ==
  \A r \in Request, w \in Listed :
    LET job == StoredOf(r)
    IN  /\ shown[w].models = catalog[w]
        /\ config[w].accepts = Level /\ config[w].external = Level
        /\ config[w].preference \in {"prefer_local", "prefer_external"}
        /\ job.model = NoModel
        /\ Routable(job, shown[w])
        => Choices(job, catalog[w], config[w]) # {}
=============================================================================
