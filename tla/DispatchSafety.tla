--------------------------- MODULE DispatchSafety ---------------------------
(***************************************************************************)
(* Where a job may run and what it holds there, for any number of jobs and *)
(* workers, any catalogs, configurations and requests.                     *)
(***************************************************************************)
EXTENDS Dispatch, FiniteSetTheorems, TLAPS

\* Jobs with a provider slot at w.
Holding(w) == {j \in Job : OnProvider(j) /\ at[j] = w}

\* A stored job is what a door made of its caller's words, from then on.
Sealed(j) ==
  phase[j] # "none" => asked[j] \in Request /\ row[j] = StoredOf(asked[j])

\* What execute_observed/3 decided still holds while the job runs: neither its
\* row nor the configuration changes; the catalog may.
Placed(j) ==
  /\ phase[j] \in {"leased", "running"} => at[j] \in Worker
  /\ phase[j] = "running" =>
       /\ model[j] \in Backend
       /\ row[j].privacy \in config[at[j]].accepts
       /\ Check(row[j], model[j], config[at[j]])
       /\ config[at[j]].preference = "local_only" => ~model[j].external
       /\ config[at[j]].preference = "external_only" => model[j].external
       /\ row[j].model \in {NoModel, model[j].name}

Counted(w) ==
  /\ slots[w] = Cardinality(Holding(w))
  /\ slots[w] <= config[w].parallel

IInv ==
  /\ TypeOK
  /\ \A j \in Job : Sealed(j) /\ Placed(j)
  /\ \A w \in Worker : Counted(w)

----------------------------------------------------------------------------
(* The two decisions *)

\* What the worker may settle on is a model it has, of the name that was asked
\* for, that the operator's preference and the privacy check let it use.
LEMMA ChoiceSound ==
  ASSUME NEW job, NEW models, NEW cfg, NEW m \in Choices(job, models, cfg)
  PROVE  /\ m \in models
         /\ Check(job, m, cfg)
         /\ job.model \in {NoModel, m.name}
         /\ cfg.preference = "local_only" => ~m.external
         /\ cfg.preference = "external_only" => m.external
  BY DEF Choices, CandidatesFor

\* The order of the candidates: a worker that prefers local models settles on
\* a provider only when no local model it has could serve the job.
LEMMA LocalFirst ==
  ASSUME NEW job, NEW models, NEW cfg, cfg.preference = "prefer_local",
         \A m \in models : m.external \in BOOLEAN,
         NEW m \in Choices(job, models, cfg), m.external
  PROVE  ~HasLocal({n \in models : job.model \in {NoModel, n.name}})
  <1> DEFINE named == {n \in models : job.model \in {NoModel, n.name}}
  <1> SUFFICES ASSUME NEW n \in named, ~n.external PROVE FALSE
    BY DEF HasLocal
  <1>1. n \in CandidatesFor(job, models, cfg)
    BY DEF CandidatesFor
  <1>2. Check(job, n, cfg)
    BY DEF Check
  <1>3. \A x \in Choices(job, models, cfg) : x.external # TRUE
    BY <1>1, <1>2 DEF Choices
  <1>4. QED
    BY <1>3

\* The coordinator's rules grant no more than the worker's, for operators that
\* refuse nothing and jobs that name no model.
LEMMA RoutedHasChoice ==
  ASSUME NEW job \in Stored, NEW worker, NEW cfg,
         \A m \in worker.models : m.external \in BOOLEAN,
         cfg.external = Level, cfg.preference \in {"prefer_local", "prefer_external"},
         job.model = NoModel, Routable(job, worker)
  PROVE  Choices(job, worker.models, cfg) # {}
  <1> DEFINE models  == worker.models
             cands   == CandidatesFor(job, models, cfg)
             allowed == {m \in cands : Check(job, m, cfg)}
  <1>1. allowed # {} => Choices(job, models, cfg) # {}
    BY DEF Choices
  <1>2. CASE HasLocal(models)
    <2>1. PICK m \in models : ~m.external
      BY <1>2 DEF HasLocal
    <2>2. m \in cands
      BY <2>1 DEF CandidatesFor
    <2>3. Check(job, m, cfg)
      BY <2>1 DEF Check
    <2>4. QED
      BY <1>1, <2>2, <2>3
  <1>3. CASE ~HasLocal(models)
    <2>1. PICK m \in models : m.external
      BY <1>3 DEF Routable, HasLocal
    <2>2. PrivacyCompatible(job, models)
      BY DEF Routable
    <2>3. job.privacy = "public" \/ (job.privacy = "private" /\ job.allow)
      BY <1>3, <2>2 DEF PrivacyCompatible
    <2>4. Check(job, m, cfg)
      BY <2>3 DEF Check, Level
    <2>5. m \in cands
      BY <1>3, <2>1 DEF CandidatesFor, HasLocal
    <2>6. QED
      BY <1>1, <2>4, <2>5
  <1>4. QED
    BY <1>2, <1>3

\* fallback_to_external_provider decides nothing (gateway.rs:156): a local
\* candidate is always allowed and comes first, so dropping the providers
\* behind it changes no choice, and no second candidate is ever tried.
THEOREM FallbackIsInert ==
  ASSUME NEW job, NEW models, \A m \in models : m.external \in BOOLEAN,
         NEW on, NEW off, on.fallback, ~off.fallback,
         on.preference = off.preference, on.external = off.external
  PROVE  Choices(job, models, on) = Choices(job, models, off)
  <1> DEFINE wide   == CandidatesFor(job, models, on)
             narrow == CandidatesFor(job, models, off)
             locals(S) == {m \in S : ~m.external}
  <1>1. \A m \in models : Check(job, m, on) <=> Check(job, m, off)
    BY DEF Check
  <1>2. wide \subseteq models /\ narrow \subseteq models
    BY DEF CandidatesFor
  <1>3. CASE wide = narrow
    BY <1>1, <1>2, <1>3 DEF Choices
  <1>4. CASE wide # narrow
    <2>1. /\ on.preference = "prefer_local" /\ off.preference = "prefer_local"
          /\ narrow = locals(wide) /\ locals(wide) # {}
      BY <1>4 DEF CandidatesFor, HasLocal
    <2>2. \A m \in locals(wide) : Check(job, m, on) /\ Check(job, m, off)
      BY DEF Check
    <2>3. Choices(job, models, on) = locals(wide)
      BY <1>2, <2>1, <2>2 DEF Choices
    <2>4. Choices(job, models, off) = locals(wide)
      BY <1>2, <2>1, <2>2 DEF Choices
    <2>5. QED
      BY <2>3, <2>4
  <1>5. QED
    BY <1>3, <1>4

----------------------------------------------------------------------------
(* Types *)

LEMMA StoredType ==
  ASSUME NEW r \in Request
  PROVE  /\ StoredOf(r) \in Stored
         /\ StoredOf(r).privacy \in {"sensitive", "local_only"} => ~StoredOf(r).allow
         /\ StoredOf(r).allow => r.allow = "yes" \/ (r.allow = "unset" /\ r.door = "openai")
         /\ StoredOf(r).privacy = "private" => r.privacy = "private"
  <1>1. r \in Asked
    BY DispatchAssumption
  <1>2. LevelOf(r) \in Level
    BY <1>1 DEF LevelOf, Asked, Level
  <1>3. AllowOf(r) \in BOOLEAN
    BY DEF AllowOf
  <1>4. r.local \in BOOLEAN /\ r.context \in BOOLEAN
    BY <1>1 DEF Asked
  <1>5. r.model \in {m.name : m \in Backend} \cup {NoModel}
    BY <1>1 DEF Asked
  <1>6. LevelOf(r) \in {"sensitive", "local_only"} => ~AllowOf(r)
    BY DEF AllowOf
  <1>7. AllowOf(r) => r.allow = "yes" \/ (r.allow = "unset" /\ r.door = "openai")
    BY DEF AllowOf
  <1>8. LevelOf(r) = "private" => r.privacy = "private"
    BY DEF LevelOf
  <1>9. QED
    BY <1>2, <1>3, <1>4, <1>5, <1>6, <1>7, <1>8 DEF StoredOf, Stored

LEMMA TypeStep ==
  ASSUME IInv, [Next]_vars
  PROVE  TypeOK'
  <1> USE DEF IInv, vars, jobs, workers, limits
  <1>1. CASE UNCHANGED vars
    BY <1>1 DEF TypeOK
  <1>2. ASSUME NEW j \in Job, NEW r \in Request, Submit(j, r) PROVE TypeOK'
    BY <1>2, StoredType DEF Submit, TypeOK, Phases
  <1>3. ASSUME NEW j \in Job, NEW w \in Worker, Lease(j, w) PROVE TypeOK'
    BY <1>3 DEF Lease, TypeOK, Phases
  <1>4. ASSUME NEW j \in Job, Start(j) PROVE TypeOK'
    <2>1. at[j] \in Worker
      BY <1>4 DEF Start, Placed
    <2>2. PICK m \in Options(j) : Reserve(at[j], m) /\ model' = [model EXCEPT ![j] = m]
      BY <1>4 DEF Start
    <2>3. m \in catalog[at[j]]
      BY <2>2, ChoiceSound DEF Options
    <2>4. m \in Backend
      BY <2>1, <2>3 DEF TypeOK
    <2>5. times' \in [Worker -> Nat] /\ slots' \in [Worker -> Nat]
      BY <2>1, <2>2 DEF Reserve, TypeOK
    <2>6. QED
      BY <1>4, <2>2, <2>4, <2>5 DEF Start, TypeOK, Phases
  <1>5. ASSUME NEW j \in Job, End(j) PROVE TypeOK'
    <2>1. CASE phase[j] = "running" /\ model[j].external /\ slots[at[j]] > 0
      <3>1. at[j] \in Worker /\ slots[at[j]] - 1 \in Nat
        BY <2>1 DEF Placed, TypeOK
      <3>2. slots' = [slots EXCEPT ![at[j]] = slots[at[j]] - 1]
        BY <1>5, <2>1 DEF End, Release
      <3>3. QED
        BY <1>5, <3>1, <3>2 DEF End, TypeOK, Phases
    <2>2. CASE ~(phase[j] = "running" /\ model[j].external /\ slots[at[j]] > 0)
      BY <1>5, <2>2 DEF End, Release, TypeOK, Phases
    <2>3. QED
      BY <2>1, <2>2
  <1>6. ASSUME NEW w \in Worker, NEW levels \in Policy, Grant(w, levels) PROVE TypeOK'
    BY <1>6, DispatchAssumption DEF Grant, TypeOK
  <1>7. ASSUME NEW w \in Worker, ApplyGrant(w) PROVE TypeOK'
    <2>1. shown[w] \in Snapshot /\ granted[w] \in SUBSET Level
      BY <1>7 DEF ApplyGrant, TypeOK
    <2>2. [shown[w] EXCEPT !.levels = granted[w]] \in Snapshot
      BY <2>1 DEF Snapshot
    <2>3. QED
      BY <1>7, <2>2 DEF ApplyGrant, TypeOK
  <1>8. ASSUME NEW w \in Worker, Register(w) PROVE TypeOK'
    <2>1. PICK models \in {boot[w], catalog[w]} :
            shown' = [shown EXCEPT ![w] =
              [levels |-> granted[w], models |-> models, pauses |-> config[w].pauses]]
      BY <1>8 DEF Register
    <2>2. config[w].pauses \in BOOLEAN
      BY DispatchAssumption DEF TypeOK
    <2>3. [levels |-> granted[w], models |-> models, pauses |-> config[w].pauses] \in Snapshot
      BY <2>2 DEF Snapshot, TypeOK
    <2>4. QED
      BY <1>8, <2>1, <2>3 DEF Register, TypeOK
  <1>9. ASSUME NEW w \in Worker, Leave(w) PROVE TypeOK'
    BY <1>9 DEF Leave, TypeOK
  <1>10. ASSUME NEW w \in Worker, Probe(w) PROVE TypeOK'
    BY <1>10 DEF Probe, TypeOK
  <1>11. ASSUME NEW w \in Worker, Age(w) PROVE TypeOK'
    BY <1>11 DEF Age, TypeOK
  <1>12. QED
    BY <1>1, <1>2, <1>3, <1>4, <1>5, <1>6, <1>7, <1>8, <1>9, <1>10, <1>11 DEF Next

----------------------------------------------------------------------------
(* A job and its placement *)

\* What no action of a worker or of the coordinator's snapshot disturbs.
Quiet == UNCHANGED <<asked, row, phase, at, model, config, slots>>

LEMMA NextCases ==
  ASSUME Next
  PROVE  \/ \E j \in Job, r \in Request : Submit(j, r)
         \/ \E j \in Job, w \in Worker : Lease(j, w)
         \/ \E j \in Job : Start(j) \/ End(j)
         \/ Quiet
  BY DEF Next, Quiet, Grant, ApplyGrant, Register, Leave, Probe, Age, jobs, workers, limits

LEMMA SealedStep ==
  ASSUME IInv, [Next]_vars, NEW k \in Job
  PROVE  Sealed(k)'
  <1> USE DEF IInv, vars, jobs, workers, limits
  <1>1. CASE UNCHANGED vars
    BY <1>1 DEF Sealed
  <1>2. ASSUME NEW j \in Job, NEW r \in Request, Submit(j, r) PROVE Sealed(k)'
    <2>1. CASE k = j
      <3>1. asked'[k] = r /\ row'[k] = StoredOf(r)
        BY <1>2, <2>1 DEF Submit, TypeOK
      <3>2. QED
        BY <3>1 DEF Sealed
    <2>2. CASE k # j
      BY <1>2, <2>2 DEF Submit, Sealed, TypeOK
    <2>3. QED
      BY <2>1, <2>2
  <1>3. ASSUME NEW j \in Job, NEW w \in Worker, Lease(j, w) PROVE Sealed(k)'
    BY <1>3 DEF Lease, Sealed, TypeOK
  <1>4. ASSUME NEW j \in Job, Start(j) PROVE Sealed(k)'
    BY <1>4 DEF Start, Sealed, TypeOK
  <1>5. ASSUME NEW j \in Job, End(j) PROVE Sealed(k)'
    BY <1>5 DEF End, Sealed, TypeOK
  <1>6. CASE Quiet
    BY <1>6 DEF Quiet, Sealed
  <1>7. QED
    BY <1>1, <1>2, <1>3, <1>4, <1>5, <1>6, NextCases

LEMMA PlacedStep ==
  ASSUME IInv, [Next]_vars, NEW k \in Job
  PROVE  Placed(k)'
  <1> USE DEF IInv, vars, jobs, workers, limits
  <1>1. CASE UNCHANGED vars
    BY <1>1 DEF Placed
  <1>2. ASSUME NEW j \in Job, NEW r \in Request, Submit(j, r) PROVE Placed(k)'
    <2>1. CASE k = j
      <3>1. phase'[k] = "pending"
        BY <1>2, <2>1 DEF Submit, TypeOK
      <3>2. QED
        BY <3>1 DEF Placed
    <2>2. CASE k # j
      <3>1. row'[k] = row[k] /\ phase'[k] = phase[k]
        BY <1>2, <2>2 DEF Submit, TypeOK
      <3>2. UNCHANGED <<at, model, config>>
        BY <1>2 DEF Submit
      <3>3. QED
        BY <3>1, <3>2 DEF Placed
    <2>3. QED
      BY <2>1, <2>2
  <1>3. ASSUME NEW j \in Job, NEW w \in Worker, Lease(j, w) PROVE Placed(k)'
    <2>1. CASE k = j
      <3>1. phase'[k] = "leased" /\ at'[k] = w
        BY <1>3, <2>1 DEF Lease, TypeOK
      <3>2. QED
        BY <3>1 DEF Placed
    <2>2. CASE k # j
      <3>1. phase'[k] = phase[k] /\ at'[k] = at[k] /\ UNCHANGED <<row, model, config>>
        BY <1>3, <2>2 DEF Lease, TypeOK
      <3>2. QED
        BY <3>1 DEF Placed
    <2>3. QED
      BY <2>1, <2>2
  <1>4. ASSUME NEW j \in Job, Start(j) PROVE Placed(k)'
    <2>1. UNCHANGED <<row, at, config>>
      BY <1>4 DEF Start
    <2>2. CASE k = j
      <3>1. at[k] \in Worker
        BY <1>4, <2>2 DEF Start, Placed
      <3>2. PICK m \in Options(k) : model' = [model EXCEPT ![k] = m]
        BY <1>4, <2>2 DEF Start
      <3>3. /\ row[k].privacy \in config[at[k]].accepts
            /\ m \in Choices(row[k], catalog[at[k]], config[at[k]])
        BY <3>2 DEF Options
      <3>4. /\ m \in Backend
            /\ Check(row[k], m, config[at[k]])
            /\ row[k].model \in {NoModel, m.name}
            /\ config[at[k]].preference = "local_only" => ~m.external
            /\ config[at[k]].preference = "external_only" => m.external
        BY <3>1, <3>3, ChoiceSound DEF TypeOK
      <3>5. model'[k] = m
        BY <3>2 DEF TypeOK
      <3>6. QED
        BY <2>1, <3>1, <3>3, <3>4, <3>5 DEF Placed
    <2>3. CASE k # j
      <3>1. phase'[k] = phase[k] /\ model'[k] = model[k]
        BY <1>4, <2>3 DEF Start, TypeOK
      <3>2. QED
        BY <2>1, <3>1 DEF Placed
    <2>4. QED
      BY <2>2, <2>3
  <1>5. ASSUME NEW j \in Job, End(j) PROVE Placed(k)'
    <2>1. UNCHANGED <<row, config>>
      BY <1>5 DEF End
    <2>2. CASE k = j
      <3>1. phase'[k] \in {"pending", "done"}
        BY <1>5, <2>2 DEF End, TypeOK
      <3>2. QED
        BY <3>1 DEF Placed
    <2>3. CASE k # j
      <3>1. phase'[k] = phase[k] /\ at'[k] = at[k] /\ model'[k] = model[k]
        BY <1>5, <2>3 DEF End, TypeOK
      <3>2. QED
        BY <2>1, <3>1 DEF Placed
    <2>4. QED
      BY <2>2, <2>3
  <1>6. CASE Quiet
    BY <1>6 DEF Quiet, Placed
  <1>7. QED
    BY <1>1, <1>2, <1>3, <1>4, <1>5, <1>6, NextCases

----------------------------------------------------------------------------
(* The count of provider calls *)

LEMMA HoldingFinite ==
  ASSUME NEW w \in Worker
  PROVE  IsFiniteSet(Holding(w)) /\ IsFiniteSet(Holding(w)')
  BY DispatchAssumption, FS_Subset DEF Holding

\* A job is given a model: it takes a slot exactly if the model is a provider's.
LEMMA CountedStart ==
  ASSUME IInv, NEW j \in Job, Start(j), NEW w \in Worker
  PROVE  Counted(w)'
  <1>1. TypeOK /\ Counted(w) /\ at[j] \in Worker /\ phase[j] = "leased"
    BY DEF IInv, Start, Placed
  <1>2. PICK m \in Options(j) : Reserve(at[j], m) /\ model' = [model EXCEPT ![j] = m]
    BY DEF Start
  <1>3. m \in Backend
    BY <1>1, <1>2, ChoiceSound DEF Options, TypeOK
  <1>4. m.external \in BOOLEAN
    BY <1>3, DispatchAssumption
  <1>5. /\ UNCHANGED <<at, config>>
        /\ phase' = [phase EXCEPT ![j] = "running"]
    BY DEF Start, workers
  <1>6. /\ phase'[j] = "running" /\ model'[j] = m
        /\ \A k \in Job \ {j} : phase'[k] = phase[k] /\ model'[k] = model[k]
    BY <1>1, <1>2, <1>5 DEF TypeOK
  <1>7. j \notin Holding(w)
    BY <1>1 DEF Holding, OnProvider
  <1>8. slots[w] \in Nat /\ config[w].parallel \in Nat
    BY <1>1, DispatchAssumption DEF TypeOK
  <1>9. CASE m.external /\ at[j] = w
    <2>1. Holding(w)' = Holding(w) \cup {j}
      BY <1>5, <1>6, <1>9 DEF Holding, OnProvider
    <2>2. Cardinality(Holding(w)') = Cardinality(Holding(w)) + 1
      BY <2>1, <1>7, HoldingFinite, FS_AddElement
    <2>3. slots'[w] = slots[w] + 1 /\ slots[w] < config[w].parallel
      BY <1>1, <1>2, <1>9 DEF Reserve, TypeOK
    <2>4. slots'[w] <= config'[w].parallel
      BY <2>3, <1>5, <1>8
    <2>5. QED
      BY <1>1, <2>2, <2>3, <2>4 DEF Counted
  <1>10. CASE ~(m.external /\ at[j] = w)
    <2>1. Holding(w)' = Holding(w)
      BY <1>4, <1>5, <1>6, <1>7, <1>10 DEF Holding, OnProvider
    <2>2. slots'[w] = slots[w]
      BY <1>1, <1>2, <1>4, <1>10 DEF Reserve, TypeOK
    <2>3. QED
      BY <1>1, <1>5, <2>1, <2>2 DEF Counted
  <1>11. QED
    BY <1>9, <1>10

\* A lease ends: the slot it holds, if it holds one, is given back.
LEMMA CountedEnd ==
  ASSUME IInv, NEW j \in Job, End(j), NEW w \in Worker
  PROVE  Counted(w)'
  <1>1. TypeOK /\ Counted(w) /\ at[j] \in Worker /\ Counted(at[j])
    BY DEF IInv, End, Placed
  <1>2. phase[j] = "running" => model[j] \in Backend /\ model[j].external \in BOOLEAN
    BY DispatchAssumption DEF IInv, Placed
  <1>3. UNCHANGED config /\ phase'[j] \in {"pending", "done"}
    BY <1>1 DEF End, workers, TypeOK
  <1>4. \A k \in Job \ {j} :
          phase'[k] = phase[k] /\ model'[k] = model[k] /\ at'[k] = at[k]
    BY <1>1 DEF End, TypeOK
  <1>5. Holding(w)' = Holding(w) \ {j}
    BY <1>3, <1>4 DEF Holding, OnProvider
  <1>6. slots[w] \in Nat /\ config[w].parallel \in Nat
    BY <1>1, DispatchAssumption DEF TypeOK
  <1>7. CASE j \in Holding(w)
    <2>1. phase[j] = "running" /\ model[j].external /\ at[j] = w
      BY <1>7 DEF Holding, OnProvider
    <2>2. Cardinality(Holding(w)') = Cardinality(Holding(w)) - 1
      BY <1>5, <1>7, HoldingFinite, FS_RemoveElement
    <2>3. Cardinality(Holding(w)) # 0
      BY <1>7, HoldingFinite, FS_EmptySet
    <2>4. slots[w] > 0
      BY <1>1, <1>6, <2>3 DEF Counted
    <2>5. slots' = [slots EXCEPT ![w] = slots[w] - 1]
      BY <2>1, <2>4 DEF End, Release
    <2>6. slots'[w] = slots[w] - 1
      BY <1>1, <2>5 DEF TypeOK
    <2>7. slots[w] = Cardinality(Holding(w)) /\ slots[w] <= config[w].parallel
      BY <1>1 DEF Counted
    <2>8. QED
      BY <1>3, <1>6, <2>2, <2>6, <2>7 DEF Counted
  <1>8. CASE j \notin Holding(w)
    <2>1. Holding(w)' = Holding(w)
      BY <1>5, <1>8
    <2>2. ~(phase[j] = "running" /\ model[j].external /\ at[j] = w)
      BY <1>8 DEF Holding, OnProvider
    <2>3. slots'[w] = slots[w]
      BY <1>1, <2>2 DEF End, Release, TypeOK
    <2>4. QED
      BY <1>1, <1>3, <2>1, <2>3 DEF Counted
  <1>9. QED
    BY <1>7, <1>8

LEMMA CountedStep ==
  ASSUME IInv, [Next]_vars, NEW w \in Worker
  PROVE  Counted(w)'
  <1> USE DEF IInv, vars, jobs, workers, limits
  <1>1. CASE UNCHANGED vars
    BY <1>1 DEF Counted, Holding, OnProvider
  <1>2. ASSUME NEW j \in Job, NEW r \in Request, Submit(j, r) PROVE Counted(w)'
    <2>1. phase[j] = "none" /\ phase' = [phase EXCEPT ![j] = "pending"]
      BY <1>2 DEF Submit
    <2>2. UNCHANGED <<at, model, config, slots>>
      BY <1>2 DEF Submit
    <2>3. Holding(w)' = Holding(w)
      BY <2>1, <2>2 DEF Holding, OnProvider, TypeOK
    <2>4. QED
      BY <2>2, <2>3 DEF Counted
  <1>3. ASSUME NEW j \in Job, NEW v \in Worker, Lease(j, v) PROVE Counted(w)'
    <2>1. /\ phase[j] = "pending" /\ phase' = [phase EXCEPT ![j] = "leased"]
          /\ at' = [at EXCEPT ![j] = v]
      BY <1>3 DEF Lease
    <2>2. UNCHANGED <<model, config, slots>>
      BY <1>3 DEF Lease
    <2>3. Holding(w)' = Holding(w)
      BY <2>1, <2>2 DEF Holding, OnProvider, TypeOK
    <2>4. QED
      BY <2>2, <2>3 DEF Counted
  <1>4. CASE Quiet
    BY <1>4 DEF Quiet, Counted, Holding, OnProvider
  <1>5. QED
    BY <1>1, <1>2, <1>3, <1>4, CountedStart, CountedEnd, NextCases

----------------------------------------------------------------------------
(* The invariant *)

LEMMA InitIInv == Init => IInv
  <1> SUFFICES ASSUME Init PROVE IInv
    OBVIOUS
  <1>1. TypeOK
    BY DEF Init, TypeOK, Phases, Level
  <1>2. \A j \in Job : Sealed(j) /\ Placed(j)
    BY DEF Init, Sealed, Placed
  <1>3. ASSUME NEW w \in Worker PROVE Counted(w)
    <2>1. Holding(w) = {}
      BY DEF Init, Holding, OnProvider
    <2>2. Cardinality(Holding(w)) = 0
      BY <2>1, FS_EmptySet
    <2>3. config[w].parallel \in Nat
      BY <1>1, DispatchAssumption DEF TypeOK
    <2>4. QED
      BY <2>2, <2>3 DEF Init, Counted
  <1>4. QED
    BY <1>1, <1>2, <1>3 DEF IInv

LEMMA NextIInv == IInv /\ [Next]_vars => IInv'
  BY TypeStep, SealedStep, PlacedStep, CountedStep DEF IInv

LEMMA Invariance == Spec => []IInv
  BY InitIInv, NextIInv, PTL DEF Spec

----------------------------------------------------------------------------
(* Theorems *)

\* Every variable keeps its type; the count of provider calls never falls
\* below zero, on any way out of a task (limits.rs:33).
THEOREM DispatchTypeCorrect == Spec => []TypeOK
  <1>1. IInv => TypeOK
    BY DEF IInv
  <1>2. QED
    BY <1>1, Invariance, PTL

\* sensitive and local_only jobs never run on a provider: the doors store them
\* without consent and privacy::check reads both.
THEOREM StrictLevelsNeverLeave == Spec => []NeverLeaves
  <1>1. IInv => NeverLeaves
    <2> SUFFICES ASSUME IInv, NEW j \in Job, OnProvider(j)
                 PROVE  row[j].privacy \notin {"sensitive", "local_only"}
      BY DEF NeverLeaves
    <2>1. asked[j] \in Request /\ row[j] = StoredOf(asked[j])
      BY DEF IInv, Sealed, OnProvider
    <2>2. row[j].privacy # "local_only" /\ (row[j].privacy = "public" \/ row[j].allow)
      BY DEF IInv, Placed, OnProvider, Check
    <2>3. QED
      BY <2>1, <2>2, StoredType
  <1>2. QED
    BY <1>1, Invariance, PTL

\* What is not public and runs on a provider was asked for as private by a
\* caller that did not refuse it, over MCP by one that said yes, and the
\* operator allows the level (api_router.ex:674, delegation.ex:120,
\* privacy.rs:33).
THEOREM ProvidersByConsent == Spec => []ExternalByConsent
  <1>1. IInv => ExternalByConsent
    <2> SUFFICES ASSUME IInv, NEW j \in Job, OnProvider(j)
                 PROVE  /\ row[j].privacy # "public" =>
                             /\ asked[j].privacy = "private" /\ asked[j].allow # "no"
                             /\ asked[j].door = "mcp" => asked[j].allow = "yes"
                        /\ row[j].privacy \in config[at[j]].external
      BY DEF ExternalByConsent
    <2>1. asked[j] \in Request /\ row[j] = StoredOf(asked[j])
      BY DEF IInv, Sealed, OnProvider
    <2>2. /\ row[j].privacy # "local_only"
          /\ row[j].privacy = "public" \/ row[j].allow
          /\ row[j].privacy \in config[at[j]].external
      BY DEF IInv, Placed, OnProvider, Check
    <2>3. row[j].privacy \in Level
      BY <2>1, StoredType DEF Stored
    <2>4. QED
      BY <2>1, <2>2, <2>3, StoredType DEF Level
  <1>2. QED
    BY <1>1, Invariance, PTL

\* The levels, the preference and the named model hold for all that runs
\* (gateway.rs:122).
THEOREM OperatorIsObeyed == Spec => []OperatorObeyed
  <1>1. IInv => OperatorObeyed
    BY DEF IInv, Placed, OperatorObeyed
  <1>2. QED
    BY <1>1, Invariance, PTL

\* Provider slots are the provider calls that run, and within the limit, for
\* any number of jobs on a worker (limits.rs:33).
THEOREM ProviderSlotsBalance == Spec => []SlotsBalance
  <1>1. IInv => SlotsBalance
    BY DEF IInv, Counted, Holding, SlotsBalance
  <1>2. QED
    BY <1>1, Invariance, PTL

\* A worker that prefers local models calls a provider last, with or without
\* the fallback (gateway.rs:156).
THEOREM LocalBeforeProvider == Spec => ProviderIsLastResort
  <1> DEFINE named(j) == {m \in catalog[at[j]] : row[j].model \in {NoModel, m.name}}
             last == \A j \in Job :
                       /\ phase[j] = "leased" /\ OnProvider(j)'
                       /\ config[at[j]].preference = "prefer_local"
                       => ~HasLocal(named(j))
  <1>1. IInv /\ [Next]_vars => [last]_vars
    <2> SUFFICES ASSUME IInv, [Next]_vars, NEW j \in Job,
                        phase[j] = "leased", OnProvider(j)',
                        config[at[j]].preference = "prefer_local"
                 PROVE  ~HasLocal(named(j))
      OBVIOUS
    <2>1. Start(j)
      <3> USE DEF vars, jobs, workers, limits
      <3>1. phase'[j] = "running" /\ phase \in [Job -> Phases]
        BY DEF OnProvider, IInv, TypeOK
      <3>2. ~UNCHANGED vars /\ ~Quiet
        BY <3>1 DEF Quiet
      <3>3. \A k \in Job, r \in Request : ~Submit(k, r)
        BY <3>1 DEF Submit
      <3>4. \A k \in Job, w \in Worker : ~Lease(k, w)
        BY <3>1 DEF Lease
      <3>5. \A k \in Job : ~End(k) /\ (Start(k) => k = j)
        BY <3>1 DEF End, Start
      <3>6. QED
        BY <3>2, <3>3, <3>4, <3>5, NextCases
    <2>2. at[j] \in Worker /\ config[at[j]] \in Config /\ catalog[at[j]] \subseteq Backend
      BY DEF IInv, Placed, TypeOK
    <2>3. PICK m \in Options(j) : model' = [model EXCEPT ![j] = m]
      BY <2>1 DEF Start
    <2>4. m \in Choices(row[j], catalog[at[j]], config[at[j]])
      BY <2>3 DEF Options
    <2>5. m.external
      BY <2>3 DEF OnProvider, IInv, TypeOK
    <2>6. QED
      BY <2>2, <2>4, <2>5, LocalFirst, DispatchAssumption
  <1>2. QED
    BY <1>1, Invariance, PTL DEF Spec, ProviderIsLastResort

\* What the router sends to a worker whose registration is current, a worker
\* that refuses nothing can run (router.ex:94, privacy.rs:33).
THEOREM RoutedJobsRun == Spec => []RoutableIsRunnable
  <1>1. IInv => RoutableIsRunnable
    <2> SUFFICES ASSUME IInv, NEW r \in Request, NEW w \in Listed,
                        shown[w].models = catalog[w],
                        config[w].external = Level,
                        config[w].preference \in {"prefer_local", "prefer_external"},
                        StoredOf(r).model = NoModel,
                        Routable(StoredOf(r), shown[w])
                 PROVE  Choices(StoredOf(r), shown[w].models, config[w]) # {}
      BY DEF RoutableIsRunnable
    <2>1. shown[w].models \subseteq Backend
      BY DEF IInv, TypeOK, Listed
    <2>2. \A m \in shown[w].models : m.external \in BOOLEAN
      BY <2>1, DispatchAssumption
    <2>3. StoredOf(r) \in Stored
      BY StoredType
    <2>4. QED
      BY <2>2, <2>3, RoutedHasChoice
  <1>2. QED
    BY <1>1, Invariance, PTL
=============================================================================
