----------------------- MODULE ArchaeologyStagesProofs -----------------------
(***************************************************************************)
(* What the commands of the desktop leave in the generations they work on, *)
(* for any number of threads, jobs, units and revisions.                   *)
(*                                                                         *)
(* Only the thread that started a job prepares it, and the job stays in    *)
(* its inventory stage meanwhile: so the clone of prior facts and the work *)
(* plan, which check no stage, are not written into a generation another   *)
(* command has already linked.  After that a work item is pending only as  *)
(* long as the linker has not run.                                         *)
(***************************************************************************)
EXTENDS ArchaeologyRefreshProofs

\* The content that the stage of a job row requires: what StageOutput says,
\* nothing linked before the link stage, and no late facts.
Holds(x, data) ==
    /\ x.stage # "inventory" => "manifest" \in data.built
    /\ x.stage \notin {"inventory", "parse"} => x.work = {}
    /\ x.stage \in {"inventory", "parse", "link"} => "link" \notin data.built
    /\ x.stage \in {"derive", "synthesize", "validate", "publish", "cleanup"}
         => "link" \in data.built /\ data.parsed = Units
    /\ x.stage \in {"synthesize", "validate", "publish", "cleanup"}
         => "derive" \in data.built
    /\ x.stage \in {"validate", "publish", "cleanup"} => "catalog" \in data.built
    /\ data.late = {}

ContentOK == \A j \in Jobs : Active(j) => Holds(job[j], gen[job[j].gen].data)

\* A thread between start_job and the checkpoint of the plan, by its row: the
\* job is its own and in the inventory stage, unless it was cancelled.
Prepares(row) ==
    row.at \in Preparing =>
        /\ gen[row.gen].status = "staging" => Active(row.job)
        /\ Active(row.job) =>
              /\ job[row.job].gen = row.gen /\ job[row.job].stage = "inventory"
              /\ row.at # "manifest" => "manifest" \in gen[row.gen].data.built

PreparationOK ==
    /\ \A w \in Workers : Prepares(worker[w])
    /\ \A v, w \in Workers :
          /\ worker[v].at \in Preparing /\ worker[w].at \in Preparing
          /\ worker[v].job = worker[w].job
          => v = w

PanelOK ==
    /\ deps \in [Gens -> SUBSET (Units \X Units)]
    /\ view \in ViewRow
    /\ faults \in 0 .. MaxFaults

StagesInvariant ==
    RefreshInvariant /\ ContentOK /\ PublishedFresh /\ PreparationOK /\ PanelOK

----------------------------------------------------------------------------
(* What a transaction of the store leaves alone *)

\* No generation becomes staging or loses its manifest, and no job becomes
\* active or changes its generation.
Calm ==
    /\ \A g \in Gens : gen'[g].status = "staging" =>
          /\ gen[g].status = "staging"
          /\ "manifest" \in gen[g].data.built => "manifest" \in gen'[g].data.built
    /\ \A i \in Jobs : Active(i)' => Active(i) /\ job'[i].gen = job[i].gen

\* Job i does not leave the inventory stage.
InventoryKept(i) ==
    Active(i)' /\ job[i].stage = "inventory" => job'[i].stage = "inventory"

StoreKept == ContentOK' /\ PublishedFresh'

\* A transaction of an active job that leaves the status of its generation
\* alone: x is the new row of the job and d the new content.
LEMMA WorkOnJob ==
    ASSUME JobsInvariant, ContentOK, PublishedFresh,
           NEW j \in Jobs, Active(j), NEW x, NEW d,
           job' = [job EXCEPT ![j] = x], x.gen = job[j].gen,
           x.state \in ActiveStates => Holds(x, d),
           \/ gen' = gen /\ d = gen[job[j].gen].data
           \/ /\ GenStatus(j, "staging")
              /\ gen' = [gen EXCEPT ![job[j].gen].data = d]
              /\ "manifest" \in gen[job[j].gen].data.built => "manifest" \in d.built
    PROVE  /\ StoreKept /\ Calm
           /\ \A i \in Jobs \ {j} : InventoryKept(i)
           /\ x.stage = job[j].stage \/ job[j].stage # "inventory" => InventoryKept(j)
<1> DEFINE g == job[j].gen
<1>1. TypeOK /\ LeaseConsistent
  BY DEF JobsInvariant
<1>2. g \in Gens
  BY <1>1 DEF LeaseConsistent, GenStatus
<1>3. job'[j] = x /\ \A i \in Jobs \ {j} : job'[i] = job[i] /\ ~Active(i) /\ ~Active(i)'
  BY <1>1 DEF TypeOK, LeaseConsistent, Active
<1>4. /\ gen'[g].data = d
      /\ \A h \in Gens : gen'[h].status = gen[h].status
      /\ \A h \in Gens : h # g \/ gen[h].status \in {"ready", "superseded"}
           => gen'[h].data = gen[h].data
      /\ "manifest" \in gen[g].data.built /\ gen'[g].status = "staging"
           => "manifest" \in d.built
  BY <1>1, <1>2 DEF TypeOK, GenRow, GenStatus
<1>5. ContentOK'
  <2>1. job'[j].gen = g
    BY <1>3
  <2>2. Active(j)' => Holds(x, d)
    BY <1>3 DEF Active
  <2> HIDE DEF g
  <2>3. Active(j)' => Holds(job'[j], gen'[job'[j].gen].data)
    BY <1>3, <1>4, <2>1, <2>2
  <2> QED BY <1>3, <2>3 DEF ContentOK, Holds
<1>6. PublishedFresh'
  BY <1>4 DEF PublishedFresh
<1>7. Calm
  BY <1>2, <1>3, <1>4 DEF Calm
<1>8. \A i \in Jobs \ {j} : InventoryKept(i)
  BY <1>3 DEF InventoryKept
<1>9. x.stage = job[j].stage \/ job[j].stage # "inventory" => InventoryKept(j)
  BY <1>3 DEF InventoryKept
<1> QED BY <1>5, <1>6, <1>7, <1>8, <1>9 DEF StoreKept

\* A transaction that touches neither jobs nor generations.
LEMMA StoreStill ==
    ASSUME ContentOK, PublishedFresh, UNCHANGED <<gen, job>>
    PROVE  StoreKept /\ Calm /\ \A i \in Jobs : InventoryKept(i)
  BY DEF StoreKept, ContentOK, Holds, PublishedFresh, Calm, InventoryKept, Active

\* start_job: the only job, with an empty generation.
LEMMA StartKeeps ==
    ASSUME JobsInvariant, ContentOK, PublishedFresh, NEW j \in Jobs,
           NEW g \in Gens, NEW o \in Owners, NEW r \in Revisions,
           NEW now \in Time, start_job(j, g, o, r, now)
    PROVE  StoreKept
<1>1. TypeOK
  BY DEF JobsInvariant
<1>2. /\ gen'[g].data = EmptyData /\ gen'[g].status = "staging"
      /\ \A h \in Gens \ {g} : gen'[h] = gen[h]
      /\ job'[j].stage = "inventory" /\ job'[j].gen = g
      /\ \A i \in Jobs \ {j} : ~Active(i)'
  BY <1>1 DEF start_job, TypeOK, NoGeneration, NoJob, Active
<1>3. ContentOK'
  BY <1>2 DEF ContentOK, Holds, EmptyData
<1>4. PublishedFresh'
  BY <1>2 DEF PublishedFresh
<1> QED BY <1>3, <1>4 DEF StoreKept

\* remove_noop and cleanup_generations: the rows that stay are as they were,
\* as far as a job is active.
LEMMA DeletionKeeps ==
    ASSUME JobsInvariant, ContentOK, PublishedFresh,
           \A g \in Gens : gen'[g] = gen[g] \/ gen'[g].status = "absent",
           \A i \in Jobs : Active(i)' =>
               /\ Active(i) /\ job'[i].gen = job[i].gen
               /\ job'[i].stage = job[i].stage /\ job'[i].work = job[i].work
               /\ gen'[job[i].gen] = gen[job[i].gen]
    PROVE  StoreKept /\ Calm /\ \A i \in Jobs : InventoryKept(i)
<1>1. ContentOK'
  BY DEF ContentOK, Holds
<1>2. PublishedFresh'
  BY DEF PublishedFresh
<1> QED BY <1>1, <1>2 DEF StoreKept, Calm, InventoryKept

\* A refresh that finds nothing to do removes the job it started, and with it
\* the only one that was active.
LEMMA NoopKeeps ==
    ASSUME JobsInvariant, ContentOK, PublishedFresh, NEW j \in Jobs,
           NEW o \in Owners, remove_noop(j, o)
    PROVE  StoreKept /\ Calm /\ \A i \in Jobs : InventoryKept(i)
<1>1. TypeOK /\ LeaseConsistent
  BY DEF JobsInvariant
<1>2. job[j].gen \in Gens /\ Active(j)
  BY DEF remove_noop, GenStatus, HoldsLease, Active, ActiveStates
<1>3. \A i \in Jobs : ~Active(i)'
  BY <1>1, <1>2 DEF remove_noop, NoJob, Active, ActiveStates, TypeOK, LeaseConsistent
<1>4. \A g \in Gens : gen'[g] = gen[g] \/ gen'[g].status = "absent"
  BY <1>1, <1>2 DEF remove_noop, NoGeneration, TypeOK
<1> QED BY <1>3, <1>4, DeletionKeeps

\* Cleanup deletes generations that no job in progress builds.
LEMMA CleanupKeeps ==
    ASSUME JobsInvariant, ContentOK, PublishedFresh, NEW j \in Jobs,
           NEW o \in Owners, NEW retain \in 0 .. CleanupBatch,
           NEW kept \in SUBSET Gens, NEW batch \in SUBSET Gens, NEW now \in Time,
           cleanup_generations(j, o, retain, kept, batch, now)
    PROVE  StoreKept /\ Calm /\ \A i \in Jobs : InventoryKept(i)
<1>1. TypeOK /\ LeaseConsistent
  BY DEF JobsInvariant
<1>2. \A i \in Jobs : /\ job'[i].state = job[i].state
                      /\ job'[i].stage = job[i].stage
                      /\ job[i].state \in ActiveStates => job'[i].gen = job[i].gen
  BY <1>1, CleanupEffect
<1>3. \A i \in Jobs : job'[i].work = job[i].work
  BY <1>1 DEF cleanup_generations, TypeOK, JobRow
<1>4. \A g \in Gens : gen'[g] = gen[g] \/ gen'[g].status = "absent"
  BY <1>1, CleanupEffect
<1>5. \A i \in Jobs : job[i].state \in ActiveStates
          => gen'[job[i].gen] = gen[job[i].gen]
  BY <1>1, CleanupEffect DEF LeaseConsistent, Active, GenStatus
<1> QED BY <1>2, <1>3, <1>4, <1>5, DeletionKeeps DEF Active

\* acknowledge_cancel: no job is active any more.
LEMMA CancelKeeps ==
    ASSUME JobsInvariant, ContentOK, PublishedFresh, NEW j \in Jobs,
           NEW o \in Owners, NEW now \in Time, acknowledge_cancel(j, o, now)
    PROVE  StoreKept /\ Calm /\ \A i \in Jobs : InventoryKept(i)
<1>1. TypeOK /\ LeaseConsistent
  BY DEF JobsInvariant
<1>2. \A i \in Jobs : ~Active(i)'
  BY <1>1 DEF acknowledge_cancel, finish_job, Active, ActiveStates, TypeOK,
       LeaseConsistent
<1>3. \A g \in Gens : /\ gen'[g].data = gen[g].data
                      /\ gen'[g].status \in {gen[g].status, "cancelled"}
  BY <1>1, FinishEffect DEF acknowledge_cancel, finish_job
<1>4. ContentOK'
  BY <1>2 DEF ContentOK
<1>5. PublishedFresh'
  BY <1>3 DEF PublishedFresh
<1> QED BY <1>2, <1>3, <1>4, <1>5 DEF StoreKept, Calm, InventoryKept

\* publish_generation: the generation holds every product and no late facts.
LEMMA PublishKeeps ==
    ASSUME JobsInvariant, ContentOK, PublishedFresh, NEW j \in Jobs,
           NEW o \in Owners, NEW now \in Time, publish_generation(j, o, now)
    PROVE  StoreKept /\ Calm /\ \A i \in Jobs : InventoryKept(i)
<1>1. TypeOK /\ LeaseConsistent
  BY DEF JobsInvariant
<1>2. PICK g \in Gens :
        /\ g = job[j].gen /\ Active(j) /\ job[j].stage = "publish"
        /\ job'[j].gen = g /\ job'[j].stage = "cleanup" /\ job'[j].work = job[j].work
        /\ \A i \in Jobs \ {j} : job'[i] = job[i] /\ ~Active(i) /\ ~Active(i)'
  BY <1>1 DEF publish_generation, GenStatus, OwnsStage, HoldsLease, Active,
       ActiveStates, TypeOK, JobRow, LeaseConsistent
<1>3. \A h \in Gens : gen'[h] =
        CASE h = g          -> [gen[h] EXCEPT !.status = "ready"]
          [] h = repo.ready -> [gen[h] EXCEPT !.status = "superseded"]
          [] OTHER          -> gen[h]
  BY <1>2 DEF publish_generation
<1>4. \A h \in Gens :
        /\ gen'[h].data = gen[h].data
        /\ gen'[h].status = "staging" => gen[h].status = "staging"
  <2> SUFFICES ASSUME NEW h \in Gens
               PROVE  /\ gen'[h].data = gen[h].data
                      /\ gen'[h].status = "staging" => gen[h].status = "staging"
    OBVIOUS
  <2>1. gen[h] \in GenRow
    BY <1>1 DEF TypeOK
  <2>2. gen'[h] \in {gen[h], [gen[h] EXCEPT !.status = "ready"],
                    [gen[h] EXCEPT !.status = "superseded"]}
    BY <1>3
  <2> QED BY <2>1, <2>2 DEF GenRow
<1>5. \A h \in Gens \ {g} :
        gen'[h].status \in {gen[h].status} \/ h = repo.ready
  BY <1>3
<1>6. Holds(job[j], gen[g].data)
  BY <1>2 DEF ContentOK
<1>7. gen[g].data.built = Products /\ gen[g].data.late = {}
  <2>1. gen[g].data.built \subseteq Products
    BY <1>1 DEF TypeOK, GenRow, Seals
  <2> QED BY <1>2, <1>6, <2>1 DEF Holds, Products
<1>8. repo.ready \in Gens => gen[repo.ready].status = "ready"
  BY DEF JobsInvariant, ReadyPointerConsistent
<1>9. ContentOK'
  BY <1>2, <1>4, <1>6 DEF ContentOK, Holds
<1>10. PublishedFresh'
  BY <1>4, <1>5, <1>7, <1>8 DEF PublishedFresh
<1> QED BY <1>2, <1>4, <1>9, <1>10 DEF StoreKept, Calm, InventoryKept

\* The stages and the requests of the commands, each in its transaction.
LEMMA TransactionKeeps ==
    ASSUME JobsInvariant, ContentOK, PublishedFresh, NEW j \in Jobs,
           NEW o \in Owners, NEW now \in Time,
           \/ \E u \in Units : parse_item(j, o, u)
           \/ finish_parse(j, o, now) \/ link_generation(j, o, now)
           \/ derive_template_candidates(j, o, now)
           \/ finalize_synthesis_catalog(j, o, now)
           \/ validate_generation_for_publication(j, o, now)
           \/ request_cancel(j, o, now) \/ complete_job(j, o, now)
           \/ persist_manifest(j, o)
    PROVE  StoreKept /\ Calm /\ \A i \in Jobs : InventoryKept(i)
<1> DEFINE data == gen[job[j].gen].data
<1>1. TypeOK /\ LeaseConsistent
  BY DEF JobsInvariant
<1>2. Active(j) => job[j] \in JobRow /\ job[j].gen \in Gens /\ data \in Seals
                     /\ Holds(job[j], data)
  BY <1>1 DEF TypeOK, GenRow, LeaseConsistent, GenStatus, ContentOK
<1>3. ASSUME NEW u \in Units, parse_item(j, o, u)
      PROVE  StoreKept /\ Calm /\ \A i \in Jobs : InventoryKept(i)
  <2> DEFINE x == [job[j] EXCEPT !.work = @ \ {u}]
             d == [built |-> data.built, parsed |-> data.parsed \cup {u},
                   lineage |-> data.lineage \cup {u},
                   late |-> IF "link" \in data.built THEN data.late \cup {u}
                                                     ELSE data.late]
  <2>1. Active(j) /\ GenStatus(j, "staging") /\ u \in job[j].work
    BY <1>3 DEF parse_item, ActiveJobScope, HoldsLease, Active, ActiveStates
  <2>2. job' = [job EXCEPT ![j] = x] /\ gen' = [gen EXCEPT ![job[j].gen].data = d]
    BY <1>3 DEF parse_item
  <2>3. /\ x.gen = job[j].gen /\ x.stage = job[j].stage
        /\ x.work = job[j].work \ {u}
    BY <1>2, <2>1 DEF JobRow
  <2>4. Holds(x, d)
    BY <1>2, <2>1, <2>3 DEF Holds, JobRow, Stages
  <2>5. d.built = data.built
    OBVIOUS
  <2> HIDE DEF x, d
  <2> QED BY <2>1, <2>2, <2>3, <2>4, <2>5, WorkOnJob
<1>4. ASSUME NEW x, Active(j), job' = [job EXCEPT ![j] = x], x.gen = job[j].gen,
             x.state \in ActiveStates => Holds(x, data), UNCHANGED gen,
             x.stage = job[j].stage \/ job[j].stage # "inventory"
      PROVE  StoreKept /\ Calm /\ \A i \in Jobs : InventoryKept(i)
  BY <1>4, WorkOnJob
<1>5. CASE finish_parse(j, o, now)
  <2> DEFINE x == [job[j] EXCEPT !.stage = "link", !.updated = now]
  <2>1. Active(j) /\ job[j].stage = "parse" /\ job[j].work = {}
    BY <1>5 DEF finish_parse, HoldsLease, Active, ActiveStates
  <2>2. x.gen = job[j].gen /\ x.stage = "link" /\ x.work = job[j].work
    BY <1>2, <2>1 DEF JobRow
  <2>3. Holds(x, data)
    BY <1>2, <2>1, <2>2 DEF Holds
  <2>4. job' = [job EXCEPT ![j] = x] /\ UNCHANGED gen
    BY <1>5 DEF finish_parse
  <2> HIDE DEF x
  <2> QED BY <1>4, <2>1, <2>2, <2>3, <2>4
<1>6. CASE validate_generation_for_publication(j, o, now)
  <2> DEFINE x == [job[j] EXCEPT !.stage = "publish", !.updated = now,
                                 !.receipt = gen[job[j].gen].data]
  <2>1. Active(j) /\ job[j].stage = "validate"
    BY <1>6 DEF validate_generation_for_publication, OwnsStage, HoldsLease,
         Active, ActiveStates
  <2>2. x.gen = job[j].gen /\ x.stage = "publish" /\ x.work = job[j].work
    BY <1>2, <2>1 DEF JobRow
  <2>3. Holds(x, data)
    BY <1>2, <2>1, <2>2 DEF Holds
  <2>4. job' = [job EXCEPT ![j] = x] /\ UNCHANGED gen
    BY <1>6 DEF validate_generation_for_publication
  <2> HIDE DEF x
  <2> QED BY <1>4, <2>1, <2>2, <2>3, <2>4
<1>7. CASE request_cancel(j, o, now)
  <2> DEFINE x == [job[j] EXCEPT !.state = "cancelling", !.cancel = TRUE,
                                 !.updated = now]
  <2>1. Active(j)
    BY <1>7 DEF request_cancel, Active, ActiveStates
  <2>2. x.gen = job[j].gen /\ x.stage = job[j].stage /\ x.work = job[j].work
    BY <1>2, <2>1 DEF JobRow
  <2>3. Holds(x, data)
    BY <1>2, <2>1, <2>2 DEF Holds
  <2>4. job' = [job EXCEPT ![j] = x] /\ UNCHANGED gen
    BY <1>7 DEF request_cancel
  <2> HIDE DEF x
  <2> QED BY <1>4, <2>1, <2>2, <2>3, <2>4
<1>8. CASE complete_job(j, o, now)
  <2> DEFINE x == [job[j] EXCEPT !.state = "completed", !.stage = "idle",
                                 !.updated = now]
  <2>1. Active(j) /\ job[j].stage = "cleanup"
    BY <1>8 DEF complete_job, OwnsStage, HoldsLease, Active, ActiveStates
  <2>2. x.gen = job[j].gen /\ x.state \notin ActiveStates
    BY <1>2, <2>1 DEF JobRow, ActiveStates
  <2>3. job' = [job EXCEPT ![j] = x] /\ UNCHANGED gen
    BY <1>8 DEF complete_job
  <2> HIDE DEF x
  <2> QED BY <1>4, <2>1, <2>2, <2>3
<1>9. CASE persist_manifest(j, o)
  <2> DEFINE d == [EmptyData EXCEPT !.built = {"manifest"}]
  <2>1. Active(j) /\ job[j].stage = "inventory"
    BY <1>9 DEF persist_manifest, HoldsLease, Active, ActiveStates
  <2>2. GenStatus(j, "staging")
    BY <1>1, <2>1 DEF LeaseConsistent
  <2>3. Holds(job[j], d) /\ d.built = {"manifest"}
    BY <1>2, <2>1 DEF Holds, EmptyData
  <2>4. job' = [job EXCEPT ![j] = job[j]] /\ gen' = [gen EXCEPT ![job[j].gen].data = d]
    BY <1>1, <1>9 DEF persist_manifest, TypeOK
  <2> HIDE DEF d
  <2> QED BY <2>1, <2>2, <2>3, <2>4, WorkOnJob
<1>10. ASSUME NEW stage \in Stages, NEW next \in Stages, NEW product \in Products,
              Build(j, o, stage, next, product, now),
              \/ /\ stage = "link" /\ next = "derive" /\ product = "link"
                 /\ data.parsed = Units
              \/ stage = "derive" /\ next = "synthesize" /\ product = "derive"
              \/ stage = "synthesize" /\ next = "validate" /\ product = "catalog"
       PROVE  StoreKept /\ Calm /\ \A i \in Jobs : InventoryKept(i)
  <2> DEFINE x == [job[j] EXCEPT !.stage = next, !.updated = now,
                                 !.receipt = NoReceipt]
             d == [data EXCEPT !.built = data.built \cup {product}]
  <2>1. Active(j) /\ job[j].stage = stage /\ GenStatus(j, "staging")
    BY <1>10 DEF Build, OwnsStage, HoldsLease, Active, ActiveStates
  <2>2. x.gen = job[j].gen /\ x.stage = next /\ x.work = job[j].work
    BY <1>2, <2>1 DEF JobRow
  <2>3. /\ d.built = data.built \cup {product}
        /\ d.parsed = data.parsed /\ d.late = data.late
    BY <1>2, <2>1 DEF Seals
  <2>4. job' = [job EXCEPT ![j] = x] /\ gen' = [gen EXCEPT ![job[j].gen].data = d]
    BY <1>10 DEF Build
  <2>5. data \in Seals /\ Holds(job[j], data)
    BY <1>2, <2>1
  <2> HIDE DEF x, d, data
  <2>6. Holds(x, d)
    BY <1>10, <2>1, <2>2, <2>3, <2>5 DEF Holds
  <2> USE DEF data
  <2> QED BY <1>10, <2>1, <2>2, <2>3, <2>4, <2>6, WorkOnJob
<1>11. CASE \/ link_generation(j, o, now)
            \/ derive_template_candidates(j, o, now)
            \/ finalize_synthesis_catalog(j, o, now)
  BY <1>10, <1>11, Names
     DEF link_generation, derive_template_candidates, finalize_synthesis_catalog
<1> QED BY <1>3, <1>5, <1>6, <1>7, <1>8, <1>9, <1>11

----------------------------------------------------------------------------
(* What a thread that prepares a job may rely on *)

\* A thread keeps what it may rely on while others work.
LEMMA RowKept ==
    ASSUME LeaseConsistent, LeaseConsistent', Calm, NEW row,
           row.at \in Preparing => row.job \in Jobs /\ row.gen \in Gens
                                     /\ InventoryKept(row.job),
           Prepares(row)
    PROVE  Prepares(row)'
<1> SUFFICES ASSUME row.at \in Preparing
             PROVE  Prepares(row)'
  BY DEF Prepares
<1> DEFINE j == row.job
           g == row.gen
<1>1. j \in Jobs /\ g \in Gens
  OBVIOUS
<1>2. ASSUME gen'[g].status = "staging"
      PROVE  Active(j)'
  <2>1. Active(j) /\ job[j].gen = g
    BY <1>1, <1>2 DEF Calm, Prepares
  <2>2. PICK i \in Jobs : Active(i)' /\ job'[i].gen = g
    BY <1>1, <1>2 DEF LeaseConsistent
  <2>3. i = j
    BY <1>1, <2>1, <2>2 DEF LeaseConsistent, Calm
  <2> QED BY <2>2, <2>3
<1>3. ASSUME Active(j)'
      PROVE  /\ job'[j].gen = g /\ job'[j].stage = "inventory"
             /\ row.at # "manifest" => "manifest" \in gen'[g].data.built
  <2>1. Active(j) /\ job'[j].gen = job[j].gen /\ job[j].gen = g
    BY <1>1, <1>3 DEF Calm, Prepares
  <2>2. job'[j].stage = "inventory"
    BY <1>1, <1>3, <2>1 DEF InventoryKept, Prepares
  <2>3. gen'[g].status = "staging"
    BY <1>1, <1>3, <2>1, <2>2 DEF LeaseConsistent, GenStatus
  <2> QED BY <1>1, <2>1, <2>2, <2>3 DEF Calm, Prepares
<1> QED BY <1>2, <1>3 DEF Prepares

\* A thread takes its next step: it stays with its job, or prepares none.
LEMMA PutPrepares ==
    ASSUME RefreshInvariant, RefreshInvariant', PreparationOK, Calm,
           NEW w \in Workers, NEW row, Put(w, row),
           \A i \in Jobs : InventoryKept(i),
           row.at \in Preparing =>
               /\ worker[w].at \in Preparing
               /\ row.job = worker[w].job /\ row.gen = worker[w].gen
               /\ worker[w].at = "manifest" /\ row.at # "manifest"
                    /\ gen'[row.gen].status = "staging"
                    => "manifest" \in gen'[row.gen].data.built
    PROVE  PreparationOK'
<1>1. /\ LeaseConsistent /\ LeaseConsistent' /\ WorkersOK
      /\ worker' = [worker EXCEPT ![w] = row]
  BY DEF RefreshInvariant, JobsInvariant, Put
<1>2. worker'[w] = row /\ \A v \in Workers \ {w} : worker'[v] = worker[v]
  BY <1>1 DEF WorkersOK
<1>3. \A v \in Workers : worker[v].at \in Preparing
          => worker[v].job \in Jobs /\ worker[v].gen \in Gens
  BY <1>1 DEF WorkersOK, RowOK, WithJob
<1>4. ASSUME NEW v \in Workers
      PROVE  Prepares(worker[v])'
  <2>1. CASE v # w
    <3>1. PICK old : old = worker[v]
      OBVIOUS
    <3>2. Prepares(old)
      BY <3>1 DEF PreparationOK
    <3>3. Prepares(old)'
      BY <1>1, <1>3, <3>1, <3>2, RowKept
    <3> QED BY <1>2, <2>1, <3>1, <3>3 DEF Prepares
  <2>2. CASE v = w
    <3>1. CASE row.at \notin Preparing
      BY <1>2, <2>2, <3>1 DEF Prepares
    <3>2. CASE row.at \in Preparing
      <4>1. PICK old : old = worker[w]
        OBVIOUS
      <4>2. Prepares(old)
        BY <4>1 DEF PreparationOK
      <4>3. Prepares(old)'
        BY <1>1, <1>3, <4>1, <4>2, <3>2, RowKept
      <4>4. Active(row.job)' => gen'[row.gen].status = "staging"
        BY <1>1, <1>3, <3>2, <4>1, <4>3 DEF Prepares, LeaseConsistent, GenStatus
      <4> QED BY <1>2, <2>2, <3>2, <4>1, <4>3, <4>4 DEF Prepares
    <3> QED BY <3>1, <3>2
  <2> QED BY <2>1, <2>2
<1>5. ASSUME NEW u \in Workers, NEW v \in Workers,
             worker'[u].at \in Preparing, worker'[v].at \in Preparing,
             worker'[u].job = worker'[v].job
      PROVE  u = v
  BY <1>2, <1>5 DEF PreparationOK
<1> QED BY <1>4, <1>5 DEF PreparationOK

\* The store and the threads are left alone.
LEMMA StillPrepares ==
    ASSUME PreparationOK, UNCHANGED <<gen, job, worker>>
    PROVE  PreparationOK'
  BY DEF PreparationOK, Prepares, Active

----------------------------------------------------------------------------
(* The steps of the threads *)

\* Thread w goes on with another command than preparing a job, or ends, and
\* the store keeps what it promises.
Proceeds(w) ==
    /\ StoreKept /\ Calm /\ \A i \in Jobs : InventoryKept(i)
    /\ \E row : Put(w, row) /\ row.at \notin Preparing

\* continue, cancel and cleanup, and the ends of every command.
LEMMA CommandProceeds ==
    ASSUME RefreshInvariant, ContentOK, PublishedFresh, NEW w \in Workers,
           \/ continue_refresh(w) \/ cancel_refresh(w) \/ run_cleanup(w)
           \/ Refuse(w) \/ Answer(w) \/ auto_continue(w) \/ click_index(w)
           \/ click_cancel(w) \/ click_cleanup(w)
    PROVE  Proceeds(w)
<1> USE Parameters
<1>1. JobsInvariant /\ TypeOK /\ RowOK(worker[w]) /\ worker[w] \in WorkerRow
  BY DEF RefreshInvariant, JobsInvariant, WorkersOK
<1>2. \A step : Goto(w, step) /\ step \notin Preparing
                  => \E row : Put(w, row) /\ row.at \notin Preparing
  <2>1. \A step : [worker[w] EXCEPT !.at = step].at = step
    BY <1>1 DEF WorkerRow
  <2> QED BY <2>1 DEF Goto
<1>3. ASSUME StoreUnchanged
      PROVE  StoreKept /\ Calm /\ \A i \in Jobs : InventoryKept(i)
  BY <1>3, StoreStill DEF StoreUnchanged
<1>4. CASE continue_load(w) \/ continue_parse(w)
  <2>1. \A g, s, t, b :
          /\ [worker[w] EXCEPT !.at = "step", !.gen = g, !.state = s,
                               !.stage = t].at = "step"
          /\ [worker[w] EXCEPT !.at = "parse", !.units = b].at = "parse"
    BY <1>1 DEF WorkerRow
  <2>2. StoreUnchanged
    BY <1>4 DEF continue_load, continue_parse
  <2>3. \E row : Put(w, row) /\ row.at \notin Preparing
    BY <1>4, <2>1 DEF continue_load, continue_parse, Preparing
  <2> QED BY <1>3, <2>2, <2>3 DEF Proceeds
<1>5. CASE continue_break(w) \/ continue_retry(w) \/ continue_derived(w)
             \/ cancel_load(w)
  <2>1. StoreUnchanged
    BY <1>5 DEF continue_break, continue_retry, continue_derived, cancel_load
  <2>2. \E step \in {"status", "derived", "request", "state"} : Goto(w, step)
    BY <1>5 DEF continue_break, continue_retry, continue_derived, cancel_load,
         AfterStage
  <2> QED BY <1>2, <1>3, <2>1, <2>2 DEF Proceeds, Preparing
<1>6. CASE continue_cancelling(w) \/ cancel_acknowledge(w)
  <2>1. acknowledge_cancel(worker[w].job, Owner, 0) /\ worker[w].job \in Jobs
    BY <1>1, <1>6 DEF continue_cancelling, cancel_acknowledge, RowOK, WithJob
  <2>2. \E step \in {"status", "state"} : Goto(w, step)
    BY <1>6 DEF continue_cancelling, cancel_acknowledge
  <2> QED BY <1>1, <1>2, <2>1, <2>2, CancelKeeps DEF Proceeds, Preparing
<1>7. CASE continue_parse_item(w)
  <2>1. PICK u \in worker[w].units :
           /\ parse_item(worker[w].job, Owner, u)
           /\ Put(w, [worker[w] EXCEPT !.units = @ \ {u}])
    BY <1>7 DEF continue_parse_item
  <2>2. worker[w].job \in Jobs /\ u \in Units
    BY <1>1, <1>7, <2>1 DEF continue_parse_item, RowOK, WithJob, WorkerRow
  <2>3. [worker[w] EXCEPT !.units = @ \ {u}].at = "parse"
    BY <1>1, <1>7 DEF continue_parse_item, WorkerRow
  <2> QED BY <1>1, <2>1, <2>2, <2>3, TransactionKeeps DEF Proceeds, Preparing
<1>8. CASE continue_parse_end(w)
  <2>1. worker[w].job \in Jobs
    BY <1>1, <1>8 DEF continue_parse_end, RowOK, WithJob
  <2>2. finish_parse(worker[w].job, Owner, 0) \/ StoreUnchanged
    BY <1>8 DEF continue_parse_end
  <2>3. StoreKept /\ Calm /\ \A i \in Jobs : InventoryKept(i)
    BY <1>1, <1>3, <2>1, <2>2, TransactionKeeps
  <2> QED BY <1>2, <1>8, <2>3 DEF continue_parse_end, Proceeds, Preparing
<1>9. CASE continue_stage(w)
  <2>1. PICK stage \in Stages :
           At(w, stage) /\ StageTransaction(stage, worker[w].job)
             /\ Goto(w, AfterStage(stage))
    BY <1>9 DEF continue_stage
  <2>2. worker[w].job \in Jobs
    BY <1>1, <2>1 DEF At, RowOK, WithJob
  <2>3. StoreKept /\ Calm /\ \A i \in Jobs : InventoryKept(i)
    BY <1>1, <2>1, <2>2, TransactionKeeps, PublishKeeps DEF StageTransaction
  <2>4. AfterStage(stage) \notin Preparing
    BY DEF AfterStage, Preparing
  <2> QED BY <1>2, <2>1, <2>3, <2>4 DEF Proceeds
<1>10. ASSUME NEW step, NEW told \in {"answer", "cancelled"},
              lifecycle_result(w, step, told)
       PROVE  Proceeds(w)
  <2> DEFINE row == [Idle EXCEPT !.at = told, !.job = worker[w].job,
                            !.state = job[worker[w].job].state,
                            !.ready = GenStatus(worker[w].job, "ready")]
  <2>1. Put(w, row) /\ StoreUnchanged
    BY <1>10 DEF lifecycle_result
  <2>2. row.at = told
    BY DEF Idle
  <2> HIDE DEF row
  <2> QED BY <1>3, <2>1, <2>2 DEF Proceeds, Preparing
<1>11. CASE cancel_request(w)
  <2>1. request_cancel(worker[w].job, Owner, 0) /\ worker[w].job \in Jobs
    BY <1>1, <1>11 DEF cancel_request, RowOK, WithJob
  <2>2. StoreKept /\ Calm /\ \A i \in Jobs : InventoryKept(i)
    BY <1>1, <2>1, TransactionKeeps
  <2> QED BY <1>2, <1>11, <2>2 DEF cancel_request, Proceeds, Preparing
<1>12. CASE run_cleanup(w)
  <2>1. worker[w].job \in Jobs /\ 1 \in 0 .. CleanupBatch
    BY <1>1, <1>12, RefreshAssumption, JobsAssumption
       DEF run_cleanup, RowOK, WithJob
  <2>2. PICK kept \in SUBSET Gens, batch \in SUBSET Gens :
           cleanup_generations(worker[w].job, Owner, 1, kept, batch, 0)
    BY <1>12 DEF run_cleanup
  <2>3. StoreKept /\ Calm /\ \A i \in Jobs : InventoryKept(i)
    BY <1>1, <2>1, <2>2, CleanupKeeps
  <2>4. Put(w, [Idle EXCEPT !.at = "cleaned"])
    BY <1>12 DEF run_cleanup
  <2>5. [Idle EXCEPT !.at = "cleaned"].at = "cleaned"
    BY DEF Idle
  <2> QED BY <2>3, <2>4, <2>5 DEF Proceeds, Preparing
<1>13. CASE Refuse(w)
  <2>1. Put(w, [Idle EXCEPT !.at = "refused", !.job = worker[w].job])
          /\ StoreUnchanged
    BY <1>13 DEF Refuse
  <2>2. [Idle EXCEPT !.at = "refused", !.job = worker[w].job].at = "refused"
    BY DEF Idle
  <2> QED BY <1>3, <2>1, <2>2 DEF Proceeds, Preparing
<1>14. CASE Answer(w)
  <2>1. Put(w, Idle) /\ StoreUnchanged
    BY <1>14 DEF Answer, continue_answered, continue_failed, start_answered,
         cancel_answered, action_ended, answer_dropped, PanelOnly, Free, Put
  <2>2. Idle.at \notin Preparing
    BY DEF Idle, Preparing
  <2> QED BY <1>3, <2>1, <2>2 DEF Proceeds
<1>15. CASE auto_continue(w) \/ click_index(w) \/ click_cancel(w) \/ click_cleanup(w)
  <2>1. [Idle EXCEPT !.at = "head"].at = "head"
    BY DEF Idle
  <2>2. /\ [Idle EXCEPT !.at = "load", !.job = view.job].at = "load"
        /\ [Idle EXCEPT !.at = "find", !.job = view.job].at = "find"
        /\ [Idle EXCEPT !.at = "clean", !.job = view.job].at = "clean"
    BY DEF Idle
  <2>3. StoreUnchanged /\ \E row : Put(w, row) /\ row.at \notin Preparing
    BY <1>15, <2>1, <2>2 DEF auto_continue, click_index, click_cancel,
         click_cleanup, PanelOnly, Preparing
  <2> QED BY <1>3, <2>3 DEF Proceeds
<1> QED
  BY <1>4, <1>5, <1>6, <1>7, <1>8, <1>9, <1>10, <1>11, <1>12, <1>13, <1>14,
     <1>15 DEF continue_refresh, cancel_refresh

\* run_refresh: its writes hit the job this thread has started.
LEMMA RefreshPrepares ==
    ASSUME RefreshInvariant, RefreshInvariant', ContentOK, PublishedFresh,
           PreparationOK, NEW w \in Workers, run_refresh(w)
    PROVE  StoreKept /\ PreparationOK'
<1> USE Parameters
<1>1. /\ JobsInvariant /\ TypeOK /\ LeaseConsistent
      /\ RowOK(worker[w]) /\ worker[w] \in WorkerRow
      /\ worker \in [Workers -> WorkerRow]
  BY DEF RefreshInvariant, JobsInvariant, WorkersOK
<1>2. worker[w].at \in Preparing => worker[w].job \in Jobs /\ worker[w].gen \in Gens
  BY <1>1 DEF RowOK, WithJob
<1>3. Prepares(worker[w])
  BY DEF PreparationOK
<1>4. ASSUME NEW step, Goto(w, step), Calm, \A i \in Jobs : InventoryKept(i),
             step \in Preparing => worker[w].at \in Preparing,
             worker[w].at = "manifest" => "manifest" \in gen'[worker[w].gen].data.built
      PROVE  PreparationOK'
  <2> DEFINE row == [worker[w] EXCEPT !.at = step]
  <2>1. row.at = step /\ row.job = worker[w].job /\ row.gen = worker[w].gen
    BY <1>1 DEF WorkerRow
  <2>2. Put(w, row)
    BY <1>4 DEF Goto
  <2> HIDE DEF row
  <2> QED BY <1>4, <2>1, <2>2, PutPrepares
<1>5. ASSUME NEW row, Put(w, row), row.at \notin Preparing, Calm,
             \A i \in Jobs : InventoryKept(i)
      PROVE  PreparationOK'
  BY <1>5, PutPrepares
<1>6. ASSUME UNCHANGED <<gen, job>>
      PROVE  StoreKept /\ Calm /\ \A i \in Jobs : InventoryKept(i)
  BY <1>6, StoreStill
<1>7. CASE refresh_head(w) \/ refresh_reuse(w)
  <2>1. [Idle EXCEPT !.at = "started"].at \notin Preparing
    BY DEF Idle, Preparing
  <2>2. [worker[w] EXCEPT !.at = "register", !.rev = head].at \notin Preparing
    BY <1>1 DEF WorkerRow, Preparing
  <2>3. UNCHANGED <<gen, job>>
    BY <1>7 DEF refresh_head, refresh_reuse, StoreUnchanged
  <2> QED BY <1>5, <1>6, <1>7, <2>1, <2>2, <2>3 DEF refresh_head, refresh_reuse
<1>8. CASE refresh_register(w)
  <2>1. UNCHANGED <<gen, job>> /\ Goto(w, "start") /\ worker[w].at = "register"
    BY <1>8 DEF refresh_register, register_inventory
  <2> QED BY <1>4, <1>6, <2>1 DEF Preparing
<1>9. CASE refresh_start(w)
  <2>1. PICK j \in FreshJobs, g \in FreshGens :
           /\ start_job(j, g, Owner, worker[w].rev, 0)
           /\ Put(w, [worker[w] EXCEPT !.at = "manifest", !.job = j, !.gen = g])
    BY <1>9 DEF refresh_start
  <2>2. j \in Jobs /\ g \in Gens /\ worker[w].rev \in Revisions
    BY <1>1, <1>9 DEF refresh_start, RowOK, FreshJobs, FreshGens
  <2>3. StoreKept
    BY <1>1, <2>1, <2>2, StartKeeps
  <2> DEFINE row == [worker[w] EXCEPT !.at = "manifest", !.job = j, !.gen = g]
  <2>4. row.at = "manifest" /\ row.job = j /\ row.gen = g
    BY <1>1 DEF WorkerRow
  <2>5. worker'[w] = row /\ \A v \in Workers \ {w} : worker'[v] = worker[v]
    BY <1>1, <2>1 DEF Put
  <2> HIDE DEF row
  <2>6. \A v \in Workers : worker[v].job # j /\ worker[v].gen # g
    BY <2>1 DEF FreshJobs, FreshGens
  <2>7. /\ job'[j].state = "running" /\ job'[j].gen = g /\ job'[j].stage = "inventory"
        /\ \A i \in Jobs \ {j} : job'[i] = job[i]
        /\ \A h \in Gens \ {g} : gen'[h] = gen[h]
    BY <1>1, <2>1, <2>2 DEF start_job, NoJob, TypeOK
  <2>8. ASSUME NEW v \in Workers
        PROVE  Prepares(worker[v])'
    <3>1. CASE v = w
      BY <2>4, <2>5, <2>7, <3>1 DEF Prepares, Active, ActiveStates
    <3>2. CASE v # w
      <4>1. worker[v].at \in Preparing => worker[v].job \in Jobs /\ worker[v].gen \in Gens
        BY DEF RefreshInvariant, WorkersOK, RowOK, WithJob
      <4>2. Prepares(worker[v])
        BY DEF PreparationOK
      <4> QED BY <2>5, <2>6, <2>7, <3>2, <4>1, <4>2 DEF Prepares, Active
    <3> QED BY <3>1, <3>2
  <2>9. ASSUME NEW u \in Workers, NEW v \in Workers,
               worker'[u].at \in Preparing, worker'[v].at \in Preparing,
               worker'[u].job = worker'[v].job
        PROVE  u = v
    BY <2>4, <2>5, <2>6, <2>9 DEF PreparationOK
  <2> QED BY <2>3, <2>8, <2>9 DEF PreparationOK
<1>10. CASE refresh_manifest(w)
  <2>1. persist_manifest(worker[w].job, Owner) /\ Goto(w, "inputs")
          /\ worker[w].at = "manifest"
    BY <1>10 DEF refresh_manifest
  <2>2. worker[w].job \in Jobs /\ worker[w].gen \in Gens
    BY <1>2, <2>1 DEF Preparing
  <2>3. StoreKept /\ Calm /\ \A i \in Jobs : InventoryKept(i)
    BY <1>1, <2>1, <2>2, TransactionKeeps
  <2>4. Active(worker[w].job)
    BY <2>1 DEF persist_manifest, HoldsLease, Active, ActiveStates
  <2>5. job[worker[w].job].gen = worker[w].gen
    BY <1>3, <2>1, <2>4 DEF Prepares, Preparing
  <2>6. gen'[worker[w].gen].data.built = {"manifest"}
    BY <1>1, <2>1, <2>2, <2>5 DEF persist_manifest, EmptyData, TypeOK, GenRow
  <2> QED BY <1>4, <2>1, <2>3, <2>6 DEF Preparing
<1>11. CASE refresh_inputs(w)
  <2>1. UNCHANGED <<gen, job>> /\ Goto(w, "plan") /\ worker[w].at = "inputs"
    BY <1>11 DEF refresh_inputs, StoreUnchanged
  <2> QED BY <1>4, <1>6, <2>1 DEF Preparing
<1>12. CASE refresh_plan(w)
  <2> DEFINE next == IF repo.ready # NoGen /\ Changed(worker[w].rev) = {}
                     THEN "noop" ELSE "clone"
             units == Invalidated(worker[w].rev)
             row == [worker[w] EXCEPT !.at = next, !.units = units]
  <2>1. Put(w, row) /\ UNCHANGED <<gen, job>> /\ worker[w].at = "plan"
    BY <1>12 DEF refresh_plan, StoreUnchanged
  <2> HIDE DEF next, units
  <2>2. row.job = worker[w].job /\ row.gen = worker[w].gen
    BY <1>1 DEF WorkerRow
  <2> HIDE DEF row
  <2> QED BY <1>6, <2>1, <2>2, PutPrepares DEF Preparing
<1>13. CASE refresh_noop(w)
  <2>1. remove_noop(worker[w].job, Owner) /\ worker[w].at = "noop"
          /\ Put(w, [Idle EXCEPT !.at = "started"])
    BY <1>13 DEF refresh_noop
  <2>2. [Idle EXCEPT !.at = "started"].at \notin Preparing
    BY DEF Idle, Preparing
  <2>3. worker[w].job \in Jobs
    BY <1>2, <2>1 DEF Preparing
  <2>4. StoreKept /\ Calm /\ \A i \in Jobs : InventoryKept(i)
    BY <1>1, <2>1, <2>3, NoopKeeps
  <2> QED BY <1>5, <2>1, <2>2, <2>4
<1>14. CASE refresh_clone(w)
  <2>1. Goto(w, "work") /\ worker[w].at = "clone"
    BY <1>14 DEF refresh_clone
  <2>2. CASE StoreUnchanged
    BY <1>4, <1>6, <2>1, <2>2 DEF StoreUnchanged, Preparing
  <2>3. CASE clone_unaffected_ready_facts(worker[w].gen, repo.ready,
                                          Units \ worker[w].units)
    <3> DEFINE j == worker[w].job
               g == worker[w].gen
               d == [gen[g].data EXCEPT
                       !.parsed = Units \ worker[w].units,
                       !.lineage = gen[g].data.lineage \ (Units \ worker[w].units)]
    <3>1. j \in Jobs /\ g \in Gens /\ gen[g].status = "staging"
            /\ gen' = [gen EXCEPT ![g].data = d] /\ UNCHANGED job
      BY <1>2, <2>1, <2>3 DEF clone_unaffected_ready_facts, Preparing
    <3>2. Active(j) /\ job[j].gen = g /\ job[j].stage = "inventory"
      BY <1>3, <2>1, <3>1 DEF Prepares, Preparing
    <3>3. gen[g].data \in Seals /\ Holds(job[j], gen[g].data)
      BY <1>1, <3>1, <3>2 DEF ContentOK, TypeOK, GenRow
    <3>4. d.built = gen[g].data.built /\ d.late = gen[g].data.late
      BY <3>3 DEF Seals
    <3>5. job' = [job EXCEPT ![j] = job[j]] /\ GenStatus(j, "staging")
      BY <1>1, <3>1, <3>2 DEF TypeOK, GenStatus
    <3> HIDE DEF d
    <3>6. Holds(job[j], d)
      BY <3>2, <3>3, <3>4 DEF Holds
    <3>7. StoreKept /\ Calm /\ \A i \in Jobs : InventoryKept(i)
      BY <1>1, <3>1, <3>2, <3>4, <3>5, <3>6, WorkOnJob
    <3> QED BY <1>4, <2>1, <3>7 DEF Preparing
  <2> QED BY <1>14, <2>2, <2>3 DEF refresh_clone
<1>15. CASE refresh_work(w)
  <2> DEFINE j == worker[w].job
             x == [job[j] EXCEPT !.plan = worker[w].units,
                     !.work = IF job[j].plan = {} THEN worker[w].units
                                                  ELSE job[j].work]
  <2>1. persist_refresh_work_plan(j, Owner, worker[w].units) /\ Goto(w, "checkpoint")
          /\ worker[w].at = "work"
    BY <1>15 DEF refresh_work
  <2>2. j \in Jobs /\ Active(j)
    BY <1>2, <2>1 DEF persist_refresh_work_plan, ActiveJobScope, HoldsLease,
         Active, ActiveStates, Preparing
  <2>3. job[j].stage = "inventory" /\ Holds(job[j], gen[job[j].gen].data)
    BY <1>3, <2>1, <2>2 DEF Prepares, Preparing, ContentOK
  <2>4. x.gen = job[j].gen /\ x.stage = "inventory"
    BY <1>1, <2>2, <2>3 DEF TypeOK, JobRow
  <2>5. job' = [job EXCEPT ![j] = x] /\ gen' = gen
    BY <2>1 DEF persist_refresh_work_plan
  <2> HIDE DEF x
  <2>6. Holds(x, gen[job[j].gen].data)
    BY <2>3, <2>4 DEF Holds
  <2>7. StoreKept /\ Calm /\ \A i \in Jobs : InventoryKept(i)
    BY <1>1, <2>2, <2>3, <2>4, <2>5, <2>6, WorkOnJob
  <2> QED BY <1>4, <2>1, <2>7 DEF Preparing
<1>16. CASE refresh_checkpoint(w)
  <2> DEFINE j == worker[w].job
             x == [job[j] EXCEPT !.stage = "parse", !.updated = 0,
                                 !.receipt = NoReceipt]
             row == [Idle EXCEPT !.at = "started", !.job = j]
  <2>1. checkpoint_plan(j, Owner, "parse", 0) /\ Put(w, row)
          /\ worker[w].at = "checkpoint"
    BY <1>16 DEF refresh_checkpoint
  <2>2. j \in Jobs /\ Active(j)
    BY <1>2, <2>1 DEF checkpoint_plan, HoldsLease, Active, ActiveStates, Preparing
  <2>3. "manifest" \in gen[job[j].gen].data.built /\ job[j].stage = "inventory"
          /\ Holds(job[j], gen[job[j].gen].data)
    BY <1>3, <2>1, <2>2 DEF Prepares, Preparing, ContentOK
  <2>4. x.gen = job[j].gen /\ x.stage = "parse"
    BY <1>1, <2>2, <2>3 DEF TypeOK, JobRow
  <2>5. job' = [job EXCEPT ![j] = x] /\ gen' = gen
    BY <2>1 DEF checkpoint_plan
  <2>6. row.at \notin Preparing
    BY DEF Idle, Preparing
  <2> HIDE DEF x, row
  <2>7. Holds(x, gen[job[j].gen].data)
    BY <2>3, <2>4 DEF Holds
  <2>8. StoreKept /\ Calm /\ \A i \in Jobs \ {j} : InventoryKept(i)
    BY <1>1, <2>2, <2>4, <2>5, <2>7, WorkOnJob
  <2>9. worker'[w] = row /\ \A v \in Workers \ {w} : worker'[v] = worker[v]
    BY <1>1, <2>1 DEF Put
  <2>10. ASSUME NEW v \in Workers
         PROVE  Prepares(worker[v])'
    <3>1. CASE v = w
      BY <2>6, <2>9, <3>1 DEF Prepares
    <3>2. CASE v # w
      <4>1. PICK old : old = worker[v]
        OBVIOUS
      <4>2. old.at \in Preparing => old.job \in Jobs /\ old.gen \in Gens /\ old.job # j
        BY <2>1, <3>2, <4>1
           DEF RefreshInvariant, WorkersOK, RowOK, WithJob, PreparationOK, Preparing
      <4>3. Prepares(old)
        BY <4>1 DEF PreparationOK
      <4>4. Prepares(old)'
        BY <2>8, <4>2, <4>3, RowKept DEF RefreshInvariant, JobsInvariant
      <4> QED BY <2>9, <3>2, <4>1, <4>4 DEF Prepares
    <3> QED BY <3>1, <3>2
  <2>11. ASSUME NEW u \in Workers, NEW v \in Workers,
                worker'[u].at \in Preparing, worker'[v].at \in Preparing,
                worker'[u].job = worker'[v].job
         PROVE  u = v
    BY <2>6, <2>9, <2>11 DEF PreparationOK
  <2> QED BY <2>8, <2>10, <2>11 DEF PreparationOK
<1> QED
  BY <1>7, <1>8, <1>9, <1>10, <1>11, <1>12, <1>13, <1>14, <1>15, <1>16
     DEF run_refresh

\* Every step of the desktop keeps the contents and the preparations.
LEMMA StagesStep ==
    ASSUME RefreshInvariant, RefreshInvariant', ContentOK, PublishedFresh,
           PreparationOK, [RefreshNext]_refreshVars
    PROVE  ContentOK' /\ PublishedFresh' /\ PreparationOK'
<1>1. ASSUME NEW w \in Workers, run_refresh(w)
      PROVE  StoreKept /\ PreparationOK'
  BY <1>1, RefreshPrepares
<1>2. ASSUME NEW w \in Workers, Proceeds(w)
      PROVE  StoreKept /\ PreparationOK'
  BY <1>2, PutPrepares DEF Proceeds
<1>3. ASSUME NEW w \in Workers,
             \/ continue_refresh(w) \/ cancel_refresh(w) \/ run_cleanup(w)
             \/ refused(w) \/ command_fails(w)
             \/ Answer(w) \/ auto_continue(w) \/ click_index(w)
             \/ click_cancel(w) \/ click_cleanup(w)
      PROVE  StoreKept /\ PreparationOK'
  <2>1. refused(w) \/ command_fails(w) => Refuse(w)
    BY DEF refused, command_fails
  <2> QED BY <1>2, <1>3, <2>1, CommandProceeds
<1>4. CASE move_head \/ mounted_status \/ remount \/ UNCHANGED refreshVars
  <2>1. UNCHANGED <<gen, job, worker>>
    BY <1>4 DEF move_head, mounted_status, remount, refreshVars, PanelOnly,
         StoreUnchanged
  <2> QED BY <2>1, StoreStill, StillPrepares DEF StoreKept
<1>5. CASE crash
  <2>1. UNCHANGED <<gen, job>> /\ worker' = [w \in Workers |-> Idle]
    BY <1>5 DEF crash, StoreUnchanged
  <2>2. \A w \in Workers : worker'[w].at \notin Preparing
    BY <2>1 DEF Idle, Preparing
  <2> QED BY <2>1, <2>2, StoreStill DEF StoreKept, PreparationOK, Prepares
<1> QED
  BY <1>1, <1>3, <1>4, <1>5 DEF StoreKept, RefreshNext, Command

\* The panel and the stored dependencies keep their types.
LEMMA PanelStep ==
    ASSUME RefreshInvariant, PanelOK, [RefreshNext]_refreshVars
    PROVE  PanelOK'
<1>1. /\ TypeOK /\ \A w \in Workers : worker[w] \in WorkerRow
      /\ \A w \in Workers : worker[w].state \in ActiveStates \cup TerminalStates \cup {"absent"}
      /\ \A w \in Workers : worker[w].job \in Jobs \cup {NoJobId}
      /\ \A j \in Jobs : job[j].state \in ActiveStates \cup TerminalStates \cup {"absent"}
  BY DEF RefreshInvariant, JobsInvariant, WorkersOK, WorkerRow, TypeOK, JobRow
<1>2. Mounted \in ViewRow
  BY DEF Mounted, ViewRow
<1>3. ASSUME UNCHANGED <<deps, view, faults>>
      PROVE  PanelOK'
  BY <1>3 DEF PanelOK
<1>4. ASSUME NEW g \in Gens, NEW d \in SUBSET (Units \X Units),
             deps' = [deps EXCEPT ![g] = d], UNCHANGED <<view, faults>>
      PROVE  PanelOK'
  BY <1>4 DEF PanelOK
<1>5. ASSUME NEW w \in Workers, Command(w)
      PROVE  PanelOK'
  <2>1. CASE refresh_inputs(w) \/ continue_derived(w)
    <3>1. worker[w].gen \in Gens
      BY <2>1 DEF refresh_inputs, continue_derived, persist_invalidation_metadata
    <3>2. /\ deps' = [deps EXCEPT ![worker[w].gen] = Provable(worker[w].gen)]
          /\ Provable(worker[w].gen) \in SUBSET (Units \X Units)
      BY <2>1, RefreshAssumption
         DEF refresh_inputs, continue_derived, persist_invalidation_metadata, Provable
    <3>3. UNCHANGED <<view, faults>>
      BY <2>1 DEF refresh_inputs, continue_derived, Elsewhere
    <3> QED BY <1>4, <3>1, <3>2, <3>3
  <2>2. CASE refresh_start(w)
    BY <1>4, <2>2 DEF refresh_start, FreshGens, Elsewhere
  <2>3. CASE run_refresh(w) /\ ~refresh_inputs(w) /\ ~refresh_start(w)
    BY <1>3, <2>3 DEF run_refresh, refresh_head, refresh_register, refresh_reuse,
         refresh_manifest, refresh_plan, refresh_noop, refresh_clone,
         refresh_work, refresh_checkpoint, Elsewhere
  <2>4. CASE continue_refresh(w) /\ ~continue_derived(w)
    BY <1>3, <2>4 DEF continue_refresh, continue_load, continue_cancelling,
         continue_break, continue_parse, continue_parse_item,
         continue_parse_end, continue_stage, continue_retry, lifecycle_result,
         Elsewhere
  <2>5. CASE cancel_refresh(w) \/ run_cleanup(w)
    BY <1>3, <2>5 DEF cancel_refresh, cancel_load, cancel_request,
         cancel_acknowledge, lifecycle_result, run_cleanup, Elsewhere
  <2> QED BY <1>5, <2>1, <2>2, <2>3, <2>4, <2>5 DEF Command
<1>6. ASSUME NEW w \in Workers, refused(w) \/ command_fails(w)
      PROVE  PanelOK'
  <2>1. UNCHANGED <<deps, view>> /\ faults' \in 0 .. MaxFaults
    BY <1>6, RefreshAssumption DEF refused, command_fails, Refuse, PanelOK
  <2> QED BY <2>1 DEF PanelOK
<1>7. CASE crash
  BY <1>2, <1>7, RefreshAssumption DEF crash, PanelOK
<1>8. CASE move_head \/ UNCHANGED refreshVars
  BY <1>3, <1>8 DEF move_head, refreshVars
<1>9. ASSUME PanelOnly, view' \in ViewRow
      PROVE  PanelOK'
  BY <1>9 DEF PanelOK, PanelOnly
<1>10. view \in ViewRow
  BY DEF PanelOK
<1>11. CASE remount \/ mounted_status
  <2>1. CASE remount
    BY <1>2, <1>9, <2>1 DEF remount
  <2>2. CASE /\ mounted_status
             /\ view' = [view EXCEPT !.loading = FALSE]
    <3>1. [view EXCEPT !.loading = FALSE] \in ViewRow
      BY <1>10 DEF ViewRow
    <3> QED BY <1>9, <2>2, <3>1 DEF mounted_status
  <2>3. ASSUME mounted_status, NEW j \in CurrentJobs,
               view' = [view EXCEPT !.loading = FALSE, !.job = j,
                                    !.state = job[j].state,
                                    !.current = NoWorker,
                                    !.autoRun = job[j].state = "running"]
        PROVE  PanelOK'
    <3> DEFINE s == job[j].state
               b == job[j].state = "running"
    <3>1. j \in Jobs
      BY DEF CurrentJobs
    <3>2. s \in ActiveStates \cup TerminalStates \cup {"absent"} /\ b \in BOOLEAN
      BY <1>1, <3>1
    <3>3. view' = [view EXCEPT !.loading = FALSE, !.job = j, !.state = s,
                               !.current = NoWorker, !.autoRun = b]
      BY <2>3
    <3> HIDE DEF s, b
    <3>4. view' \in ViewRow
      BY <1>10, <3>1, <3>2, <3>3 DEF ViewRow
    <3> QED BY <1>9, <2>3, <3>4 DEF mounted_status
  <2> QED BY <1>11, <2>1, <2>2, <2>3 DEF mounted_status
<1>12. ASSUME NEW w \in Workers, Answer(w)
       PROVE  PanelOK'
  <2> DEFINE k == worker[w].job
             s == worker[w].state
             b == view.autoRun /\ ~worker[w].ready /\ worker[w].state \in ActiveStates
             rest == view.awaits \ {w}
  <2>1. PanelOnly
    BY <1>12 DEF Answer, continue_answered, continue_failed, start_answered,
         cancel_answered, action_ended, answer_dropped
  <2>2. /\ k \in Jobs \cup {NoJobId}
        /\ s \in ActiveStates \cup TerminalStates \cup {"absent"}
        /\ rest \in SUBSET Workers
    BY <1>1, <1>10 DEF ViewRow
  <2>3. b \in BOOLEAN
    BY Zenon
  <2>4. CASE continue_answered(w)
    <3>1. view' = [view EXCEPT !.current = NoWorker, !.action = "none",
                               !.job = k, !.state = s, !.autoRun = b]
      BY <2>4 DEF continue_answered
    <3> HIDE DEF k, s, b
    <3>2. view' \in ViewRow
      BY <1>10, <2>2, <2>3, <3>1 DEF ViewRow
    <3> QED BY <1>9, <2>1, <3>2
  <2>5. CASE cancel_answered(w)
    <3>1. view' = [view EXCEPT !.awaits = rest, !.action = "none", !.job = k,
                               !.state = s, !.current = NoWorker]
      BY <2>5 DEF cancel_answered
    <3> HIDE DEF k, s, rest
    <3>2. view' \in ViewRow
      BY <1>10, <2>2, <3>1 DEF ViewRow
    <3> QED BY <1>9, <2>1, <3>2
  <2>6. CASE start_answered(w)
    <3> DEFINE t == IF k = NoJobId THEN "absent" ELSE job[k].state
               c == IF k = NoJobId THEN view.autoRun ELSE job[k].state = "running"
    <3>1. view' = [view EXCEPT !.awaits = rest, !.action = "none", !.job = k,
                               !.state = t, !.autoRun = c, !.current = NoWorker]
      BY <2>6 DEF start_answered
    <3>2. t \in ActiveStates \cup TerminalStates \cup {"absent"}
      BY <1>1, <2>2
    <3>3. c \in BOOLEAN
      BY <1>10 DEF ViewRow
    <3> HIDE DEF k, t, c, rest
    <3>4. view' \in ViewRow
      BY <1>10, <2>2, <3>1, <3>2, <3>3 DEF ViewRow
    <3> QED BY <1>9, <2>1, <3>4
  <2>7. CASE continue_failed(w) \/ action_ended(w) \/ answer_dropped(w)
    <3>1. \/ view' = [view EXCEPT !.current = NoWorker, !.action = "none",
                                  !.autoRun = FALSE]
          \/ view' = [view EXCEPT !.awaits = rest, !.action = "none"]
          \/ view' = view
      BY <2>7 DEF continue_failed, action_ended, answer_dropped
    <3>2. [view EXCEPT !.current = NoWorker, !.action = "none",
                       !.autoRun = FALSE] \in ViewRow
      BY <1>10 DEF ViewRow
    <3> HIDE DEF rest
    <3>3. [view EXCEPT !.awaits = rest, !.action = "none"] \in ViewRow
      BY <1>10, <2>2 DEF ViewRow
    <3> QED BY <1>9, <1>10, <2>1, <3>1, <3>2, <3>3
  <2> HIDE DEF k, s, b, rest
  <2> QED BY <1>12, <2>4, <2>5, <2>6, <2>7 DEF Answer
<1>13. ASSUME NEW w \in Workers,
              auto_continue(w) \/ click_index(w) \/ click_cancel(w) \/ click_cleanup(w)
       PROVE  PanelOK'
  <2> DEFINE more == view.awaits \cup {w}
  <2>1. more \in SUBSET Workers
    BY <1>10 DEF ViewRow
  <2>2. \/ view' = [view EXCEPT !.action = "continue", !.current = w]
        \/ view' = [view EXCEPT !.action = "start", !.awaits = more]
        \/ view' = [view EXCEPT !.action = "cancel", !.autoRun = FALSE,
                                !.current = NoWorker, !.awaits = more]
        \/ view' = [view EXCEPT !.action = "cleanup", !.awaits = more]
    BY <1>13 DEF auto_continue, click_index, click_cancel, click_cleanup
  <2>3. PanelOnly
    BY <1>13 DEF auto_continue, click_index, click_cancel, click_cleanup
  <2> HIDE DEF more
  <2>4. /\ [view EXCEPT !.action = "continue", !.current = w] \in ViewRow
        /\ [view EXCEPT !.action = "start", !.awaits = more] \in ViewRow
        /\ [view EXCEPT !.action = "cleanup", !.awaits = more] \in ViewRow
    BY <1>10, <2>1 DEF ViewRow
  <2>5. [view EXCEPT !.action = "cancel", !.autoRun = FALSE,
                     !.current = NoWorker, !.awaits = more] \in ViewRow
    BY <1>10, <2>1 DEF ViewRow
  <2> QED BY <1>9, <2>2, <2>3, <2>4, <2>5
<1> QED
  BY <1>5, <1>6, <1>7, <1>8, <1>11, <1>12, <1>13 DEF RefreshNext

----------------------------------------------------------------------------
(* The theorems *)

\* The application starts with an empty store.
LEMMA StagesInit == RefreshInit => StagesInvariant
<1> SUFFICES ASSUME RefreshInit PROVE StagesInvariant
  OBVIOUS
<1>1. RefreshInvariant
  BY RefreshInitInvariant
<1>2. /\ \A j \in Jobs : ~Active(j)
      /\ \A g \in Gens : gen[g].status = "absent"
  BY DEF RefreshInit, Init, NoJob, NoGeneration, Active, ActiveStates
<1>3. \A w \in Workers : worker[w].at = "idle"
  BY DEF RefreshInit, Idle
<1>4. PreparationOK
  BY <1>3 DEF PreparationOK, Prepares, Preparing
<1>5. PanelOK
  BY RefreshAssumption DEF RefreshInit, PanelOK, Mounted, ViewRow
<1> QED BY <1>1, <1>2, <1>4, <1>5 DEF StagesInvariant, ContentOK, PublishedFresh

\* The invariant holds whatever the threads, the user and the faults do.
LEMMA StagesHold == RefreshSpec => []StagesInvariant
<1>1. StagesInvariant /\ [RefreshNext]_refreshVars => StagesInvariant'
  BY RefreshStepInvariant, StagesStep, PanelStep DEF StagesInvariant
<1> QED BY StagesInit, <1>1, PTL DEF RefreshSpec

----------------------------------------------------------------------------
(* The lineage of the units a job has parsed.                              *)

\* A generation that a job names exists, and no other job names it.
GenerationsOwned ==
    \A i \in Jobs : job[i].gen \in Gens =>
        /\ gen[job[i].gen].status # "absent"
        /\ \A k \in Jobs : job[k].gen = job[i].gen => k = i

\* It holds the lineage of every unit that was planned and is parsed.
LineageParsed ==
    \A i \in Jobs : job[i].gen \in Gens =>
        job[i].plan \ job[i].work \subseteq gen[job[i].gen].data.lineage

\* Nothing is left to parse of a ready generation.
NothingPending ==
    \A i \in Jobs : job[i].gen \in Gens /\ gen[job[i].gen].status = "ready"
                      => job[i].work = {}

StoreLineage == GenerationsOwned /\ LineageParsed /\ NothingPending

\* The steps of a refresh before its work plan is stored.
Planning == Preparing \ {"checkpoint"}

\* The job that a thread prepares has no plan yet: neither the manifest nor the
\* clone empties the lineage of a parsed unit.
Unplanned == \A w \in Workers : worker[w].at \in Planning => job[worker[w].job].plan = {}

LineageInvariant == StoreLineage /\ Unplanned

\* A transaction on the row of one job and on its generation: x is the new row
\* and d the new lineage.
LEMMA OneJobLineage ==
    ASSUME TypeOK, StoreLineage, NEW j \in Jobs, NEW x, NEW d,
           job[j].gen \in Gens, job' = [job EXCEPT ![j] = x], x.gen = job[j].gen,
           x.plan \ x.work \subseteq d, gen'[job[j].gen].data.lineage = d,
           gen'[job[j].gen].status = "ready" => x.work = {},
           \A h \in Gens :
              /\ h = job[j].gen \/ gen'[h].data.lineage = gen[h].data.lineage
              /\ gen'[h].status = "absent" => gen[h].status = "absent"
              /\ gen'[h].status = "ready" => h = job[j].gen \/ gen[h].status = "ready"
    PROVE  StoreLineage'
<1>1. job'[j] = x /\ \A i \in Jobs \ {j} : job'[i] = job[i]
  BY DEF TypeOK
<1>2. \A i \in Jobs : job'[i].gen = job[i].gen
  BY <1>1
<1>3. \A i \in Jobs \ {j} : job[i].gen # job[j].gen
  BY DEF StoreLineage, GenerationsOwned
<1>4. GenerationsOwned'
  BY <1>2 DEF StoreLineage, GenerationsOwned
<1>5. LineageParsed'
  BY <1>1, <1>2, <1>3 DEF StoreLineage, LineageParsed
<1>6. NothingPending'
  BY <1>1, <1>2, <1>3 DEF StoreLineage, NothingPending
<1> QED BY <1>4, <1>5, <1>6 DEF StoreLineage

\* A transaction that neither plans nor parses nor publishes.
LEMMA JobMovesOn ==
    ASSUME TypeOK, StoreLineage, NEW j \in Jobs, NEW x,
           job[j].gen \in Gens, job' = [job EXCEPT ![j] = x], x.gen = job[j].gen,
           x.plan = job[j].plan, x.work = job[j].work,
           \A h \in Gens :
              /\ gen'[h].data.lineage = gen[h].data.lineage
              /\ gen'[h].status = "absent" => gen[h].status = "absent"
              /\ gen'[h].status = "ready" => gen[h].status = "ready"
    PROVE  /\ StoreLineage'
           /\ \A i \in Jobs : job'[i].plan = job[i].plan
<1>1. job'[j] = x /\ \A i \in Jobs \ {j} : job'[i] = job[i]
  BY DEF TypeOK
<1>2. job[j].plan \ job[j].work \subseteq gen[job[j].gen].data.lineage
  BY DEF StoreLineage, LineageParsed
<1>3. gen[job[j].gen].status = "ready" => job[j].work = {}
  BY DEF StoreLineage, NothingPending
<1>4. PICK d : d = gen[job[j].gen].data.lineage
  OBVIOUS
<1>5. StoreLineage'
  BY <1>2, <1>3, <1>4, OneJobLineage
<1> QED BY <1>1, <1>5

\* A transaction that touches neither jobs nor generations.
LEMMA StillLineage ==
    ASSUME StoreLineage, UNCHANGED <<gen, job>>
    PROVE  StoreLineage' /\ \A i \in Jobs : job'[i].plan = job[i].plan
  BY DEF StoreLineage, GenerationsOwned, LineageParsed, NothingPending

\* A thread takes its next step, and no plan is made for a job that another
\* thread prepares.
LEMMA PutUnplanned ==
    ASSUME WorkersOK, Unplanned, NEW w \in Workers, NEW row, Put(w, row),
           row.at \in Planning => job'[row.job].plan = {},
           \A v \in Workers \ {w} : worker[v].at \in Planning
              => job'[worker[v].job].plan \in {job[worker[v].job].plan, {}}
    PROVE  Unplanned'
<1>1. worker'[w] = row /\ \A v \in Workers \ {w} : worker'[v] = worker[v]
  BY DEF WorkersOK, Put
<1> QED BY <1>1 DEF Unplanned

\* Rows that are deleted: no generation loses its lineage unless its row goes,
\* and with it the name in the job.
LEMMA DeletionLineage ==
    ASSUME StoreLineage,
           \A g \in Gens : gen'[g] = gen[g] \/ gen'[g].status = "absent",
           \A i \in Jobs : job'[i].gen \in Gens =>
              /\ job'[i].gen = job[i].gen /\ job'[i].plan = job[i].plan
              /\ job'[i].work = job[i].work
              /\ gen'[job[i].gen] = gen[job[i].gen]
    PROVE  StoreLineage'
<1>1. GenerationsOwned'
  BY DEF StoreLineage, GenerationsOwned
<1>2. LineageParsed'
  BY DEF StoreLineage, LineageParsed
<1>3. NothingPending'
  BY DEF StoreLineage, NothingPending
<1> QED BY <1>1, <1>2, <1>3 DEF StoreLineage

\* The plans stay, or go with their jobs.
PlansStay == \A i \in Jobs : job'[i].plan \in {job[i].plan, {}}

\* The transactions of a job that neither plans nor parses nor publishes.
LEMMA StageLineage ==
    ASSUME JobsInvariant, StoreLineage, NEW j \in Jobs,
           NEW o \in Owners, NEW now \in Time,
           \/ finish_parse(j, o, now) \/ link_generation(j, o, now)
           \/ derive_template_candidates(j, o, now)
           \/ finalize_synthesis_catalog(j, o, now)
           \/ validate_generation_for_publication(j, o, now)
           \/ request_cancel(j, o, now) \/ complete_job(j, o, now)
           \/ checkpoint_plan(j, o, "parse", now)
    PROVE  StoreLineage' /\ PlansStay
<1>1. TypeOK /\ LeaseConsistent
  BY DEF JobsInvariant
<1>2. Active(j)
  BY DEF finish_parse, link_generation, derive_template_candidates,
     finalize_synthesis_catalog, validate_generation_for_publication,
     request_cancel, complete_job, checkpoint_plan, Build, OwnsStage,
     HoldsLease, Active, ActiveStates
<1>3. job[j].gen \in Gens /\ job[j] \in JobRow /\ gen[job[j].gen] \in GenRow
  BY <1>1, <1>2 DEF LeaseConsistent, GenStatus, TypeOK
<1>4. /\ job' = [job EXCEPT ![j] = job'[j]] /\ job'[j].gen = job[j].gen
      /\ job'[j].plan = job[j].plan /\ job'[j].work = job[j].work
  <2>1. CASE finish_parse(j, o, now)
    BY <1>1, <1>3, <2>1 DEF finish_parse, TypeOK, JobRow
  <2>2. CASE request_cancel(j, o, now)
    BY <1>1, <1>3, <2>2 DEF request_cancel, TypeOK, JobRow
  <2>3. CASE complete_job(j, o, now)
    BY <1>1, <1>3, <2>3 DEF complete_job, TypeOK, JobRow
  <2>4. CASE checkpoint_plan(j, o, "parse", now)
    BY <1>1, <1>3, <2>4 DEF checkpoint_plan, TypeOK, JobRow
  <2>5. CASE validate_generation_for_publication(j, o, now)
    BY <1>1, <1>3, <2>5 DEF validate_generation_for_publication, TypeOK, JobRow
  <2>6. \A stage, next, product : Build(j, o, stage, next, product, now) =>
          /\ job' = [job EXCEPT ![j] = job'[j]] /\ job'[j].gen = job[j].gen
          /\ job'[j].plan = job[j].plan /\ job'[j].work = job[j].work
    BY <1>1, <1>3 DEF Build, TypeOK, JobRow
  <2> QED BY <2>1, <2>2, <2>3, <2>4, <2>5, <2>6
             DEF link_generation, derive_template_candidates,
             finalize_synthesis_catalog
<1>5. CASE gen' = gen
  BY <1>1, <1>3, <1>4, <1>5, JobMovesOn DEF PlansStay
<1>6. ASSUME NEW stage, NEW next, NEW product,
             Build(j, o, stage, next, product, now)
      PROVE  StoreLineage' /\ PlansStay
  <2> DEFINE d == [gen[job[j].gen].data EXCEPT
                     !.built = gen[job[j].gen].data.built \cup {product}]
  <2>1. gen' = [gen EXCEPT ![job[j].gen].data = d]
    BY <1>6 DEF Build
  <2>2. d.lineage = gen[job[j].gen].data.lineage
    BY <1>3 DEF GenRow, Seals
  <2> HIDE DEF d
  <2>3. \A h \in Gens : gen'[h].data.lineage = gen[h].data.lineage
                          /\ gen'[h].status = gen[h].status
    BY <1>1, <1>3, <2>1, <2>2 DEF TypeOK, GenRow
  <2> QED BY <1>1, <1>3, <1>4, <2>3, JobMovesOn DEF PlansStay
<1> QED BY <1>5, <1>6 DEF finish_parse, link_generation,
           derive_template_candidates, finalize_synthesis_catalog,
           validate_generation_for_publication, request_cancel, complete_job,
           checkpoint_plan

\* parse_item: the unit leaves the work as its lineage enters.
LEMMA ParseLineage ==
    ASSUME JobsInvariant, StoreLineage, NEW j \in Jobs, NEW o \in Owners,
           NEW u \in Units, parse_item(j, o, u)
    PROVE  StoreLineage' /\ PlansStay
<1> DEFINE g == job[j].gen
           x == [job[j] EXCEPT !.work = job[j].work \ {u}]
           d == gen[g].data.lineage \cup {u}
<1>1. TypeOK
  BY DEF JobsInvariant
<1>2. g \in Gens /\ gen[g].status = "staging" /\ job[j] \in JobRow
  BY <1>1 DEF parse_item, ActiveJobScope, GenStatus, TypeOK
<1>3. x.gen = g /\ x.plan = job[j].plan /\ x.work = job[j].work \ {u}
  BY <1>2 DEF JobRow
<1>4. job' = [job EXCEPT ![j] = x]
  BY DEF parse_item
<1>5. /\ gen'[g].data.lineage = d /\ gen'[g].status = "staging"
      /\ \A h \in Gens \ {g} : gen'[h] = gen[h]
  BY <1>1, <1>2 DEF parse_item, TypeOK, GenRow
<1>6. job[j].plan \ job[j].work \subseteq gen[g].data.lineage
  BY <1>2 DEF StoreLineage, LineageParsed
<1>7. \A i \in Jobs : job'[i].plan = job[i].plan
  BY <1>1, <1>3, <1>4 DEF TypeOK
<1>8. PICK e : e = d
  OBVIOUS
<1> HIDE DEF x
<1>9. x.plan \ x.work \subseteq e
  BY <1>3, <1>6, <1>8
<1>10. /\ gen'[g].data.lineage = e /\ gen'[g].status # "ready"
       /\ \A h \in Gens :
             /\ h = g \/ gen'[h].data.lineage = gen[h].data.lineage
             /\ gen'[h].status = "absent" => gen[h].status = "absent"
             /\ gen'[h].status = "ready" => h = g \/ gen[h].status = "ready"
  BY <1>5, <1>8
<1> HIDE DEF d
<1> QED BY <1>1, <1>2, <1>3, <1>4, <1>7, <1>9, <1>10, OneJobLineage DEF PlansStay

\* publish_generation: nothing is left to parse at its stage.
LEMMA PublishLineage ==
    ASSUME JobsInvariant, ContentOK, StoreLineage, NEW j \in Jobs,
           NEW o \in Owners, NEW now \in Time, publish_generation(j, o, now)
    PROVE  StoreLineage' /\ PlansStay
<1> DEFINE g == job[j].gen
           x == [job[j] EXCEPT !.stage = "cleanup", !.updated = now]
<1>1. TypeOK
  BY DEF JobsInvariant
<1>2. /\ g \in Gens /\ gen[g].status = "staging" /\ job[j] \in JobRow
      /\ Active(j) /\ job[j].stage = "publish"
  BY <1>1 DEF publish_generation, OwnsStage, HoldsLease, GenStatus, TypeOK,
     Active, ActiveStates
<1>3. x.gen = g /\ x.plan = job[j].plan /\ x.work = job[j].work
  BY <1>2 DEF JobRow
<1>4. job' = [job EXCEPT ![j] = x]
  BY DEF publish_generation
<1>5. \A h \in Gens :
        /\ gen'[h].data.lineage = gen[h].data.lineage
        /\ gen'[h].status = "absent" => gen[h].status = "absent"
        /\ gen'[h].status = "ready" => h = g \/ gen[h].status = "ready"
  <2> SUFFICES ASSUME NEW h \in Gens
               PROVE  /\ gen'[h].data.lineage = gen[h].data.lineage
                      /\ gen'[h].status = "absent" => gen[h].status = "absent"
                      /\ gen'[h].status = "ready" => h = g \/ gen[h].status = "ready"
    OBVIOUS
  <2>1. gen[h] \in GenRow
    BY <1>1 DEF TypeOK
  <2>2. gen'[h] = CASE h = job[j].gen -> [gen[h] EXCEPT !.status = "ready"]
                    [] h = repo.ready -> [gen[h] EXCEPT !.status = "superseded"]
                    [] OTHER          -> gen[h]
    BY DEF publish_generation
  <2> QED BY <2>1, <2>2 DEF GenRow
<1>6. job[j].work = {}
  BY <1>2 DEF ContentOK, Holds
<1>7. job[j].plan \ job[j].work \subseteq gen[g].data.lineage
  BY <1>2 DEF StoreLineage, LineageParsed
<1>8. \A i \in Jobs : job'[i].plan = job[i].plan
  BY <1>1, <1>3, <1>4 DEF TypeOK
<1>9. PICK e : e = gen[g].data.lineage
  OBVIOUS
<1> HIDE DEF x
<1>10. x.plan \ x.work \subseteq e /\ x.work = {}
  BY <1>3, <1>6, <1>7, <1>9
<1> QED BY <1>1, <1>2, <1>3, <1>4, <1>5, <1>8, <1>9, <1>10, OneJobLineage DEF PlansStay

\* acknowledge_cancel: the generation is cancelled, or stays ready.
LEMMA CancelLineage ==
    ASSUME JobsInvariant, StoreLineage, NEW j \in Jobs, NEW o \in Owners,
           NEW now \in Time, acknowledge_cancel(j, o, now)
    PROVE  StoreLineage' /\ PlansStay
<1> DEFINE x == [job[j] EXCEPT !.state = "cancelled", !.stage = "idle",
                               !.updated = now]
<1>1. TypeOK /\ job[j] \in JobRow
  BY DEF JobsInvariant, TypeOK
<1>2. job[j].gen \in Gens
  BY DEF acknowledge_cancel, finish_job, update_staging_generation, GenStatus
<1>3. job' = [job EXCEPT ![j] = x]
  BY DEF acknowledge_cancel, finish_job
<1>4. x.gen = job[j].gen /\ x.plan = job[j].plan /\ x.work = job[j].work
  BY <1>1 DEF JobRow
<1>5. \A h \in Gens : gen'[h].data = gen[h].data
                        /\ gen'[h].status \in {gen[h].status, "cancelled"}
  BY <1>1, FinishEffect DEF acknowledge_cancel, finish_job
<1> HIDE DEF x
<1> QED BY <1>1, <1>2, <1>3, <1>4, <1>5, JobMovesOn DEF PlansStay

\* cleanup_generations: a job forgets the generation that is deleted.
LEMMA CleanupLineage ==
    ASSUME JobsInvariant, StoreLineage, NEW j \in Jobs, NEW o \in Owners,
           NEW retain \in 0 .. CleanupBatch, NEW kept \in SUBSET Gens,
           NEW batch \in SUBSET Gens, NEW now \in Time,
           cleanup_generations(j, o, retain, kept, batch, now)
    PROVE  StoreLineage' /\ PlansStay
<1>1. TypeOK
  BY DEF JobsInvariant
<1>2. \A i \in Jobs : /\ job'[i].plan = job[i].plan /\ job'[i].work = job[i].work
                      /\ job'[i].gen = IF job[i].gen \in batch THEN NoGen
                                                               ELSE job[i].gen
  BY <1>1 DEF cleanup_generations, TypeOK, JobRow
<1>3. \A g \in Gens : gen'[g] = IF g \in batch THEN NoGeneration ELSE gen[g]
  BY DEF cleanup_generations
<1>4. NoGen \notin Gens /\ NoGeneration.status = "absent"
  BY JobsAssumption DEF NoGeneration
<1>5. \A i \in Jobs : job'[i].gen \in Gens =>
              /\ job'[i].gen = job[i].gen /\ job'[i].plan = job[i].plan
              /\ job'[i].work = job[i].work
              /\ gen'[job[i].gen] = gen[job[i].gen]
  BY <1>2, <1>3, <1>4
<1>6. StoreLineage'
  BY <1>3, <1>4, <1>5, DeletionLineage
<1> QED BY <1>2, <1>6 DEF PlansStay

\* continue, cancel and cleanup, and the ends of every command.
LEMMA ContinueLineage ==
    ASSUME RefreshInvariant, ContentOK, PublishedFresh, LineageInvariant,
           NEW w \in Workers,
           \/ continue_refresh(w) \/ cancel_refresh(w) \/ run_cleanup(w)
           \/ Refuse(w) \/ Answer(w) \/ auto_continue(w) \/ click_index(w)
           \/ click_cancel(w) \/ click_cleanup(w)
    PROVE  LineageInvariant'
<1> USE Parameters
<1> DEFINE j == worker[w].job
<1>1. JobsInvariant /\ WorkersOK /\ RowOK(worker[w]) /\ StoreLineage /\ Unplanned
  BY DEF RefreshInvariant, WorkersOK, LineageInvariant
<1>2. PICK row : Put(w, row) /\ row.at \notin Preparing
  BY CommandProceeds DEF Proceeds
<1>3. ASSUME StoreLineage', PlansStay
      PROVE  LineageInvariant'
  <2>1. \A v \in Workers : worker[v].at \in Planning => worker[v].job \in Jobs
    BY <1>1 DEF WorkersOK, RowOK, WithJob, Planning
  <2>2. Unplanned'
    BY <1>1, <1>2, <1>3, <2>1, PutUnplanned DEF Planning, PlansStay
  <2> QED BY <1>3, <2>2 DEF LineageInvariant
<1>4. CASE StoreUnchanged
  BY <1>1, <1>3, <1>4, StillLineage DEF StoreUnchanged, PlansStay
<1>5. CASE continue_cancelling(w) \/ cancel_acknowledge(w)
  <2>1. j \in Jobs /\ acknowledge_cancel(j, Owner, 0)
    BY <1>1, <1>5 DEF continue_cancelling, cancel_acknowledge, RowOK, WithJob
  <2> QED BY <1>1, <1>3, <2>1, CancelLineage
<1>6. CASE continue_parse_item(w)
  <2>1. j \in Jobs /\ \E u \in Units : parse_item(j, Owner, u)
    BY <1>1, <1>6 DEF continue_parse_item, RowOK, WithJob, WorkerRow
  <2> QED BY <1>1, <1>3, <2>1, ParseLineage
<1>7. CASE continue_parse_end(w) \/ cancel_request(w)
  <2>1. j \in Jobs
    BY <1>1, <1>7 DEF continue_parse_end, cancel_request, RowOK, WithJob
  <2>2. finish_parse(j, Owner, 0) \/ request_cancel(j, Owner, 0) \/ StoreUnchanged
    BY <1>7 DEF continue_parse_end, cancel_request
  <2> QED BY <1>1, <1>3, <1>4, <2>1, <2>2, StageLineage
<1>8. CASE continue_stage(w)
  <2>1. PICK stage \in Stages : At(w, stage) /\ StageTransaction(stage, j)
    BY <1>8 DEF continue_stage
  <2>2. j \in Jobs
    BY <1>1, <2>1 DEF At, RowOK, WithJob
  <2> QED BY <1>1, <1>3, <2>1, <2>2, StageLineage, PublishLineage
          DEF StageTransaction
<1>9. CASE run_cleanup(w)
  <2>1. j \in Jobs /\ 1 \in 0 .. CleanupBatch
    BY <1>1, <1>9, RefreshAssumption, JobsAssumption
       DEF run_cleanup, RowOK, WithJob
  <2>2. \E kept \in SUBSET Gens, batch \in SUBSET Gens :
           cleanup_generations(j, Owner, 1, kept, batch, 0)
    BY <1>9 DEF run_cleanup
  <2> QED BY <1>1, <1>3, <2>1, <2>2, CleanupLineage
<1>10. CASE continue_load(w) \/ continue_parse(w) \/ continue_break(w)
              \/ continue_retry(w) \/ continue_derived(w) \/ cancel_load(w)
  BY <1>4, <1>10 DEF continue_load, continue_parse, continue_break,
     continue_retry, continue_derived, cancel_load
<1>11. CASE \/ lifecycle_result(w, "status", "answer")
            \/ lifecycle_result(w, "state", "cancelled") \/ Refuse(w)
  BY <1>4, <1>11 DEF lifecycle_result, Refuse
<1>12. CASE Answer(w)
  BY <1>4, <1>12 DEF Answer, continue_answered, continue_failed, start_answered,
     cancel_answered, action_ended, answer_dropped, PanelOnly
<1>13. CASE auto_continue(w) \/ click_index(w) \/ click_cancel(w) \/ click_cleanup(w)
  BY <1>4, <1>13 DEF auto_continue, click_index, click_cancel, click_cleanup,
     PanelOnly
<1> QED
  BY <1>5, <1>6, <1>7, <1>8, <1>9, <1>10, <1>11, <1>12, <1>13
     DEF continue_refresh, cancel_refresh

\* start_job: no job names the new generation yet, and nothing is planned.
LEMMA StartLineage ==
    ASSUME TypeOK, StoreLineage, NEW j \in Jobs, NEW g \in Gens,
           NEW o \in Owners, NEW r \in Revisions, NEW now \in Time,
           start_job(j, g, o, r, now)
    PROVE  StoreLineage' /\ PlansStay /\ job'[j].plan = {}
<1>1. /\ job'[j].plan = {} /\ job'[j].work = {} /\ job'[j].gen = g
      /\ \A i \in Jobs \ {j} : job'[i] = job[i]
      /\ gen'[g].status = "staging"
      /\ \A h \in Gens \ {g} : gen'[h] = gen[h]
  BY DEF start_job, TypeOK, NoJob, NoGeneration
<1>2. gen[g].status = "absent"
  BY DEF start_job
<1>3. \A i \in Jobs : job[i].gen # g
  BY <1>2 DEF StoreLineage, GenerationsOwned
<1>4. GenerationsOwned'
  BY <1>1, <1>3 DEF StoreLineage, GenerationsOwned
<1>5. LineageParsed'
  <2>1. ASSUME NEW i \in Jobs, job'[i].gen \in Gens
        PROVE  job'[i].plan \ job'[i].work \subseteq gen'[job'[i].gen].data.lineage
    <3>1. CASE i = j
      BY <1>1, <3>1
    <3>2. CASE i # j
      BY <1>1, <1>3, <2>1, <3>2 DEF StoreLineage, LineageParsed
    <3> QED BY <3>1, <3>2
  <2> QED BY <2>1 DEF LineageParsed
<1>6. NothingPending'
  BY <1>1, <1>3 DEF StoreLineage, NothingPending
<1>7. PlansStay
  BY <1>1 DEF PlansStay
<1> QED BY <1>1, <1>4, <1>5, <1>6, <1>7 DEF StoreLineage

\* A generation of a job without a plan takes any content.
LEMMA ContentLineage ==
    ASSUME TypeOK, StoreLineage, NEW j \in Jobs, NEW d, job[j].gen \in Gens,
           job[j].plan = {}, gen' = [gen EXCEPT ![job[j].gen].data = d],
           UNCHANGED job
    PROVE  StoreLineage' /\ PlansStay
<1>1. /\ \A h \in Gens : gen'[h].status = gen[h].status
      /\ \A h \in Gens \ {job[j].gen} : gen'[h] = gen[h]
  BY DEF TypeOK, GenRow
<1>2. \A i \in Jobs \ {j} : job[i].gen # job[j].gen
  BY DEF StoreLineage, GenerationsOwned
<1>3. GenerationsOwned'
  BY <1>1 DEF StoreLineage, GenerationsOwned
<1>4. LineageParsed'
  BY <1>1, <1>2 DEF StoreLineage, LineageParsed
<1>5. NothingPending'
  BY <1>1 DEF StoreLineage, NothingPending
<1> QED BY <1>3, <1>4, <1>5 DEF StoreLineage, PlansStay

\* run_refresh: the manifest and the clone are written before the plan, and the
\* plan only once.
LEMMA RefreshLineage ==
    ASSUME RefreshInvariant, PreparationOK, LineageInvariant, NEW w \in Workers,
           run_refresh(w)
    PROVE  LineageInvariant'
<1> USE Parameters
<1> DEFINE j == worker[w].job
           g == worker[w].gen
<1>1. /\ JobsInvariant /\ TypeOK /\ WorkersOK /\ RowOK(worker[w])
      /\ worker[w] \in WorkerRow /\ StoreLineage /\ Unplanned
  BY DEF RefreshInvariant, JobsInvariant, WorkersOK, LineageInvariant
<1>2. worker[w].at \in Preparing => j \in Jobs /\ g \in Gens
  BY <1>1 DEF RowOK, WithJob
<1>3. worker[w].at \in Planning => j \in Jobs /\ g \in Gens /\ job[j].plan = {}
  BY <1>1, <1>2 DEF Planning, Unplanned
<1>4. \A v \in Workers : worker[v].at \in Planning => worker[v].job \in Jobs
  BY <1>1 DEF WorkersOK, RowOK, WithJob, Planning
<1>5. ASSUME NEW row, Put(w, row), StoreLineage', PlansStay,
             row.at \in Planning => worker[w].at \in Planning /\ row.job = j
      PROVE  LineageInvariant'
  <2>1. row.at \in Planning => job'[row.job].plan = {}
    BY <1>3, <1>5 DEF PlansStay
  <2>2. Unplanned'
    BY <1>1, <1>4, <1>5, <2>1, PutUnplanned DEF PlansStay
  <2> QED BY <1>5, <2>2 DEF LineageInvariant
<1>6. ASSUME NEW step, Goto(w, step), StoreLineage', PlansStay,
             step \in Planning => worker[w].at \in Planning
      PROVE  LineageInvariant'
  <2> DEFINE row == [worker[w] EXCEPT !.at = step]
  <2>1. row.at = step /\ row.job = j /\ Put(w, row)
    BY <1>1, <1>6 DEF WorkerRow, Goto
  <2> HIDE DEF row
  <2> QED BY <1>5, <1>6, <2>1
<1>7. ASSUME UNCHANGED <<gen, job>>
      PROVE  StoreLineage' /\ PlansStay
  BY <1>1, <1>7, StillLineage DEF PlansStay
<1>8. CASE refresh_head(w) \/ refresh_reuse(w)
  <2>1. [Idle EXCEPT !.at = "started"].at \notin Planning
    BY DEF Idle, Preparing, Planning
  <2>2. [worker[w] EXCEPT !.at = "register", !.rev = head].at \notin Planning
    BY <1>1 DEF WorkerRow, Preparing, Planning
  <2>3. UNCHANGED <<gen, job>>
    BY <1>8 DEF refresh_head, refresh_reuse, StoreUnchanged
  <2> QED BY <1>5, <1>7, <1>8, <2>1, <2>2, <2>3 DEF refresh_head, refresh_reuse
<1>9. CASE refresh_register(w)
  <2>1. UNCHANGED <<gen, job>> /\ Goto(w, "start")
    BY <1>9 DEF refresh_register, register_inventory
  <2> QED BY <1>6, <1>7, <2>1 DEF Preparing, Planning
<1>10. CASE refresh_inputs(w)
  <2>1. UNCHANGED <<gen, job>> /\ Goto(w, "plan") /\ worker[w].at = "inputs"
    BY <1>10 DEF refresh_inputs, StoreUnchanged
  <2> QED BY <1>6, <1>7, <2>1 DEF Preparing, Planning
<1>11. CASE refresh_plan(w)
  <2> DEFINE next == IF repo.ready # NoGen /\ Changed(worker[w].rev) = {}
                     THEN "noop" ELSE "clone"
             units == Invalidated(worker[w].rev)
             row == [worker[w] EXCEPT !.at = next, !.units = units]
  <2>1. Put(w, row) /\ UNCHANGED <<gen, job>> /\ worker[w].at = "plan"
    BY <1>11 DEF refresh_plan, StoreUnchanged
  <2> HIDE DEF next, units
  <2>2. row.job = j
    BY <1>1 DEF WorkerRow
  <2> HIDE DEF row
  <2> QED BY <1>5, <1>7, <2>1, <2>2 DEF Preparing, Planning
<1>12. CASE refresh_start(w)
  <2>1. PICK i \in FreshJobs, h \in FreshGens :
           /\ start_job(i, h, Owner, worker[w].rev, 0)
           /\ Put(w, [worker[w] EXCEPT !.at = "manifest", !.job = i, !.gen = h])
    BY <1>12 DEF refresh_start
  <2>2. i \in Jobs /\ h \in Gens /\ worker[w].rev \in Revisions
    BY <1>1, <1>12 DEF refresh_start, RowOK, FreshJobs, FreshGens
  <2>3. StoreLineage' /\ PlansStay /\ job'[i].plan = {}
    BY <1>1, <2>1, <2>2, StartLineage
  <2> DEFINE row == [worker[w] EXCEPT !.at = "manifest", !.job = i, !.gen = h]
  <2>4. row.job = i /\ Put(w, row)
    BY <1>1, <2>1 DEF WorkerRow
  <2> HIDE DEF row
  <2>5. Unplanned'
    BY <1>1, <1>4, <2>3, <2>4, PutUnplanned DEF PlansStay
  <2> QED BY <2>3, <2>5 DEF LineageInvariant
<1>13. CASE refresh_manifest(w)
  <2>1. persist_manifest(j, Owner) /\ Goto(w, "inputs") /\ worker[w].at = "manifest"
    BY <1>13 DEF refresh_manifest
  <2>2. j \in Jobs /\ job[j].plan = {}
    BY <1>3, <2>1 DEF Preparing, Planning
  <2>3. /\ job[j].gen \in Gens /\ UNCHANGED job
        /\ gen' = [gen EXCEPT ![job[j].gen].data =
                                 [EmptyData EXCEPT !.built = {"manifest"}]]
    BY <2>1 DEF persist_manifest
  <2>4. StoreLineage' /\ PlansStay
    BY <1>1, <2>2, <2>3, ContentLineage
  <2> QED BY <1>6, <2>1, <2>4 DEF Preparing, Planning
<1>14. CASE refresh_noop(w)
  <2>1. remove_noop(j, Owner) /\ worker[w].at = "noop"
          /\ Put(w, [Idle EXCEPT !.at = "started"])
    BY <1>14 DEF refresh_noop
  <2>2. [Idle EXCEPT !.at = "started"].at \notin Planning
    BY DEF Idle, Preparing, Planning
  <2>3. j \in Jobs /\ job[j].gen \in Gens
    BY <1>2, <2>1 DEF Preparing, remove_noop, GenStatus
  <2>4. /\ gen'[job[j].gen].status = "absent"
        /\ \A h \in Gens \ {job[j].gen} : gen'[h] = gen[h]
        /\ job'[j].gen = NoGen /\ job'[j].plan = {}
        /\ \A i \in Jobs \ {j} : job'[i] = job[i]
    BY <1>1, <2>1, <2>3 DEF remove_noop, TypeOK, NoGeneration, NoJob
  <2>5. NoGen \notin Gens
    BY JobsAssumption
  <2>6. \A i \in Jobs \ {j} : job[i].gen # job[j].gen
    BY <1>1, <2>3 DEF StoreLineage, GenerationsOwned
  <2>7. \A i \in Jobs : job'[i].gen \in Gens =>
              /\ job'[i].gen = job[i].gen /\ job'[i].plan = job[i].plan
              /\ job'[i].work = job[i].work
              /\ gen'[job[i].gen] = gen[job[i].gen]
    BY <2>4, <2>5, <2>6
  <2>8. StoreLineage' /\ PlansStay
    BY <1>1, <2>3, <2>4, <2>7, DeletionLineage DEF PlansStay
  <2> QED BY <1>5, <2>1, <2>2, <2>8
<1>15. CASE refresh_clone(w)
  <2>1. Goto(w, "work") /\ worker[w].at = "clone"
    BY <1>15 DEF refresh_clone
  <2>2. CASE StoreUnchanged
    BY <1>6, <1>7, <2>1, <2>2 DEF StoreUnchanged, Preparing, Planning
  <2>3. CASE clone_unaffected_ready_facts(g, repo.ready, Units \ worker[w].units)
    <3> DEFINE d == [gen[g].data EXCEPT
                       !.parsed = Units \ worker[w].units,
                       !.lineage = gen[g].data.lineage \ (Units \ worker[w].units)]
    <3>1. /\ gen[g].status = "staging" /\ UNCHANGED job
          /\ gen' = [gen EXCEPT ![g].data = d]
      BY <2>3 DEF clone_unaffected_ready_facts
    <3>2. j \in Jobs /\ g \in Gens /\ job[j].plan = {}
      BY <1>3, <2>1 DEF Preparing, Planning
    <3>3. job[j].gen = g
      BY <2>1, <3>1 DEF PreparationOK, Prepares, Preparing
    <3> HIDE DEF d
    <3>4. StoreLineage' /\ PlansStay
      BY <1>1, <3>1, <3>2, <3>3, ContentLineage
    <3> QED BY <1>6, <2>1, <3>4 DEF Preparing, Planning
  <2> QED BY <1>15, <2>2, <2>3 DEF refresh_clone
<1>16. CASE refresh_work(w)
  <2> DEFINE x == [job[j] EXCEPT !.plan = worker[w].units,
                     !.work = IF job[j].plan = {} THEN worker[w].units
                                                  ELSE job[j].work]
  <2>1. persist_refresh_work_plan(j, Owner, worker[w].units)
          /\ Goto(w, "checkpoint") /\ worker[w].at = "work"
    BY <1>16 DEF refresh_work
  <2>2. j \in Jobs /\ job[j].plan = {} /\ job[j] \in JobRow
    BY <1>1, <1>3, <2>1 DEF Preparing, Planning, TypeOK
  <2>3. /\ job[j].gen \in Gens /\ gen[job[j].gen].status = "staging"
        /\ UNCHANGED gen /\ job' = [job EXCEPT ![j] = x]
    BY <2>1 DEF persist_refresh_work_plan, ActiveJobScope, GenStatus
  <2>4. x.gen = job[j].gen /\ x.plan = worker[w].units /\ x.work = worker[w].units
    BY <2>2 DEF JobRow
  <2> HIDE DEF x
  <2>5. PICK d : d = gen[job[j].gen].data.lineage
    OBVIOUS
  <2>6. x.plan \ x.work \subseteq d
    BY <2>4
  <2>7. StoreLineage'
    BY <1>1, <2>2, <2>3, <2>4, <2>5, <2>6, OneJobLineage
  <2>8. \A i \in Jobs \ {j} : job'[i] = job[i]
    BY <2>3
  <2> DEFINE row == [worker[w] EXCEPT !.at = "checkpoint"]
  <2>9. Put(w, row) /\ row.at \notin Planning
    BY <1>1, <2>1 DEF Goto, WorkerRow, Planning
  <2>10. \A v \in Workers \ {w} : worker[v].at \in Planning => worker[v].job # j
    BY <2>1 DEF PreparationOK, Preparing, Planning
  <2> HIDE DEF row
  <2>11. Unplanned'
    BY <1>1, <1>4, <2>8, <2>9, <2>10, PutUnplanned
  <2> QED BY <2>7, <2>11 DEF LineageInvariant
<1>17. CASE refresh_checkpoint(w)
  <2> DEFINE row == [Idle EXCEPT !.at = "started", !.job = j]
  <2>1. checkpoint_plan(j, Owner, "parse", 0) /\ Put(w, row)
          /\ worker[w].at = "checkpoint"
    BY <1>17 DEF refresh_checkpoint
  <2>2. row.at \notin Planning
    BY DEF Idle, Preparing, Planning
  <2>3. j \in Jobs
    BY <1>2, <2>1 DEF Preparing
  <2>4. StoreLineage' /\ PlansStay
    BY <1>1, <2>1, <2>3, StageLineage
  <2> HIDE DEF row
  <2> QED BY <1>5, <2>1, <2>2, <2>4
<1> QED
  BY <1>8, <1>9, <1>10, <1>11, <1>12, <1>13, <1>14, <1>15, <1>16, <1>17
     DEF run_refresh

\* Every step of the desktop keeps the lineage of what its jobs parsed.
LEMMA LineageStep ==
    ASSUME StagesInvariant, LineageInvariant, [RefreshNext]_refreshVars
    PROVE  LineageInvariant'
<1>1. ASSUME NEW w \in Workers, Command(w) \/ refused(w) \/ command_fails(w)
                \/ Answer(w) \/ auto_continue(w) \/ click_index(w)
                \/ click_cancel(w) \/ click_cleanup(w)
      PROVE  LineageInvariant'
  <2>1. refused(w) \/ command_fails(w) => Refuse(w)
    BY DEF refused, command_fails
  <2> QED BY <1>1, <2>1, RefreshLineage, ContinueLineage
          DEF Command, StagesInvariant
<1>2. CASE move_head \/ mounted_status \/ remount \/ UNCHANGED refreshVars
  <2>1. UNCHANGED <<gen, job, worker>>
    BY <1>2 DEF move_head, mounted_status, remount, refreshVars, PanelOnly,
         StoreUnchanged
  <2> QED BY <2>1, StillLineage DEF LineageInvariant, Unplanned
<1>3. CASE crash
  <2>1. UNCHANGED <<gen, job>> /\ worker' = [w \in Workers |-> Idle]
    BY <1>3 DEF crash, StoreUnchanged
  <2>2. \A w \in Workers : worker'[w].at \notin Planning
    BY <2>1 DEF Idle, Preparing, Planning
  <2> QED BY <2>1, <2>2, StillLineage DEF LineageInvariant, Unplanned
<1> QED BY <1>1, <1>2, <1>3 DEF RefreshNext

\* The first plan of a repository is made without any generation.
LEMMA LineageInit == RefreshInit => LineageInvariant
<1> SUFFICES ASSUME RefreshInit PROVE LineageInvariant
  OBVIOUS
<1>1. \A j \in Jobs : job[j].gen \notin Gens
  BY JobsAssumption DEF RefreshInit, Init, NoJob
<1>2. \A w \in Workers : worker[w].at \notin Planning
  BY DEF RefreshInit, Idle, Planning, Preparing
<1> QED BY <1>1, <1>2 DEF LineageInvariant, StoreLineage, GenerationsOwned,
           LineageParsed, NothingPending, Unplanned

\* It holds whatever the threads, the user and the faults do.
LEMMA LineageHolds == RefreshSpec => []LineageInvariant
  BY LineageInit, LineageStep, StagesHold, PTL DEF RefreshSpec

----------------------------------------------------------------------------
(* The theorems.                                                           *)

\* The rows, what the threads hold and the state of the panel are well typed.
THEOREM RefreshTypeCorrect == RefreshSpec => []RefreshTypeOK
<1>1. StagesInvariant => RefreshTypeOK
  BY DEF StagesInvariant, RefreshInvariant, JobsInvariant, WorkersOK, PanelOK,
         RefreshTypeOK
<1> QED BY <1>1, StagesHold, PTL

\* A job that left a stage holds what the stage produces, however many
\* commands overlap, fail or are cut off by a crash.
THEOREM StagesComplete == RefreshSpec => []StageOutput
<1>1. StagesInvariant => StageOutput
  BY DEF StagesInvariant, ContentOK, Holds, StageOutput
<1> QED BY <1>1, StagesHold, PTL

\* What readers see was built by every stage, and no facts were written after
\* the linker had read them.
THEOREM PublishedComplete == RefreshSpec => []PublishedFresh
<1>1. StagesInvariant => PublishedFresh
  BY DEF StagesInvariant
<1> QED BY <1>1, StagesHold, PTL

\* The desktop keeps the promise of the catalog to its readers.
THEOREM RefreshImplementsCatalog == RefreshSpec => ImplementsCatalog
  BY RefreshImplementsJobs, JobsImplementCatalog, PTL
=============================================================================
