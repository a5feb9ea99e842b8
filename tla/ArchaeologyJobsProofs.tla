------------------------ MODULE ArchaeologyJobsProofs ------------------------
(***************************************************************************)
(* Proofs about the archaeology job store, for every set of jobs,          *)
(* generations, owners, revisions and units and every time bound.  The     *)
(* inductive invariant is the conjunction of the checked invariants: none  *)
(* of them is inductive alone (a publication keeps the pointer right only  *)
(* if the publisher's generation is staging, which is what LeaseConsistent *)
(* says of an active job).                                                 *)
(***************************************************************************)
EXTENDS ArchaeologyJobs, TLAPS

\* The strings the transactions write are stages, states and products.
LEMMA Names ==
    /\ "inventory" \in Stages /\ "parse" \in Stages /\ "link" \in Stages
    /\ "derive" \in Stages /\ "synthesize" \in Stages /\ "validate" \in Stages
    /\ "publish" \in Stages /\ "cleanup" \in Stages /\ "idle" \in Stages
    /\ "running" \in ActiveStates /\ "paused" \in ActiveStates
    /\ "cancelling" \in ActiveStates
    /\ "completed" \in TerminalStates /\ "failed" \in TerminalStates
    /\ "cancelled" \in TerminalStates
    /\ "manifest" \in Products /\ "link" \in Products
    /\ "derive" \in Products /\ "catalog" \in Products
BY DEF Stages, ActiveStates, TerminalStates, Products

\* Replacing the content of a generation by a well-formed one.
LEMMA DataUpdate ==
    ASSUME TypeOK, NEW g \in Gens, NEW d \in Seals,
           gen' = [gen EXCEPT ![g].data = d]
    PROVE  gen' \in [Gens -> GenRow]
BY DEF TypeOK, GenRow

\* The combinations of columns that one UPDATE writes keep a job row typed.
LEMMA RowUpdates ==
    ASSUME NEW r \in JobRow, NEW s \in ActiveStates \cup TerminalStates,
           NEW t \in Stages, NEW now \in Time, NEW o \in Owners,
           NEW c \in Seals \cup {NoReceipt}
    PROVE  /\ [r EXCEPT !.stage = t, !.updated = now] \in JobRow
           /\ [r EXCEPT !.stage = t, !.updated = now, !.receipt = c] \in JobRow
           /\ [r EXCEPT !.state = s, !.stage = t, !.updated = now] \in JobRow
           /\ [r EXCEPT !.owner = o, !.updated = now, !.state = s] \in JobRow
<1>1. [r EXCEPT !.stage = t, !.updated = now] \in JobRow
  BY DEF JobRow
<1>2. [r EXCEPT !.stage = t, !.updated = now, !.receipt = c] \in JobRow
  BY DEF JobRow
<1>3. [r EXCEPT !.state = s, !.stage = t, !.updated = now] \in JobRow
  BY DEF JobRow
<1>4. [r EXCEPT !.owner = o, !.updated = now, !.state = s] \in JobRow
  BY DEF JobRow
<1> QED BY <1>1, <1>2, <1>3, <1>4

\* Writing one typed row keeps the table typed.
LEMMA JobUpdate ==
    ASSUME TypeOK, NEW j \in Jobs, NEW r \in JobRow,
           job' = [job EXCEPT ![j] = r]
    PROVE  job' \in [Jobs -> JobRow]
BY DEF TypeOK

\* A stage that adds one product and moves on keeps the rows typed.
LEMMA BuildType ==
    ASSUME TypeOK, NEW j \in Jobs, NEW o \in Owners, NEW stage \in Stages,
           NEW next \in Stages, NEW product \in Products, NEW now \in Time,
           Build(j, o, stage, next, product, now)
    PROVE  TypeOK'
<1> DEFINE data == gen[job[j].gen].data
           new == [data EXCEPT !.built = data.built \cup {product}]
<1>1. job[j].gen \in Gens /\ gen' = [gen EXCEPT ![job[j].gen].data = new]
  BY DEF Build, GenStatus
<1>2. data \in Seals
  BY <1>1 DEF TypeOK, GenRow
<1>3. new \in Seals
  BY <1>2 DEF Seals
<1>4. gen' \in [Gens -> GenRow]
  BY <1>1, <1>3, DataUpdate
<1>5. job' \in [Jobs -> JobRow]
  <2> DEFINE r == [job[j] EXCEPT !.stage = next, !.updated = now,
                                 !.receipt = NoReceipt]
  <2>1. job' = [job EXCEPT ![j] = r]
    BY DEF Build
  <2>2. r \in JobRow
    BY Names, RowUpdates DEF TypeOK
  <2> QED BY <2>1, <2>2, JobUpdate
<1> QED BY <1>4, <1>5 DEF Build, TypeOK

\* The rows that stand for "no row" are typed.
LEMMA Blank ==
    EmptyData \in Seals /\ NoGeneration \in GenRow /\ NoJob \in JobRow
BY JobsAssumption, Names
   DEF EmptyData, NoGeneration, NoJob, Seals, GenRow, JobRow, Time

\* What a cleanup leaves alone: the life cycle of every job, and every
\* generation that is ready or held by an active job.
LEMMA CleanupEffect ==
    ASSUME TypeOK, NEW j \in Jobs, NEW o \in Owners,
           NEW retain \in 0 .. CleanupBatch, NEW kept \in SUBSET Gens,
           NEW batch \in SUBSET Gens, NEW now \in Time,
           cleanup_generations(j, o, retain, kept, batch, now)
    PROVE  /\ \A i \in Jobs : /\ job'[i].state = job[i].state
                              /\ job'[i].stage = job[i].stage
                              /\ job'[i].owner = job[i].owner
                              /\ job'[i].cancel = job[i].cancel
                              /\ job[i].state \in ActiveStates
                                   => job'[i].gen = job[i].gen
           /\ \A g \in Gens : gen'[g] = gen[g] \/ gen'[g].status = "absent"
           /\ \A i \in Jobs : job[i].state \in ActiveStates /\ job[i].gen \in Gens
                                 => gen'[job[i].gen] = gen[job[i].gen]
<1>1. batch \subseteq Unreferenced
  BY DEF cleanup_generations, OldestBatch, cleanup_candidates, Superseded,
         OwnedByTerminalJob
<1>2. \A i \in Jobs : job[i].state \in ActiveStates => job[i].gen \notin batch
  BY <1>1 DEF Unreferenced, Active
<1>3. \A i \in Jobs : job'[i] = [job[i] EXCEPT
                 !.gen = IF job[i].gen \in batch THEN NoGen ELSE job[i].gen,
                 !.updated = IF i = j THEN now ELSE job[i].updated]
  BY DEF cleanup_generations
<1>4. \A g \in Gens : gen'[g] = IF g \in batch THEN NoGeneration ELSE gen[g]
  BY DEF cleanup_generations
<1>5. \A i \in Jobs : /\ job'[i].state = job[i].state
                      /\ job'[i].stage = job[i].stage
                      /\ job'[i].owner = job[i].owner
                      /\ job'[i].cancel = job[i].cancel
                      /\ job[i].gen \notin batch => job'[i].gen = job[i].gen
  <2> SUFFICES ASSUME NEW i \in Jobs
               PROVE  /\ job'[i].state = job[i].state
                      /\ job'[i].stage = job[i].stage
                      /\ job'[i].owner = job[i].owner
                      /\ job'[i].cancel = job[i].cancel
                      /\ job[i].gen \notin batch => job'[i].gen = job[i].gen
    OBVIOUS
  <2> DEFINE x == IF job[i].gen \in batch THEN NoGen ELSE job[i].gen
             t == IF i = j THEN now ELSE job[i].updated
  <2>1. job'[i] = [job[i] EXCEPT !.gen = x, !.updated = t]
    BY <1>3
  <2>2. job[i] \in JobRow
    BY DEF TypeOK
  <2>3. job[i].gen \notin batch => x = job[i].gen
    OBVIOUS
  <2> HIDE DEF x, t
  <2>4. /\ job'[i].state = job[i].state /\ job'[i].stage = job[i].stage
        /\ job'[i].owner = job[i].owner /\ job'[i].cancel = job[i].cancel
    BY <2>1, <2>2 DEF JobRow
  <2>5. job'[i].gen = x
    BY <2>1, <2>2 DEF JobRow
  <2> QED BY <2>3, <2>4, <2>5
<1> QED BY <1>2, <1>4, <1>5 DEF NoGeneration


\* Finishing a job changes no content and makes no generation published.
LEMMA FinishEffect ==
    ASSUME TypeOK, NEW j \in Jobs, NEW s \in {"failed", "cancelled"},
           update_staging_generation(j, s)
    PROVE  \A g \in Gens : /\ gen'[g].data = gen[g].data
                           /\ gen'[g].status \in {gen[g].status, s}
<1>1. gen \in [Gens -> GenRow]
  BY DEF TypeOK
<1> QED BY <1>1 DEF update_staging_generation, GenStatus, GenRow

\* Every transaction keeps the rows typed.
LEMMA TypeOKStep ==
    TypeOK /\ [Next]_vars => TypeOK'
<1> SUFFICES ASSUME TypeOK, [Next]_vars
             PROVE  TypeOK'
  OBVIOUS
<1>1. ASSUME NEW r \in Revisions, NEW now \in Time, register_inventory(r, now)
      PROVE  TypeOK'
  BY <1>1, Names, Blank DEF register_inventory, RepoRow, TypeOK
<1>2. ASSUME NEW j \in Jobs, NEW g \in Gens, NEW o \in Owners,
             NEW r \in Revisions, NEW now \in Time, start_job(j, g, o, r, now)
      PROVE  TypeOK'
  BY <1>2, Names, Blank DEF start_job, JobRow, GenRow, NoGeneration, NoJob,
         TypeOK
<1>3. ASSUME NEW j \in Jobs, NEW o \in Owners, persist_manifest(j, o)
      PROVE  TypeOK'
  BY <1>3, Names, Blank DEF persist_manifest, GenRow, EmptyData, Seals, TypeOK
<1>4. ASSUME NEW j \in Jobs, NEW o \in Owners, remove_noop(j, o)
      PROVE  TypeOK'
  BY <1>4, Names, Blank DEF remove_noop, TypeOK
<1>5. ASSUME NEW g \in Gens, NEW ready \in Gens, NEW cloned \in SUBSET Units,
             clone_unaffected_ready_facts(g, ready, cloned)
      PROVE  TypeOK'
  BY <1>5, Names, Blank DEF clone_unaffected_ready_facts, GenRow, Seals, TypeOK
<1>6. ASSUME NEW j \in Jobs, NEW o \in Owners, NEW work \in SUBSET Units,
             persist_refresh_work_plan(j, o, work)
      PROVE  TypeOK'
  BY <1>6, Names, Blank DEF persist_refresh_work_plan, JobRow, TypeOK
<1>7. ASSUME NEW j \in Jobs, NEW o \in Owners, NEW next \in Stages,
             NEW now \in Time, checkpoint_plan(j, o, next, now)
      PROVE  TypeOK'
  BY <1>7, Names, Blank DEF checkpoint_plan, JobRow, TypeOK
<1>8. ASSUME NEW j \in Jobs, NEW o \in Owners, NEW u \in Units,
             parse_item(j, o, u)
      PROVE  TypeOK'
  <2> DEFINE data == gen[job[j].gen].data
             new == [built |-> data.built, parsed |-> data.parsed \cup {u},
                     lineage |-> data.lineage \cup {u},
                     late |-> IF "link" \in data.built
                              THEN data.late \cup {u} ELSE data.late]
  <2>1. job[j].gen \in Gens /\ gen' = [gen EXCEPT ![job[j].gen].data = new]
    BY <1>8 DEF parse_item, ActiveJobScope, GenStatus
  <2>2. data \in Seals
    BY <2>1 DEF TypeOK, GenRow
  <2>3. new \in Seals
    BY <2>2 DEF Seals
  <2>4. gen' \in [Gens -> GenRow]
    BY <2>1, <2>3, DataUpdate
  <2>5. job' \in [Jobs -> JobRow]
    BY <1>8 DEF parse_item, TypeOK, JobRow
  <2>6. repo' \in RepoRow
    BY <1>8 DEF parse_item, TypeOK
  <2> QED BY <2>4, <2>5, <2>6 DEF TypeOK
<1>9. ASSUME NEW j \in Jobs, NEW o \in Owners, NEW now \in Time,
              finish_parse(j, o, now)
       PROVE  TypeOK'
  BY <1>9, Names, Blank DEF finish_parse, JobRow, TypeOK
<1>10. ASSUME NEW j \in Jobs, NEW o \in Owners, NEW now \in Time,
              link_generation(j, o, now)
       PROVE  TypeOK'
  <2>1. Build(j, o, "link", "derive", "link", now)
    BY <1>10 DEF link_generation
  <2> QED BY <2>1, BuildType, Names
<1>11. ASSUME NEW j \in Jobs, NEW o \in Owners, NEW now \in Time,
              derive_template_candidates(j, o, now)
       PROVE  TypeOK'
  <2>1. Build(j, o, "derive", "synthesize", "derive", now)
    BY <1>11 DEF derive_template_candidates
  <2> QED BY <2>1, BuildType, Names
<1>12. ASSUME NEW j \in Jobs, NEW o \in Owners, NEW now \in Time,
              finalize_synthesis_catalog(j, o, now)
       PROVE  TypeOK'
  <2>1. Build(j, o, "synthesize", "validate", "catalog", now)
    BY <1>12 DEF finalize_synthesis_catalog
  <2> QED BY <2>1, BuildType, Names
<1>13. ASSUME NEW j \in Jobs, NEW o \in Owners, NEW now \in Time,
              validate_generation_for_publication(j, o, now)
       PROVE  TypeOK'
  <2>1. gen[job[j].gen].data \in Seals
    BY <1>13 DEF validate_generation_for_publication, GenStatus, TypeOK, GenRow
  <2>2. job' \in [Jobs -> JobRow]
    <3> DEFINE r == [job[j] EXCEPT !.stage = "publish", !.updated = now,
                                   !.receipt = gen[job[j].gen].data]
    <3>1. job' = [job EXCEPT ![j] = r]
      BY <1>13 DEF validate_generation_for_publication
    <3>2. r \in JobRow
      BY <2>1, Names, RowUpdates DEF TypeOK
    <3> QED BY <3>1, <3>2, JobUpdate
  <2> QED BY <1>13, <2>2 DEF validate_generation_for_publication, TypeOK
<1>14. ASSUME NEW j \in Jobs, NEW o \in Owners, NEW now \in Time,
              publish_generation(j, o, now)
       PROVE  TypeOK'
  <2>1. gen' \in [Gens -> GenRow]
    BY <1>14 DEF publish_generation, GenStatus, TypeOK, GenRow
  <2>2. job' \in [Jobs -> JobRow]
    <3> DEFINE r == [job[j] EXCEPT !.stage = "cleanup", !.updated = now]
    <3>1. job' = [job EXCEPT ![j] = r]
      BY <1>14 DEF publish_generation
    <3>2. r \in JobRow
      BY Names, RowUpdates DEF TypeOK
    <3> QED BY <3>1, <3>2, JobUpdate
  <2>3. repo' \in RepoRow
    BY <1>14 DEF publish_generation, GenStatus, TypeOK, RepoRow
  <2> QED BY <2>1, <2>2, <2>3 DEF TypeOK
<1>15. ASSUME NEW j \in Jobs, NEW o \in Owners, NEW next \in Stages,
              NEW now \in Time, checkpoint_job(j, o, next, now)
       PROVE  TypeOK'
  BY <1>15, Names, Blank DEF checkpoint_job, JobRow, TypeOK
<1>16. ASSUME NEW j \in Jobs, NEW o \in Owners, NEW now \in Time,
              heartbeat_job(j, o, now)
       PROVE  TypeOK'
  BY <1>16, Names, Blank DEF heartbeat_job, JobRow, TypeOK
<1>17. ASSUME NEW j \in Jobs, NEW o \in Owners, NEW now \in Time,
              pause_job(j, o, now)
       PROVE  TypeOK'
  BY <1>17, Names, Blank DEF pause_job, JobRow, transition_state, TypeOK
<1>18. ASSUME NEW j \in Jobs, NEW o \in Owners, NEW now \in Time,
              resume_job(j, o, now)
       PROVE  TypeOK'
  BY <1>18, Names, Blank DEF resume_job, JobRow, transition_state, TypeOK
<1>19. ASSUME NEW j \in Jobs, NEW o \in Owners, NEW now \in Time,
              request_cancel(j, o, now)
       PROVE  TypeOK'
  BY <1>19, Names, Blank DEF request_cancel, JobRow, TypeOK
<1>20. ASSUME NEW j \in Jobs, NEW o \in Owners, NEW now \in Time,
              acknowledge_cancel(j, o, now)
       PROVE  TypeOK'
  <2>1. gen' \in [Gens -> GenRow]
    BY <1>20 DEF acknowledge_cancel, finish_job, update_staging_generation,
           GenStatus, TypeOK, GenRow
  <2>2. job' \in [Jobs -> JobRow]
    <3> DEFINE r == [job[j] EXCEPT !.state = "cancelled", !.stage = "idle",
                                   !.updated = now]
    <3>1. job' = [job EXCEPT ![j] = r]
      BY <1>20 DEF acknowledge_cancel, finish_job
    <3>2. r \in JobRow
      BY Names, RowUpdates DEF TypeOK
    <3> QED BY <3>1, <3>2, JobUpdate
  <2>3. repo' \in RepoRow
    BY <1>20 DEF acknowledge_cancel, finish_job, TypeOK
  <2> QED BY <2>1, <2>2, <2>3 DEF TypeOK
<1>21. ASSUME NEW j \in Jobs, NEW o \in Owners, NEW now \in Time,
              fail_job(j, o, now)
       PROVE  TypeOK'
  <2>1. gen' \in [Gens -> GenRow]
    BY <1>21 DEF fail_job, finish_job, update_staging_generation, GenStatus,
           TypeOK, GenRow
  <2>2. job' \in [Jobs -> JobRow]
    <3> DEFINE r == [job[j] EXCEPT !.state = "failed", !.stage = "idle",
                                   !.updated = now]
    <3>1. job' = [job EXCEPT ![j] = r]
      BY <1>21 DEF fail_job, finish_job
    <3>2. r \in JobRow
      BY Names, RowUpdates DEF TypeOK
    <3> QED BY <3>1, <3>2, JobUpdate
  <2>3. repo' \in RepoRow
    BY <1>21 DEF fail_job, finish_job, TypeOK
  <2> QED BY <2>1, <2>2, <2>3 DEF TypeOK
<1>22. ASSUME NEW j \in Jobs, NEW o \in Owners, NEW now \in Time,
              complete_job(j, o, now)
       PROVE  TypeOK'
  BY <1>22, Names, Blank DEF complete_job, JobRow, TypeOK
<1>23. ASSUME NEW j \in Jobs, NEW o \in Owners, NEW staleBefore \in Time,
              NEW now \in Time, recover_stale_job(j, o, staleBefore, now)
       PROVE  TypeOK'
  <2>1. PICK s \in ActiveStates :
           job' = [job EXCEPT ![j] =
                     [@ EXCEPT !.owner = o, !.updated = now, !.state = s]]
    BY <1>23, Names DEF recover_stale_job, Active
  <2>2. job' \in [Jobs -> JobRow]
    <3> DEFINE r == [job[j] EXCEPT !.owner = o, !.updated = now, !.state = s]
    <3>1. job' = [job EXCEPT ![j] = r]
      BY <2>1
    <3>2. r \in JobRow
      BY Names, RowUpdates DEF TypeOK
    <3> QED BY <3>1, <3>2, JobUpdate
  <2> QED BY <1>23, <2>2 DEF recover_stale_job, TypeOK
<1>24. ASSUME NEW j \in Jobs, NEW o \in Owners,
              NEW retain \in 0 .. CleanupBatch, NEW kept \in SUBSET Gens,
              NEW batch \in SUBSET Gens, NEW now \in Time,
              cleanup_generations(j, o, retain, kept, batch, now)
       PROVE  TypeOK'
  <2>1. gen' \in [Gens -> GenRow]
    BY <1>24, Blank DEF cleanup_generations, TypeOK
  <2>2. \A i \in Jobs : job'[i] \in JobRow
    <3> SUFFICES ASSUME NEW i \in Jobs PROVE job'[i] \in JobRow
      OBVIOUS
    <3>1. job[i] \in JobRow /\ job[i].gen \in Gens \cup {NoGen}
      BY DEF TypeOK, JobRow
    <3>2. PICK x \in Gens \cup {NoGen}, t \in Time :
             job'[i] = [job[i] EXCEPT !.gen = x, !.updated = t]
      <4>1. job[i].updated \in Time
        BY <3>1 DEF JobRow
      <4> QED BY <1>24, <3>1, <4>1 DEF cleanup_generations
    <3> QED BY <3>1, <3>2 DEF JobRow
  <2>3. job' \in [Jobs -> JobRow]
    BY <1>24, <2>2 DEF cleanup_generations
  <2> QED BY <1>24, <2>1, <2>3 DEF cleanup_generations, TypeOK
<1>25. CASE UNCHANGED vars
  BY <1>25 DEF TypeOK, vars
<1> QED
  BY <1>1, <1>2, <1>3, <1>4, <1>5, <1>6, <1>7, <1>8, <1>9, <1>10, <1>11,
     <1>12, <1>13, <1>14, <1>15, <1>16, <1>17, <1>18, <1>19, <1>20, <1>21,
     <1>22, <1>23, <1>24, <1>25 DEF Next

\* No transaction separates the cancellation flag from the state.
LEMMA CancellationStep ==
    TypeOK /\ CancellationRecorded /\ [Next]_vars => CancellationRecorded'
<1> SUFFICES ASSUME TypeOK, CancellationRecorded, [Next]_vars
             PROVE  CancellationRecorded'
  OBVIOUS
<1>1. ASSUME NEW r \in Revisions, NEW now \in Time, register_inventory(r, now)
      PROVE  CancellationRecorded'
  BY <1>1, JobsAssumption DEF register_inventory, TypeOK, RepoRow,
         CancellationRecorded
<1>2. ASSUME NEW j \in Jobs, NEW g \in Gens, NEW o \in Owners,
             NEW r \in Revisions, NEW now \in Time, start_job(j, g, o, r, now)
      PROVE  CancellationRecorded'
  BY <1>2, JobsAssumption DEF start_job, NoGeneration, NoJob, EmptyData,
         TypeOK, GenRow, JobRow, CancellationRecorded
<1>3. ASSUME NEW j \in Jobs, NEW o \in Owners, persist_manifest(j, o)
      PROVE  CancellationRecorded'
  BY <1>3, JobsAssumption DEF persist_manifest, HoldsLease, EmptyData, TypeOK,
         GenRow, CancellationRecorded
<1>4. ASSUME NEW j \in Jobs, NEW o \in Owners, remove_noop(j, o)
      PROVE  CancellationRecorded'
  BY <1>4, JobsAssumption DEF remove_noop, HoldsLease, NoGeneration, NoJob,
         EmptyData, TypeOK, GenRow, JobRow, CancellationRecorded
<1>5. ASSUME NEW g \in Gens, NEW ready \in Gens, NEW cloned \in SUBSET Units,
             clone_unaffected_ready_facts(g, ready, cloned)
      PROVE  CancellationRecorded'
  BY <1>5, JobsAssumption DEF clone_unaffected_ready_facts, TypeOK, GenRow,
         CancellationRecorded
<1>6. ASSUME NEW j \in Jobs, NEW o \in Owners, NEW work \in SUBSET Units,
             persist_refresh_work_plan(j, o, work)
      PROVE  CancellationRecorded'
  BY <1>6, JobsAssumption DEF persist_refresh_work_plan, ActiveJobScope,
         HoldsLease, TypeOK, JobRow, CancellationRecorded
<1>7. ASSUME NEW j \in Jobs, NEW o \in Owners, NEW next \in Stages,
             NEW now \in Time, checkpoint_plan(j, o, next, now)
      PROVE  CancellationRecorded'
  BY <1>7, JobsAssumption DEF checkpoint_plan, HoldsLease, TypeOK, JobRow,
         CancellationRecorded
<1>8. ASSUME NEW j \in Jobs, NEW o \in Owners, NEW u \in Units,
             parse_item(j, o, u)
      PROVE  CancellationRecorded'
  BY <1>8, JobsAssumption DEF parse_item, ActiveJobScope, HoldsLease, TypeOK,
         GenRow, JobRow, CancellationRecorded
<1>9. ASSUME NEW j \in Jobs, NEW o \in Owners, NEW now \in Time,
              finish_parse(j, o, now)
       PROVE  CancellationRecorded'
  BY <1>9, JobsAssumption DEF finish_parse, HoldsLease, TypeOK, JobRow,
         CancellationRecorded
<1>10. ASSUME NEW j \in Jobs, NEW o \in Owners, NEW now \in Time,
              link_generation(j, o, now)
       PROVE  CancellationRecorded'
  BY <1>10, JobsAssumption DEF link_generation, Build, OwnsStage, HoldsLease,
         TypeOK, GenRow, JobRow, CancellationRecorded
<1>11. ASSUME NEW j \in Jobs, NEW o \in Owners, NEW now \in Time,
              derive_template_candidates(j, o, now)
       PROVE  CancellationRecorded'
  BY <1>11, JobsAssumption DEF derive_template_candidates, Build, OwnsStage,
         HoldsLease, TypeOK, GenRow, JobRow, CancellationRecorded
<1>12. ASSUME NEW j \in Jobs, NEW o \in Owners, NEW now \in Time,
              finalize_synthesis_catalog(j, o, now)
       PROVE  CancellationRecorded'
  BY <1>12, JobsAssumption DEF finalize_synthesis_catalog, Build, OwnsStage,
         HoldsLease, TypeOK, GenRow, JobRow, CancellationRecorded
<1>13. ASSUME NEW j \in Jobs, NEW o \in Owners, NEW now \in Time,
              validate_generation_for_publication(j, o, now)
       PROVE  CancellationRecorded'
  BY <1>13, JobsAssumption DEF validate_generation_for_publication, OwnsStage,
         HoldsLease, TypeOK, JobRow, CancellationRecorded
<1>14. ASSUME NEW j \in Jobs, NEW o \in Owners, NEW now \in Time,
              publish_generation(j, o, now)
       PROVE  CancellationRecorded'
  BY <1>14, JobsAssumption DEF publish_generation, OwnsStage, HoldsLease,
         TypeOK, GenRow, JobRow, RepoRow, CancellationRecorded
<1>15. ASSUME NEW j \in Jobs, NEW o \in Owners, NEW next \in Stages,
              NEW now \in Time, checkpoint_job(j, o, next, now)
       PROVE  CancellationRecorded'
  BY <1>15, JobsAssumption DEF checkpoint_job, StageProgression, GenericNext,
         TypeOK, JobRow, CancellationRecorded
<1>16. ASSUME NEW j \in Jobs, NEW o \in Owners, NEW now \in Time,
              heartbeat_job(j, o, now)
       PROVE  CancellationRecorded'
  BY <1>16, JobsAssumption DEF heartbeat_job, TypeOK, JobRow,
         CancellationRecorded
<1>17. ASSUME NEW j \in Jobs, NEW o \in Owners, NEW now \in Time,
              pause_job(j, o, now)
       PROVE  CancellationRecorded'
  BY <1>17, JobsAssumption DEF pause_job, transition_state, TypeOK, JobRow,
         CancellationRecorded
<1>18. ASSUME NEW j \in Jobs, NEW o \in Owners, NEW now \in Time,
              resume_job(j, o, now)
       PROVE  CancellationRecorded'
  BY <1>18, JobsAssumption DEF resume_job, transition_state, TypeOK, JobRow,
         CancellationRecorded
<1>19. ASSUME NEW j \in Jobs, NEW o \in Owners, NEW now \in Time,
              request_cancel(j, o, now)
       PROVE  CancellationRecorded'
  BY <1>19, JobsAssumption DEF request_cancel, TypeOK, JobRow,
         CancellationRecorded
<1>20. ASSUME NEW j \in Jobs, NEW o \in Owners, NEW now \in Time,
              acknowledge_cancel(j, o, now)
       PROVE  CancellationRecorded'
  BY <1>20, JobsAssumption DEF acknowledge_cancel, finish_job,
         update_staging_generation, TypeOK, GenRow, JobRow,
         CancellationRecorded
<1>21. ASSUME NEW j \in Jobs, NEW o \in Owners, NEW now \in Time,
              fail_job(j, o, now)
       PROVE  CancellationRecorded'
  BY <1>21, JobsAssumption DEF fail_job, finish_job, update_staging_generation,
         TypeOK, GenRow, JobRow, CancellationRecorded
<1>22. ASSUME NEW j \in Jobs, NEW o \in Owners, NEW now \in Time,
              complete_job(j, o, now)
       PROVE  CancellationRecorded'
  BY <1>22, JobsAssumption DEF complete_job, OwnsStage, HoldsLease, TypeOK,
         JobRow, CancellationRecorded
<1>23. ASSUME NEW j \in Jobs, NEW o \in Owners, NEW staleBefore \in Time,
              NEW now \in Time, recover_stale_job(j, o, staleBefore, now)
       PROVE  CancellationRecorded'
  BY <1>23, JobsAssumption DEF recover_stale_job, TypeOK, JobRow,
         CancellationRecorded
<1>24. ASSUME NEW j \in Jobs, NEW o \in Owners,
              NEW retain \in 0 .. CleanupBatch, NEW kept \in SUBSET Gens,
              NEW batch \in SUBSET Gens, NEW now \in Time,
              cleanup_generations(j, o, retain, kept, batch, now)
       PROVE  CancellationRecorded'
  BY <1>24, CleanupEffect DEF CancellationRecorded
<1>25. CASE UNCHANGED vars
  BY <1>25 DEF vars, CancellationRecorded
<1> QED
  BY <1>1, <1>2, <1>3, <1>4, <1>5, <1>6, <1>7, <1>8, <1>9, <1>10, <1>11,
     <1>12, <1>13, <1>14, <1>15, <1>16, <1>17, <1>18, <1>19, <1>20, <1>21,
     <1>22, <1>23, <1>24, <1>25 DEF Next

\* No transaction separates the ready pointer from the ready status.
LEMMA PointerStep ==
    TypeOK /\ ReadyPointerConsistent /\ [Next]_vars => ReadyPointerConsistent'
<1> SUFFICES ASSUME TypeOK, ReadyPointerConsistent, [Next]_vars
             PROVE  ReadyPointerConsistent'
  OBVIOUS
<1>1. ASSUME NEW r \in Revisions, NEW now \in Time, register_inventory(r, now)
      PROVE  ReadyPointerConsistent'
  BY <1>1, JobsAssumption DEF register_inventory, TypeOK, RepoRow, GenStatus,
         ReadyPointerConsistent
<1>2. ASSUME NEW j \in Jobs, NEW g \in Gens, NEW o \in Owners,
             NEW r \in Revisions, NEW now \in Time, start_job(j, g, o, r, now)
      PROVE  ReadyPointerConsistent'
  BY <1>2, JobsAssumption DEF start_job, NoGeneration, NoJob, EmptyData,
         TypeOK, GenRow, JobRow, GenStatus, ReadyPointerConsistent
<1>3. ASSUME NEW j \in Jobs, NEW o \in Owners, persist_manifest(j, o)
      PROVE  ReadyPointerConsistent'
  BY <1>3, JobsAssumption DEF persist_manifest, HoldsLease, EmptyData, TypeOK,
         GenRow, GenStatus, ReadyPointerConsistent
<1>4. ASSUME NEW j \in Jobs, NEW o \in Owners, remove_noop(j, o)
      PROVE  ReadyPointerConsistent'
  BY <1>4, JobsAssumption DEF remove_noop, HoldsLease, NoGeneration, NoJob,
         EmptyData, TypeOK, GenRow, JobRow, GenStatus, ReadyPointerConsistent
<1>5. ASSUME NEW g \in Gens, NEW ready \in Gens, NEW cloned \in SUBSET Units,
             clone_unaffected_ready_facts(g, ready, cloned)
      PROVE  ReadyPointerConsistent'
  BY <1>5, JobsAssumption DEF clone_unaffected_ready_facts, TypeOK, GenRow,
         GenStatus, ReadyPointerConsistent
<1>6. ASSUME NEW j \in Jobs, NEW o \in Owners, NEW work \in SUBSET Units,
             persist_refresh_work_plan(j, o, work)
      PROVE  ReadyPointerConsistent'
  BY <1>6, JobsAssumption DEF persist_refresh_work_plan, ActiveJobScope,
         HoldsLease, TypeOK, JobRow, GenStatus, ReadyPointerConsistent
<1>7. ASSUME NEW j \in Jobs, NEW o \in Owners, NEW next \in Stages,
             NEW now \in Time, checkpoint_plan(j, o, next, now)
      PROVE  ReadyPointerConsistent'
  BY <1>7, JobsAssumption DEF checkpoint_plan, HoldsLease, TypeOK, JobRow,
         GenStatus, ReadyPointerConsistent
<1>8. ASSUME NEW j \in Jobs, NEW o \in Owners, NEW u \in Units,
             parse_item(j, o, u)
      PROVE  ReadyPointerConsistent'
  BY <1>8, JobsAssumption DEF parse_item, ActiveJobScope, HoldsLease, TypeOK,
         GenRow, JobRow, GenStatus, ReadyPointerConsistent
<1>9. ASSUME NEW j \in Jobs, NEW o \in Owners, NEW now \in Time,
              finish_parse(j, o, now)
       PROVE  ReadyPointerConsistent'
  BY <1>9, JobsAssumption DEF finish_parse, HoldsLease, TypeOK, JobRow,
         GenStatus, ReadyPointerConsistent
<1>10. ASSUME NEW j \in Jobs, NEW o \in Owners, NEW now \in Time,
              link_generation(j, o, now)
       PROVE  ReadyPointerConsistent'
  BY <1>10, JobsAssumption DEF link_generation, Build, OwnsStage, HoldsLease,
         TypeOK, GenRow, JobRow, GenStatus, ReadyPointerConsistent
<1>11. ASSUME NEW j \in Jobs, NEW o \in Owners, NEW now \in Time,
              derive_template_candidates(j, o, now)
       PROVE  ReadyPointerConsistent'
  BY <1>11, JobsAssumption DEF derive_template_candidates, Build, OwnsStage,
         HoldsLease, TypeOK, GenRow, JobRow, GenStatus, ReadyPointerConsistent
<1>12. ASSUME NEW j \in Jobs, NEW o \in Owners, NEW now \in Time,
              finalize_synthesis_catalog(j, o, now)
       PROVE  ReadyPointerConsistent'
  BY <1>12, JobsAssumption DEF finalize_synthesis_catalog, Build, OwnsStage,
         HoldsLease, TypeOK, GenRow, JobRow, GenStatus, ReadyPointerConsistent
<1>13. ASSUME NEW j \in Jobs, NEW o \in Owners, NEW now \in Time,
              validate_generation_for_publication(j, o, now)
       PROVE  ReadyPointerConsistent'
  BY <1>13, JobsAssumption DEF validate_generation_for_publication, OwnsStage,
         HoldsLease, TypeOK, JobRow, GenStatus, ReadyPointerConsistent
<1>14. ASSUME NEW j \in Jobs, NEW o \in Owners, NEW now \in Time,
              publish_generation(j, o, now)
       PROVE  ReadyPointerConsistent'
  BY <1>14, JobsAssumption DEF publish_generation, OwnsStage, HoldsLease,
         TypeOK, GenRow, JobRow, RepoRow, GenStatus, ReadyPointerConsistent
<1>15. ASSUME NEW j \in Jobs, NEW o \in Owners, NEW next \in Stages,
              NEW now \in Time, checkpoint_job(j, o, next, now)
       PROVE  ReadyPointerConsistent'
  BY <1>15, JobsAssumption DEF checkpoint_job, StageProgression, GenericNext,
         TypeOK, JobRow, GenStatus, ReadyPointerConsistent
<1>16. ASSUME NEW j \in Jobs, NEW o \in Owners, NEW now \in Time,
              heartbeat_job(j, o, now)
       PROVE  ReadyPointerConsistent'
  BY <1>16, JobsAssumption DEF heartbeat_job, TypeOK, JobRow, GenStatus,
         ReadyPointerConsistent
<1>17. ASSUME NEW j \in Jobs, NEW o \in Owners, NEW now \in Time,
              pause_job(j, o, now)
       PROVE  ReadyPointerConsistent'
  BY <1>17, JobsAssumption DEF pause_job, transition_state, TypeOK, JobRow,
         GenStatus, ReadyPointerConsistent
<1>18. ASSUME NEW j \in Jobs, NEW o \in Owners, NEW now \in Time,
              resume_job(j, o, now)
       PROVE  ReadyPointerConsistent'
  BY <1>18, JobsAssumption DEF resume_job, transition_state, TypeOK, JobRow,
         GenStatus, ReadyPointerConsistent
<1>19. ASSUME NEW j \in Jobs, NEW o \in Owners, NEW now \in Time,
              request_cancel(j, o, now)
       PROVE  ReadyPointerConsistent'
  BY <1>19, JobsAssumption DEF request_cancel, TypeOK, JobRow, GenStatus,
         ReadyPointerConsistent
<1>20. ASSUME NEW j \in Jobs, NEW o \in Owners, NEW now \in Time,
              acknowledge_cancel(j, o, now)
       PROVE  ReadyPointerConsistent'
  BY <1>20, JobsAssumption DEF acknowledge_cancel, finish_job,
         update_staging_generation, TypeOK, GenRow, JobRow, GenStatus,
         ReadyPointerConsistent
<1>21. ASSUME NEW j \in Jobs, NEW o \in Owners, NEW now \in Time,
              fail_job(j, o, now)
       PROVE  ReadyPointerConsistent'
  BY <1>21, JobsAssumption DEF fail_job, finish_job, update_staging_generation,
         TypeOK, GenRow, JobRow, GenStatus, ReadyPointerConsistent
<1>22. ASSUME NEW j \in Jobs, NEW o \in Owners, NEW now \in Time,
              complete_job(j, o, now)
       PROVE  ReadyPointerConsistent'
  BY <1>22, JobsAssumption DEF complete_job, OwnsStage, HoldsLease, TypeOK,
         JobRow, GenStatus, ReadyPointerConsistent
<1>23. ASSUME NEW j \in Jobs, NEW o \in Owners, NEW staleBefore \in Time,
              NEW now \in Time, recover_stale_job(j, o, staleBefore, now)
       PROVE  ReadyPointerConsistent'
  BY <1>23, JobsAssumption DEF recover_stale_job, TypeOK, JobRow, GenStatus,
         ReadyPointerConsistent
<1>24. ASSUME NEW j \in Jobs, NEW o \in Owners,
              NEW retain \in 0 .. CleanupBatch, NEW kept \in SUBSET Gens,
              NEW batch \in SUBSET Gens, NEW now \in Time,
              cleanup_generations(j, o, retain, kept, batch, now)
       PROVE  ReadyPointerConsistent'
  BY <1>24, JobsAssumption DEF cleanup_generations, authorize_cleanup,
         NoGeneration, OldestBatch, cleanup_candidates, Superseded,
         OwnedByTerminalJob, Unreferenced, Terminal, TypeOK, GenRow, JobRow,
         GenStatus, ReadyPointerConsistent
<1>25. CASE UNCHANGED vars
  BY <1>25 DEF vars, ReadyPointerConsistent
<1> QED
  BY <1>1, <1>2, <1>3, <1>4, <1>5, <1>6, <1>7, <1>8, <1>9, <1>10, <1>11,
     <1>12, <1>13, <1>14, <1>15, <1>16, <1>17, <1>18, <1>19, <1>20, <1>21,
     <1>22, <1>23, <1>24, <1>25 DEF Next

\* No transaction leaves an active job without its generation or a staging
\* generation without its job.
LEMMA LeaseStep ==
    TypeOK /\ CancellationRecorded /\ ReadyPointerConsistent /\ LeaseConsistent /\ [Next]_vars => LeaseConsistent'
<1> SUFFICES ASSUME TypeOK, CancellationRecorded, ReadyPointerConsistent, LeaseConsistent, [Next]_vars
             PROVE  LeaseConsistent'
  OBVIOUS
<1>1. ASSUME NEW r \in Revisions, NEW now \in Time, register_inventory(r, now)
      PROVE  LeaseConsistent'
  BY <1>1, JobsAssumption DEF register_inventory, TypeOK, RepoRow,
         LeaseConsistent, Active, GenStatus, ActiveStates
<1>2. ASSUME NEW j \in Jobs, NEW g \in Gens, NEW o \in Owners,
             NEW r \in Revisions, NEW now \in Time, start_job(j, g, o, r, now)
      PROVE  LeaseConsistent'
  BY <1>2, JobsAssumption DEF start_job, NoGeneration, NoJob, EmptyData,
         TypeOK, GenRow, JobRow, LeaseConsistent, Active, GenStatus,
         ActiveStates
<1>3. ASSUME NEW j \in Jobs, NEW o \in Owners, persist_manifest(j, o)
      PROVE  LeaseConsistent'
  BY <1>3, JobsAssumption DEF persist_manifest, HoldsLease, EmptyData, TypeOK,
         GenRow, LeaseConsistent, Active, GenStatus, ActiveStates
<1>4. ASSUME NEW j \in Jobs, NEW o \in Owners, remove_noop(j, o)
      PROVE  LeaseConsistent'
  BY <1>4, JobsAssumption DEF remove_noop, HoldsLease, NoGeneration, NoJob,
         EmptyData, TypeOK, GenRow, JobRow, LeaseConsistent, Active, GenStatus,
         ActiveStates, ReadyPointerConsistent
<1>5. ASSUME NEW g \in Gens, NEW ready \in Gens, NEW cloned \in SUBSET Units,
             clone_unaffected_ready_facts(g, ready, cloned)
      PROVE  LeaseConsistent'
  BY <1>5, JobsAssumption DEF clone_unaffected_ready_facts, TypeOK, GenRow,
         LeaseConsistent, Active, GenStatus, ActiveStates
<1>6. ASSUME NEW j \in Jobs, NEW o \in Owners, NEW work \in SUBSET Units,
             persist_refresh_work_plan(j, o, work)
      PROVE  LeaseConsistent'
  BY <1>6, JobsAssumption DEF persist_refresh_work_plan, ActiveJobScope,
         HoldsLease, TypeOK, JobRow, LeaseConsistent, Active, GenStatus,
         ActiveStates
<1>7. ASSUME NEW j \in Jobs, NEW o \in Owners, NEW next \in Stages,
             NEW now \in Time, checkpoint_plan(j, o, next, now)
      PROVE  LeaseConsistent'
  BY <1>7, JobsAssumption DEF checkpoint_plan, HoldsLease, TypeOK, JobRow,
         LeaseConsistent, Active, GenStatus, ActiveStates
<1>8. ASSUME NEW j \in Jobs, NEW o \in Owners, NEW u \in Units,
             parse_item(j, o, u)
      PROVE  LeaseConsistent'
  BY <1>8, JobsAssumption DEF parse_item, ActiveJobScope, HoldsLease, TypeOK,
         GenRow, JobRow, LeaseConsistent, Active, GenStatus, ActiveStates
<1>9. ASSUME NEW j \in Jobs, NEW o \in Owners, NEW now \in Time,
              finish_parse(j, o, now)
       PROVE  LeaseConsistent'
  BY <1>9, JobsAssumption DEF finish_parse, HoldsLease, TypeOK, JobRow,
         LeaseConsistent, Active, GenStatus, ActiveStates
<1>10. ASSUME NEW j \in Jobs, NEW o \in Owners, NEW now \in Time,
              link_generation(j, o, now)
       PROVE  LeaseConsistent'
  BY <1>10, JobsAssumption DEF link_generation, Build, OwnsStage, HoldsLease,
         TypeOK, GenRow, JobRow, LeaseConsistent, Active, GenStatus,
         ActiveStates
<1>11. ASSUME NEW j \in Jobs, NEW o \in Owners, NEW now \in Time,
              derive_template_candidates(j, o, now)
       PROVE  LeaseConsistent'
  BY <1>11, JobsAssumption DEF derive_template_candidates, Build, OwnsStage,
         HoldsLease, TypeOK, GenRow, JobRow, LeaseConsistent, Active,
         GenStatus, ActiveStates
<1>12. ASSUME NEW j \in Jobs, NEW o \in Owners, NEW now \in Time,
              finalize_synthesis_catalog(j, o, now)
       PROVE  LeaseConsistent'
  BY <1>12, JobsAssumption DEF finalize_synthesis_catalog, Build, OwnsStage,
         HoldsLease, TypeOK, GenRow, JobRow, LeaseConsistent, Active,
         GenStatus, ActiveStates
<1>13. ASSUME NEW j \in Jobs, NEW o \in Owners, NEW now \in Time,
              validate_generation_for_publication(j, o, now)
       PROVE  LeaseConsistent'
  BY <1>13, JobsAssumption DEF validate_generation_for_publication, OwnsStage,
         HoldsLease, TypeOK, JobRow, LeaseConsistent, Active, GenStatus,
         ActiveStates
<1>14. ASSUME NEW j \in Jobs, NEW o \in Owners, NEW now \in Time,
              publish_generation(j, o, now)
       PROVE  LeaseConsistent'
  BY <1>14, JobsAssumption DEF publish_generation, OwnsStage, HoldsLease,
         TypeOK, GenRow, JobRow, RepoRow, LeaseConsistent, Active, GenStatus,
         ActiveStates, ReadyPointerConsistent
<1>15. ASSUME NEW j \in Jobs, NEW o \in Owners, NEW next \in Stages,
              NEW now \in Time, checkpoint_job(j, o, next, now)
       PROVE  LeaseConsistent'
  BY <1>15, JobsAssumption DEF checkpoint_job, StageProgression, GenericNext,
         TypeOK, JobRow, LeaseConsistent, Active, GenStatus, ActiveStates
<1>16. ASSUME NEW j \in Jobs, NEW o \in Owners, NEW now \in Time,
              heartbeat_job(j, o, now)
       PROVE  LeaseConsistent'
  BY <1>16, JobsAssumption DEF heartbeat_job, TypeOK, JobRow, LeaseConsistent,
         Active, GenStatus, ActiveStates
<1>17. ASSUME NEW j \in Jobs, NEW o \in Owners, NEW now \in Time,
              pause_job(j, o, now)
       PROVE  LeaseConsistent'
  BY <1>17, JobsAssumption DEF pause_job, transition_state, TypeOK, JobRow,
         LeaseConsistent, Active, GenStatus, ActiveStates
<1>18. ASSUME NEW j \in Jobs, NEW o \in Owners, NEW now \in Time,
              resume_job(j, o, now)
       PROVE  LeaseConsistent'
  BY <1>18, JobsAssumption DEF resume_job, transition_state, TypeOK, JobRow,
         LeaseConsistent, Active, GenStatus, ActiveStates
<1>19. ASSUME NEW j \in Jobs, NEW o \in Owners, NEW now \in Time,
              request_cancel(j, o, now)
       PROVE  LeaseConsistent'
  BY <1>19, JobsAssumption DEF request_cancel, TypeOK, JobRow, LeaseConsistent,
         Active, GenStatus, ActiveStates
<1>20. ASSUME NEW j \in Jobs, NEW o \in Owners, NEW now \in Time,
              acknowledge_cancel(j, o, now)
       PROVE  LeaseConsistent'
  <2>1. /\ \A i \in Jobs : i # j => job'[i] = job[i]
        /\ ~Active(j)' /\ job'[j].gen = job[j].gen /\ Active(j)
    BY <1>20, Names
       DEF acknowledge_cancel, finish_job, TypeOK, JobRow, Active, ActiveStates
  <2>2. CASE GenStatus(j, "staging")
    <3>1. /\ gen'[job[j].gen].status # "staging"
          /\ \A g \in Gens : g # job[j].gen => gen'[g].status = gen[g].status
      BY <1>20, <2>2 DEF acknowledge_cancel, finish_job, update_staging_generation,
         GenStatus, TypeOK, GenRow
    <3> QED BY <2>1, <2>2, <3>1 DEF LeaseConsistent, GenStatus, Active
  <2>3. CASE ~GenStatus(j, "staging")
    <3>1. UNCHANGED gen
      BY <1>20, <2>3 DEF acknowledge_cancel, finish_job, update_staging_generation
    <3> QED BY <2>1, <2>3, <3>1 DEF LeaseConsistent, GenStatus, Active
  <2> QED BY <2>2, <2>3
<1>21. ASSUME NEW j \in Jobs, NEW o \in Owners, NEW now \in Time,
              fail_job(j, o, now)
       PROVE  LeaseConsistent'
  <2>1. /\ \A i \in Jobs : i # j => job'[i] = job[i]
        /\ ~Active(j)' /\ job'[j].gen = job[j].gen /\ Active(j)
    BY <1>21, Names
       DEF fail_job, finish_job, TypeOK, JobRow, Active, ActiveStates
  <2>2. CASE GenStatus(j, "staging")
    <3>1. /\ gen'[job[j].gen].status # "staging"
          /\ \A g \in Gens : g # job[j].gen => gen'[g].status = gen[g].status
      BY <1>21, <2>2 DEF fail_job, finish_job, update_staging_generation,
         GenStatus, TypeOK, GenRow
    <3> QED BY <2>1, <2>2, <3>1 DEF LeaseConsistent, GenStatus, Active
  <2>3. CASE ~GenStatus(j, "staging")
    <3>1. UNCHANGED gen
      BY <1>21, <2>3 DEF fail_job, finish_job, update_staging_generation
    <3> QED BY <2>1, <2>3, <3>1 DEF LeaseConsistent, GenStatus, Active
  <2> QED BY <2>2, <2>3
<1>22. ASSUME NEW j \in Jobs, NEW o \in Owners, NEW now \in Time,
              complete_job(j, o, now)
       PROVE  LeaseConsistent'
  BY <1>22, JobsAssumption DEF complete_job, OwnsStage, HoldsLease, TypeOK,
         JobRow, LeaseConsistent, Active, GenStatus, ActiveStates,
         ReadyPointerConsistent
<1>23. ASSUME NEW j \in Jobs, NEW o \in Owners, NEW staleBefore \in Time,
              NEW now \in Time, recover_stale_job(j, o, staleBefore, now)
       PROVE  LeaseConsistent'
  BY <1>23, JobsAssumption DEF recover_stale_job, TypeOK, JobRow,
         LeaseConsistent, Active, GenStatus, ActiveStates
<1>24. ASSUME NEW j \in Jobs, NEW o \in Owners,
              NEW retain \in 0 .. CleanupBatch, NEW kept \in SUBSET Gens,
              NEW batch \in SUBSET Gens, NEW now \in Time,
              cleanup_generations(j, o, retain, kept, batch, now)
       PROVE  LeaseConsistent'
  BY <1>24, CleanupEffect
     DEF LeaseConsistent, Active, ActiveStates, GenStatus
<1>25. CASE UNCHANGED vars
  BY <1>25 DEF vars, LeaseConsistent, Active, GenStatus
<1> QED
  BY <1>1, <1>2, <1>3, <1>4, <1>5, <1>6, <1>7, <1>8, <1>9, <1>10, <1>11,
     <1>12, <1>13, <1>14, <1>15, <1>16, <1>17, <1>18, <1>19, <1>20, <1>21,
     <1>22, <1>23, <1>24, <1>25 DEF Next

\* No transaction publishes an incomplete generation or writes to a published
\* one.
LEMMA IntactStep ==
    TypeOK /\ ReadyPointerConsistent /\ LeaseConsistent /\ PublishedIntact /\ [Next]_vars => PublishedIntact'
<1> SUFFICES ASSUME TypeOK, ReadyPointerConsistent, LeaseConsistent, PublishedIntact, [Next]_vars
             PROVE  PublishedIntact'
  OBVIOUS
<1>1. ASSUME NEW r \in Revisions, NEW now \in Time, register_inventory(r, now)
      PROVE  PublishedIntact'
  BY <1>1, JobsAssumption DEF register_inventory, TypeOK, RepoRow, GenStatus,
         PublishedIntact
<1>2. ASSUME NEW j \in Jobs, NEW g \in Gens, NEW o \in Owners,
             NEW r \in Revisions, NEW now \in Time, start_job(j, g, o, r, now)
      PROVE  PublishedIntact'
  BY <1>2, JobsAssumption DEF start_job, NoGeneration, NoJob, EmptyData,
         TypeOK, GenRow, JobRow, GenStatus, PublishedIntact
<1>3. ASSUME NEW j \in Jobs, NEW o \in Owners, persist_manifest(j, o)
      PROVE  PublishedIntact'
  BY <1>3, JobsAssumption DEF persist_manifest, HoldsLease, EmptyData, TypeOK,
         GenRow, GenStatus, PublishedIntact, LeaseConsistent, Active,
         ActiveStates
<1>4. ASSUME NEW j \in Jobs, NEW o \in Owners, remove_noop(j, o)
      PROVE  PublishedIntact'
  BY <1>4, JobsAssumption DEF remove_noop, HoldsLease, NoGeneration, NoJob,
         EmptyData, TypeOK, GenRow, JobRow, GenStatus, PublishedIntact
<1>5. ASSUME NEW g \in Gens, NEW ready \in Gens, NEW cloned \in SUBSET Units,
             clone_unaffected_ready_facts(g, ready, cloned)
      PROVE  PublishedIntact'
  BY <1>5, JobsAssumption DEF clone_unaffected_ready_facts, TypeOK, GenRow,
         GenStatus, PublishedIntact
<1>6. ASSUME NEW j \in Jobs, NEW o \in Owners, NEW work \in SUBSET Units,
             persist_refresh_work_plan(j, o, work)
      PROVE  PublishedIntact'
  BY <1>6, JobsAssumption DEF persist_refresh_work_plan, ActiveJobScope,
         HoldsLease, TypeOK, JobRow, GenStatus, PublishedIntact
<1>7. ASSUME NEW j \in Jobs, NEW o \in Owners, NEW next \in Stages,
             NEW now \in Time, checkpoint_plan(j, o, next, now)
      PROVE  PublishedIntact'
  BY <1>7, JobsAssumption DEF checkpoint_plan, HoldsLease, TypeOK, JobRow,
         GenStatus, PublishedIntact
<1>8. ASSUME NEW j \in Jobs, NEW o \in Owners, NEW u \in Units,
             parse_item(j, o, u)
      PROVE  PublishedIntact'
  BY <1>8, JobsAssumption DEF parse_item, ActiveJobScope, HoldsLease, TypeOK,
         GenRow, JobRow, GenStatus, PublishedIntact
<1>9. ASSUME NEW j \in Jobs, NEW o \in Owners, NEW now \in Time,
              finish_parse(j, o, now)
       PROVE  PublishedIntact'
  BY <1>9, JobsAssumption DEF finish_parse, HoldsLease, TypeOK, JobRow,
         GenStatus, PublishedIntact
<1>10. ASSUME NEW j \in Jobs, NEW o \in Owners, NEW now \in Time,
              link_generation(j, o, now)
       PROVE  PublishedIntact'
  BY <1>10, JobsAssumption DEF link_generation, Build, OwnsStage, HoldsLease,
         TypeOK, GenRow, JobRow, GenStatus, PublishedIntact
<1>11. ASSUME NEW j \in Jobs, NEW o \in Owners, NEW now \in Time,
              derive_template_candidates(j, o, now)
       PROVE  PublishedIntact'
  BY <1>11, JobsAssumption DEF derive_template_candidates, Build, OwnsStage,
         HoldsLease, TypeOK, GenRow, JobRow, GenStatus, PublishedIntact
<1>12. ASSUME NEW j \in Jobs, NEW o \in Owners, NEW now \in Time,
              finalize_synthesis_catalog(j, o, now)
       PROVE  PublishedIntact'
  BY <1>12, JobsAssumption DEF finalize_synthesis_catalog, Build, OwnsStage,
         HoldsLease, TypeOK, GenRow, JobRow, GenStatus, PublishedIntact
<1>13. ASSUME NEW j \in Jobs, NEW o \in Owners, NEW now \in Time,
              validate_generation_for_publication(j, o, now)
       PROVE  PublishedIntact'
  BY <1>13, JobsAssumption DEF validate_generation_for_publication, OwnsStage,
         HoldsLease, TypeOK, JobRow, GenStatus, PublishedIntact
<1>14. ASSUME NEW j \in Jobs, NEW o \in Owners, NEW now \in Time,
              publish_generation(j, o, now)
       PROVE  PublishedIntact'
  BY <1>14, JobsAssumption DEF publish_generation, OwnsStage, HoldsLease,
         TypeOK, GenRow, JobRow, RepoRow, GenStatus, PublishedIntact,
         ReceiptVerifies, Integrity, ReadyPointerConsistent
<1>15. ASSUME NEW j \in Jobs, NEW o \in Owners, NEW next \in Stages,
              NEW now \in Time, checkpoint_job(j, o, next, now)
       PROVE  PublishedIntact'
  BY <1>15, JobsAssumption DEF checkpoint_job, StageProgression, GenericNext,
         TypeOK, JobRow, GenStatus, PublishedIntact
<1>16. ASSUME NEW j \in Jobs, NEW o \in Owners, NEW now \in Time,
              heartbeat_job(j, o, now)
       PROVE  PublishedIntact'
  BY <1>16, JobsAssumption DEF heartbeat_job, TypeOK, JobRow, GenStatus,
         PublishedIntact
<1>17. ASSUME NEW j \in Jobs, NEW o \in Owners, NEW now \in Time,
              pause_job(j, o, now)
       PROVE  PublishedIntact'
  BY <1>17, JobsAssumption DEF pause_job, transition_state, TypeOK, JobRow,
         GenStatus, PublishedIntact
<1>18. ASSUME NEW j \in Jobs, NEW o \in Owners, NEW now \in Time,
              resume_job(j, o, now)
       PROVE  PublishedIntact'
  BY <1>18, JobsAssumption DEF resume_job, transition_state, TypeOK, JobRow,
         GenStatus, PublishedIntact
<1>19. ASSUME NEW j \in Jobs, NEW o \in Owners, NEW now \in Time,
              request_cancel(j, o, now)
       PROVE  PublishedIntact'
  BY <1>19, JobsAssumption DEF request_cancel, TypeOK, JobRow, GenStatus,
         PublishedIntact
<1>20. ASSUME NEW j \in Jobs, NEW o \in Owners, NEW now \in Time,
              acknowledge_cancel(j, o, now)
       PROVE  PublishedIntact'
  <2>1. update_staging_generation(j, "cancelled")
    BY <1>20 DEF acknowledge_cancel, finish_job
  <2> QED BY <2>1, FinishEffect DEF PublishedIntact
<1>21. ASSUME NEW j \in Jobs, NEW o \in Owners, NEW now \in Time,
              fail_job(j, o, now)
       PROVE  PublishedIntact'
  <2>1. update_staging_generation(j, "failed")
    BY <1>21 DEF fail_job, finish_job
  <2> QED BY <2>1, FinishEffect DEF PublishedIntact
<1>22. ASSUME NEW j \in Jobs, NEW o \in Owners, NEW now \in Time,
              complete_job(j, o, now)
       PROVE  PublishedIntact'
  BY <1>22, JobsAssumption DEF complete_job, OwnsStage, HoldsLease, TypeOK,
         JobRow, GenStatus, PublishedIntact
<1>23. ASSUME NEW j \in Jobs, NEW o \in Owners, NEW staleBefore \in Time,
              NEW now \in Time, recover_stale_job(j, o, staleBefore, now)
       PROVE  PublishedIntact'
  BY <1>23, JobsAssumption DEF recover_stale_job, TypeOK, JobRow, GenStatus,
         PublishedIntact
<1>24. ASSUME NEW j \in Jobs, NEW o \in Owners,
              NEW retain \in 0 .. CleanupBatch, NEW kept \in SUBSET Gens,
              NEW batch \in SUBSET Gens, NEW now \in Time,
              cleanup_generations(j, o, retain, kept, batch, now)
       PROVE  PublishedIntact'
  BY <1>24, JobsAssumption DEF cleanup_generations, authorize_cleanup,
         NoGeneration, OldestBatch, cleanup_candidates, Superseded,
         OwnedByTerminalJob, Unreferenced, Terminal, TypeOK, GenRow, JobRow,
         GenStatus, PublishedIntact
<1>25. CASE UNCHANGED vars
  BY <1>25 DEF vars, PublishedIntact
<1> QED
  BY <1>1, <1>2, <1>3, <1>4, <1>5, <1>6, <1>7, <1>8, <1>9, <1>10, <1>11,
     <1>12, <1>13, <1>14, <1>15, <1>16, <1>17, <1>18, <1>19, <1>20, <1>21,
     <1>22, <1>23, <1>24, <1>25 DEF Next

----------------------------------------------------------------------------
\* The inductive invariant.
JobsInvariant ==
    /\ TypeOK
    /\ CancellationRecorded
    /\ ReadyPointerConsistent
    /\ LeaseConsistent
    /\ PublishedIntact

\* It holds in the empty store.
LEMMA InitInvariant == Init => JobsInvariant
<1> SUFFICES ASSUME Init PROVE JobsInvariant
  OBVIOUS
<1>1. TypeOK
  BY JobsAssumption, Blank DEF Init, TypeOK, RepoRow, Time
<1>2. CancellationRecorded /\ ReadyPointerConsistent /\ PublishedIntact
  BY JobsAssumption
     DEF Init, CancellationRecorded, ReadyPointerConsistent, PublishedIntact,
         NoGeneration, NoJob
<1>3. LeaseConsistent
  BY DEF Init, LeaseConsistent, Active, ActiveStates, NoGeneration, NoJob
<1> QED BY <1>1, <1>2, <1>3 DEF JobsInvariant

\* Every transaction of jobs.rs preserves it.
LEMMA StepInvariant == JobsInvariant /\ [Next]_vars => JobsInvariant'
BY TypeOKStep, CancellationStep, PointerStep, LeaseStep, IntactStep
   DEF JobsInvariant

\* The job store keeps its invariant whatever its callers do.
THEOREM JobsInvariantHolds == Spec => []JobsInvariant
BY InitInvariant, StepInvariant, PTL DEF Spec

\* Rows of the three tables stay well typed.
THEOREM JobsTypeCorrect == Spec => []TypeOK
<1>1. JobsInvariant => TypeOK
  BY DEF JobsInvariant
<1> QED BY <1>1, JobsInvariantHolds, PTL

\* The ready pointer and the ready status agree in every reachable state, for
\* any number of concurrent jobs, owners and generations.
THEOREM ReadyPointerCorrect == Spec => []ReadyPointerConsistent
<1>1. JobsInvariant => ReadyPointerConsistent
  BY DEF JobsInvariant
<1> QED BY <1>1, JobsInvariantHolds, PTL

\* One active job at most, holding exactly the staging generation there is.
THEOREM LeaseCorrect == Spec => []LeaseConsistent
<1>1. JobsInvariant => LeaseConsistent
  BY DEF JobsInvariant
<1> QED BY <1>1, JobsInvariantHolds, PTL

\* A published generation is complete and is never written to again.
THEOREM PublishedCorrect == Spec => []PublishedIntact
<1>1. JobsInvariant => PublishedIntact
  BY DEF JobsInvariant
<1> QED BY <1>1, JobsInvariantHolds, PTL
----------------------------------------------------------------------------
(* What no step may do.                                                    *)

FinishedKept ==
    \A j \in Jobs : Terminal(j) =>
        /\ job'[j].state = job[j].state /\ job'[j].stage = job[j].stage
        /\ job'[j].owner = job[j].owner /\ job'[j].cancel = job[j].cancel

TimeKept ==
    \A j \in Jobs : Active(j) /\ job[j].stage \notin {"inventory", "parse"}
        => job'[j].updated >= job[j].updated

\* No transaction touches the life cycle of a finished job.
LEMMA FinishedStep ==
    TypeOK /\ [Next]_vars => FinishedKept
<1> SUFFICES ASSUME TypeOK, [Next]_vars
             PROVE  FinishedKept
  OBVIOUS
<1>1. ASSUME NEW r \in Revisions, NEW now \in Time, register_inventory(r, now)
      PROVE  FinishedKept
  BY <1>1, JobsAssumption DEF register_inventory, TypeOK, RepoRow,
         FinishedKept, Terminal,
         TerminalStates, ActiveStates
<1>2. ASSUME NEW j \in Jobs, NEW g \in Gens, NEW o \in Owners,
             NEW r \in Revisions, NEW now \in Time, start_job(j, g, o, r, now)
      PROVE  FinishedKept
  BY <1>2, JobsAssumption DEF start_job, NoGeneration, NoJob, EmptyData,
         TypeOK, GenRow, JobRow, FinishedKept, Terminal,
         TerminalStates, ActiveStates
<1>3. ASSUME NEW j \in Jobs, NEW o \in Owners, persist_manifest(j, o)
      PROVE  FinishedKept
  BY <1>3, JobsAssumption DEF persist_manifest, HoldsLease, EmptyData, TypeOK,
         GenRow, FinishedKept, Terminal,
         TerminalStates, ActiveStates
<1>4. ASSUME NEW j \in Jobs, NEW o \in Owners, remove_noop(j, o)
      PROVE  FinishedKept
  BY <1>4, JobsAssumption DEF remove_noop, HoldsLease, NoGeneration, NoJob,
         EmptyData, TypeOK, GenRow, JobRow, FinishedKept, Terminal,
         TerminalStates, ActiveStates
<1>5. ASSUME NEW g \in Gens, NEW ready \in Gens, NEW cloned \in SUBSET Units,
             clone_unaffected_ready_facts(g, ready, cloned)
      PROVE  FinishedKept
  BY <1>5, JobsAssumption DEF clone_unaffected_ready_facts, TypeOK, GenRow,
         FinishedKept, Terminal,
         TerminalStates, ActiveStates
<1>6. ASSUME NEW j \in Jobs, NEW o \in Owners, NEW work \in SUBSET Units,
             persist_refresh_work_plan(j, o, work)
      PROVE  FinishedKept
  BY <1>6, JobsAssumption DEF persist_refresh_work_plan, ActiveJobScope,
         HoldsLease, TypeOK, JobRow, FinishedKept, Terminal,
         TerminalStates, ActiveStates
<1>7. ASSUME NEW j \in Jobs, NEW o \in Owners, NEW next \in Stages,
             NEW now \in Time, checkpoint_plan(j, o, next, now)
      PROVE  FinishedKept
  BY <1>7, JobsAssumption DEF checkpoint_plan, HoldsLease, TypeOK, JobRow,
         FinishedKept, Terminal,
         TerminalStates, ActiveStates
<1>8. ASSUME NEW j \in Jobs, NEW o \in Owners, NEW u \in Units,
             parse_item(j, o, u)
      PROVE  FinishedKept
  BY <1>8, JobsAssumption DEF parse_item, ActiveJobScope, HoldsLease, TypeOK,
         GenRow, JobRow, FinishedKept, Terminal,
         TerminalStates, ActiveStates
<1>9. ASSUME NEW j \in Jobs, NEW o \in Owners, NEW now \in Time,
              finish_parse(j, o, now)
       PROVE  FinishedKept
  BY <1>9, JobsAssumption DEF finish_parse, HoldsLease, TypeOK, JobRow,
         FinishedKept, Terminal,
         TerminalStates, ActiveStates
<1>10. ASSUME NEW j \in Jobs, NEW o \in Owners, NEW now \in Time,
              link_generation(j, o, now)
       PROVE  FinishedKept
  BY <1>10, JobsAssumption DEF link_generation, Build, OwnsStage, HoldsLease,
         TypeOK, GenRow, JobRow, FinishedKept, Terminal,
         TerminalStates, ActiveStates
<1>11. ASSUME NEW j \in Jobs, NEW o \in Owners, NEW now \in Time,
              derive_template_candidates(j, o, now)
       PROVE  FinishedKept
  BY <1>11, JobsAssumption DEF derive_template_candidates, Build, OwnsStage,
         HoldsLease, TypeOK, GenRow, JobRow, FinishedKept, Terminal,
         TerminalStates, ActiveStates
<1>12. ASSUME NEW j \in Jobs, NEW o \in Owners, NEW now \in Time,
              finalize_synthesis_catalog(j, o, now)
       PROVE  FinishedKept
  BY <1>12, JobsAssumption DEF finalize_synthesis_catalog, Build, OwnsStage,
         HoldsLease, TypeOK, GenRow, JobRow, FinishedKept, Terminal,
         TerminalStates, ActiveStates
<1>13. ASSUME NEW j \in Jobs, NEW o \in Owners, NEW now \in Time,
              validate_generation_for_publication(j, o, now)
       PROVE  FinishedKept
  BY <1>13, JobsAssumption DEF validate_generation_for_publication, OwnsStage,
         HoldsLease, TypeOK, JobRow, FinishedKept, Terminal,
         TerminalStates, ActiveStates
<1>14. ASSUME NEW j \in Jobs, NEW o \in Owners, NEW now \in Time,
              publish_generation(j, o, now)
       PROVE  FinishedKept
  BY <1>14, JobsAssumption DEF publish_generation, OwnsStage, HoldsLease,
         TypeOK, GenRow, JobRow, RepoRow, FinishedKept, Terminal,
         TerminalStates, ActiveStates
<1>15. ASSUME NEW j \in Jobs, NEW o \in Owners, NEW next \in Stages,
              NEW now \in Time, checkpoint_job(j, o, next, now)
       PROVE  FinishedKept
  BY <1>15, JobsAssumption DEF checkpoint_job, StageProgression, GenericNext,
         TypeOK, JobRow, FinishedKept, Terminal,
         TerminalStates, ActiveStates
<1>16. ASSUME NEW j \in Jobs, NEW o \in Owners, NEW now \in Time,
              heartbeat_job(j, o, now)
       PROVE  FinishedKept
  BY <1>16, JobsAssumption DEF heartbeat_job, TypeOK, JobRow,
         FinishedKept, Terminal,
         TerminalStates, ActiveStates
<1>17. ASSUME NEW j \in Jobs, NEW o \in Owners, NEW now \in Time,
              pause_job(j, o, now)
       PROVE  FinishedKept
  BY <1>17, JobsAssumption DEF pause_job, transition_state, TypeOK, JobRow,
         FinishedKept, Terminal,
         TerminalStates, ActiveStates
<1>18. ASSUME NEW j \in Jobs, NEW o \in Owners, NEW now \in Time,
              resume_job(j, o, now)
       PROVE  FinishedKept
  BY <1>18, JobsAssumption DEF resume_job, transition_state, TypeOK, JobRow,
         FinishedKept, Terminal,
         TerminalStates, ActiveStates
<1>19. ASSUME NEW j \in Jobs, NEW o \in Owners, NEW now \in Time,
              request_cancel(j, o, now)
       PROVE  FinishedKept
  BY <1>19, JobsAssumption DEF request_cancel, TypeOK, JobRow,
         FinishedKept, Terminal,
         TerminalStates, ActiveStates
<1>20. ASSUME NEW j \in Jobs, NEW o \in Owners, NEW now \in Time,
              acknowledge_cancel(j, o, now)
       PROVE  FinishedKept
  BY <1>20, JobsAssumption DEF acknowledge_cancel, finish_job,
         update_staging_generation, TypeOK, GenRow, JobRow,
         FinishedKept, Terminal,
         TerminalStates, ActiveStates
<1>21. ASSUME NEW j \in Jobs, NEW o \in Owners, NEW now \in Time,
              fail_job(j, o, now)
       PROVE  FinishedKept
  BY <1>21, JobsAssumption DEF fail_job, finish_job, update_staging_generation,
         TypeOK, GenRow, JobRow, FinishedKept, Terminal,
         TerminalStates, ActiveStates
<1>22. ASSUME NEW j \in Jobs, NEW o \in Owners, NEW now \in Time,
              complete_job(j, o, now)
       PROVE  FinishedKept
  BY <1>22, JobsAssumption DEF complete_job, OwnsStage, HoldsLease, TypeOK,
         JobRow, FinishedKept, Terminal,
         TerminalStates, ActiveStates
<1>23. ASSUME NEW j \in Jobs, NEW o \in Owners, NEW staleBefore \in Time,
              NEW now \in Time, recover_stale_job(j, o, staleBefore, now)
       PROVE  FinishedKept
  <2>1. job[j].state \in ActiveStates
    BY <1>23 DEF recover_stale_job, Active
  <2>2. \A i \in Jobs : i # j => job'[i] = job[i]
    BY <1>23 DEF recover_stale_job, TypeOK
  <2> QED BY <2>1, <2>2 DEF FinishedKept, Terminal, TerminalStates, ActiveStates
<1>24. ASSUME NEW j \in Jobs, NEW o \in Owners,
              NEW retain \in 0 .. CleanupBatch, NEW kept \in SUBSET Gens,
              NEW batch \in SUBSET Gens, NEW now \in Time,
              cleanup_generations(j, o, retain, kept, batch, now)
       PROVE  FinishedKept
  BY <1>24, CleanupEffect DEF FinishedKept, Terminal,
         TerminalStates, ActiveStates
<1>25. CASE UNCHANGED vars
  BY <1>25 DEF vars, FinishedKept, Terminal,
         TerminalStates, ActiveStates
<1> QED
  BY <1>1, <1>2, <1>3, <1>4, <1>5, <1>6, <1>7, <1>8, <1>9, <1>10, <1>11,
     <1>12, <1>13, <1>14, <1>15, <1>16, <1>17, <1>18, <1>19, <1>20, <1>21,
     <1>22, <1>23, <1>24, <1>25 DEF Next

\* After parsing no transaction accepts an older timestamp.
LEMMA TimeStep ==
    TypeOK /\ [Next]_vars => TimeKept
<1> SUFFICES ASSUME TypeOK, [Next]_vars
             PROVE  TimeKept
  OBVIOUS
<1>a. \A j \in Jobs : job[j].updated \in Nat
  BY JobsAssumption DEF TypeOK, JobRow, Time
<1>b. UNCHANGED job => TimeKept
  BY <1>a DEF TimeKept
<1>1. ASSUME NEW r \in Revisions, NEW now \in Time, register_inventory(r, now)
      PROVE  TimeKept
  BY <1>1, <1>b DEF register_inventory
<1>2. ASSUME NEW j \in Jobs, NEW g \in Gens, NEW o \in Owners,
             NEW r \in Revisions, NEW now \in Time, start_job(j, g, o, r, now)
      PROVE  TimeKept
  BY <1>2, JobsAssumption DEF start_job, NoGeneration, NoJob, EmptyData,
         TypeOK, GenRow, JobRow, TimeKept, NotRegressed, Active,
         ActiveStates, Time
<1>3. ASSUME NEW j \in Jobs, NEW o \in Owners, persist_manifest(j, o)
      PROVE  TimeKept
  BY <1>3, <1>b DEF persist_manifest
<1>4. ASSUME NEW j \in Jobs, NEW o \in Owners, remove_noop(j, o)
      PROVE  TimeKept
  BY <1>4, JobsAssumption DEF remove_noop, HoldsLease, NoGeneration, NoJob,
         EmptyData, TypeOK, GenRow, JobRow, TimeKept, NotRegressed, Active,
         ActiveStates, Time
<1>5. ASSUME NEW g \in Gens, NEW ready \in Gens, NEW cloned \in SUBSET Units,
             clone_unaffected_ready_facts(g, ready, cloned)
      PROVE  TimeKept
  BY <1>5, <1>b DEF clone_unaffected_ready_facts
<1>6. ASSUME NEW j \in Jobs, NEW o \in Owners, NEW work \in SUBSET Units,
             persist_refresh_work_plan(j, o, work)
      PROVE  TimeKept
  BY <1>6, JobsAssumption DEF persist_refresh_work_plan, ActiveJobScope,
         HoldsLease, TypeOK, JobRow, TimeKept, NotRegressed, Active,
         ActiveStates, Time
<1>7. ASSUME NEW j \in Jobs, NEW o \in Owners, NEW next \in Stages,
             NEW now \in Time, checkpoint_plan(j, o, next, now)
      PROVE  TimeKept
  BY <1>7, JobsAssumption DEF checkpoint_plan, HoldsLease, TypeOK, JobRow,
         TimeKept, NotRegressed, Active,
         ActiveStates, Time
<1>8. ASSUME NEW j \in Jobs, NEW o \in Owners, NEW u \in Units,
             parse_item(j, o, u)
      PROVE  TimeKept
  BY <1>8, JobsAssumption DEF parse_item, ActiveJobScope, HoldsLease, TypeOK,
         GenRow, JobRow, TimeKept, NotRegressed, Active,
         ActiveStates, Time
<1>9. ASSUME NEW j \in Jobs, NEW o \in Owners, NEW now \in Time,
              finish_parse(j, o, now)
       PROVE  TimeKept
  BY <1>9, JobsAssumption DEF finish_parse, HoldsLease, TypeOK, JobRow,
         TimeKept, NotRegressed, Active,
         ActiveStates, Time
<1>10. ASSUME NEW j \in Jobs, NEW o \in Owners, NEW now \in Time,
              link_generation(j, o, now)
       PROVE  TimeKept
  BY <1>10, JobsAssumption DEF link_generation, Build, OwnsStage, HoldsLease,
         TypeOK, GenRow, JobRow, TimeKept, NotRegressed, Active,
         ActiveStates, Time
<1>11. ASSUME NEW j \in Jobs, NEW o \in Owners, NEW now \in Time,
              derive_template_candidates(j, o, now)
       PROVE  TimeKept
  BY <1>11, JobsAssumption DEF derive_template_candidates, Build, OwnsStage,
         HoldsLease, TypeOK, GenRow, JobRow, TimeKept, NotRegressed, Active,
         ActiveStates, Time
<1>12. ASSUME NEW j \in Jobs, NEW o \in Owners, NEW now \in Time,
              finalize_synthesis_catalog(j, o, now)
       PROVE  TimeKept
  BY <1>12, JobsAssumption DEF finalize_synthesis_catalog, Build, OwnsStage,
         HoldsLease, TypeOK, GenRow, JobRow, TimeKept, NotRegressed, Active,
         ActiveStates, Time
<1>13. ASSUME NEW j \in Jobs, NEW o \in Owners, NEW now \in Time,
              validate_generation_for_publication(j, o, now)
       PROVE  TimeKept
  BY <1>13, JobsAssumption DEF validate_generation_for_publication, OwnsStage,
         HoldsLease, TypeOK, JobRow, TimeKept, NotRegressed, Active,
         ActiveStates, Time
<1>14. ASSUME NEW j \in Jobs, NEW o \in Owners, NEW now \in Time,
              publish_generation(j, o, now)
       PROVE  TimeKept
  BY <1>14, JobsAssumption DEF publish_generation, OwnsStage, HoldsLease,
         TypeOK, GenRow, JobRow, RepoRow, TimeKept, NotRegressed, Active,
         ActiveStates, Time
<1>15. ASSUME NEW j \in Jobs, NEW o \in Owners, NEW next \in Stages,
              NEW now \in Time, checkpoint_job(j, o, next, now)
       PROVE  TimeKept
  BY <1>15, JobsAssumption DEF checkpoint_job, StageProgression, GenericNext,
         TypeOK, JobRow, TimeKept, NotRegressed, Active,
         ActiveStates, Time
<1>16. ASSUME NEW j \in Jobs, NEW o \in Owners, NEW now \in Time,
              heartbeat_job(j, o, now)
       PROVE  TimeKept
  BY <1>16, JobsAssumption DEF heartbeat_job, TypeOK, JobRow,
         TimeKept, NotRegressed, Active,
         ActiveStates, Time
<1>17. ASSUME NEW j \in Jobs, NEW o \in Owners, NEW now \in Time,
              pause_job(j, o, now)
       PROVE  TimeKept
  BY <1>17, JobsAssumption DEF pause_job, transition_state, TypeOK, JobRow,
         TimeKept, NotRegressed, Active,
         ActiveStates, Time
<1>18. ASSUME NEW j \in Jobs, NEW o \in Owners, NEW now \in Time,
              resume_job(j, o, now)
       PROVE  TimeKept
  BY <1>18, JobsAssumption DEF resume_job, transition_state, TypeOK, JobRow,
         TimeKept, NotRegressed, Active,
         ActiveStates, Time
<1>19. ASSUME NEW j \in Jobs, NEW o \in Owners, NEW now \in Time,
              request_cancel(j, o, now)
       PROVE  TimeKept
  BY <1>19, JobsAssumption DEF request_cancel, TypeOK, JobRow,
         TimeKept, NotRegressed, Active,
         ActiveStates, Time
<1>20. ASSUME NEW j \in Jobs, NEW o \in Owners, NEW now \in Time,
              acknowledge_cancel(j, o, now)
       PROVE  TimeKept
  BY <1>20, JobsAssumption DEF acknowledge_cancel, finish_job,
         update_staging_generation, TypeOK, GenRow, JobRow,
         TimeKept, NotRegressed, Active,
         ActiveStates, Time
<1>21. ASSUME NEW j \in Jobs, NEW o \in Owners, NEW now \in Time,
              fail_job(j, o, now)
       PROVE  TimeKept
  BY <1>21, JobsAssumption DEF fail_job, finish_job, update_staging_generation,
         TypeOK, GenRow, JobRow, TimeKept, NotRegressed, Active,
         ActiveStates, Time
<1>22. ASSUME NEW j \in Jobs, NEW o \in Owners, NEW now \in Time,
              complete_job(j, o, now)
       PROVE  TimeKept
  BY <1>22, JobsAssumption DEF complete_job, OwnsStage, HoldsLease, TypeOK,
         JobRow, TimeKept, NotRegressed, Active,
         ActiveStates, Time
<1>23. ASSUME NEW j \in Jobs, NEW o \in Owners, NEW staleBefore \in Time,
              NEW now \in Time, recover_stale_job(j, o, staleBefore, now)
       PROVE  TimeKept
  BY <1>23, JobsAssumption DEF recover_stale_job, TypeOK, JobRow,
         TimeKept, NotRegressed, Active,
         ActiveStates, Time
<1>24. ASSUME NEW j \in Jobs, NEW o \in Owners,
              NEW retain \in 0 .. CleanupBatch, NEW kept \in SUBSET Gens,
              NEW batch \in SUBSET Gens, NEW now \in Time,
              cleanup_generations(j, o, retain, kept, batch, now)
       PROVE  TimeKept
  <2>1. \A i \in Jobs : job'[i].updated =
                           IF i = j THEN now ELSE job[i].updated
    <3> SUFFICES ASSUME NEW i \in Jobs
                 PROVE  job'[i].updated = IF i = j THEN now ELSE job[i].updated
      OBVIOUS
    <3> DEFINE x == IF job[i].gen \in batch THEN NoGen ELSE job[i].gen
               t == IF i = j THEN now ELSE job[i].updated
    <3>1. job'[i] = [job[i] EXCEPT !.gen = x, !.updated = t]
      BY <1>24 DEF cleanup_generations
    <3>2. job[i] \in JobRow
      BY DEF TypeOK
    <3> HIDE DEF x, t
    <3>3. job'[i].updated = t
      BY <3>1, <3>2 DEF JobRow
    <3> QED BY <3>3 DEF t
  <2>2. now >= job[j].updated
    BY <1>24 DEF cleanup_generations, authorize_cleanup, NotRegressed
  <2> QED BY <2>1, <2>2, <1>a DEF TimeKept
<1>25. CASE UNCHANGED vars
  BY <1>25, <1>b DEF vars
<1> QED
  BY <1>1, <1>2, <1>3, <1>4, <1>5, <1>6, <1>7, <1>8, <1>9, <1>10, <1>11,
     <1>12, <1>13, <1>14, <1>15, <1>16, <1>17, <1>18, <1>19, <1>20, <1>21,
     <1>22, <1>23, <1>24, <1>25 DEF Next

\* A request for cancellation is never lost and never appears by itself.
THEOREM CancellationCorrect == Spec => []CancellationRecorded
<1>1. JobsInvariant => CancellationRecorded
  BY DEF JobsInvariant
<1> QED BY <1>1, JobsInvariantHolds, PTL

\* A finished job never runs again and never changes hands.
THEOREM FinishedJobsStay == Spec => TerminalJobsFinal
<1>1. TypeOK /\ [Next]_vars =>
        [\A j \in Jobs : Terminal(j) =>
          /\ job'[j].state = job[j].state /\ job'[j].stage = job[j].stage
          /\ job'[j].owner = job[j].owner /\ job'[j].cancel = job[j].cancel]_vars
  BY FinishedStep DEF FinishedKept
<1> QED BY <1>1, JobsTypeCorrect, PTL DEF Spec, TerminalJobsFinal

\* From the link stage on, the time recorded on an active job never decreases.
THEOREM HeartbeatsAdvance == Spec => HeartbeatMonotone
<1>1. TypeOK /\ [Next]_vars =>
        [\A j \in Jobs : Active(j) /\ job[j].stage \notin {"inventory", "parse"}
          => job'[j].updated >= job[j].updated]_vars
  BY TimeStep DEF TimeKept
<1> QED BY <1>1, JobsTypeCorrect, PTL DEF Spec, HeartbeatMonotone

----------------------------------------------------------------------------
(* The store implements ReadyCatalog.                                      *)
(*                                                                         *)
(* Only a staging generation is a draft or sealed, and the one active job  *)
(* holds it.  So a transaction that leaves the status and the revision of  *)
(* every generation alone can at most seal or unseal that one, whatever it *)
(* does to the job and to the content; the transactions left are those     *)
(* that register, start, publish, end and clean up.                        *)

CatalogMove == [Catalog!Next]_(Catalog!catalog)

\* The status readers are promised, by the status of the row.
StatusIs(g) ==
    /\ gen[g].status = "staging"
         => CatalogStatus(g) = IF SealedGen(g) THEN "sealed" ELSE "draft"
    /\ gen[g].status \in {"failed", "cancelled"} => CatalogStatus(g) = "discarded"
    /\ gen[g].status \in {"absent", "ready", "superseded"}
         => CatalogStatus(g) = gen[g].status

\* Before and after a step.
LEMMA StatusValue ==
    ASSUME TypeOK, TypeOK', NEW g \in Gens
    PROVE  StatusIs(g) /\ StatusIs(g)'
<1>1. ASSUME TypeOK
      PROVE  StatusIs(g)
  <2>1. gen[g].status \in {"absent", "staging", "ready", "failed", "cancelled",
                           "superseded"}
    BY <1>1 DEF TypeOK, GenRow
  <2> QED BY <2>1 DEF StatusIs, CatalogStatus
<1>2. ASSUME TypeOK'
      PROVE  StatusIs(g)'
  <2>1. gen'[g].status \in {"absent", "staging", "ready", "failed", "cancelled",
                            "superseded"}
    BY <1>2 DEF TypeOK, GenRow
  <2> QED BY <2>1 DEF StatusIs, CatalogStatus
<1> QED BY <1>1, <1>2

\* There is one staging generation at most.
LEMMA OneStaging ==
    ASSUME LeaseConsistent, NEW g \in Gens, NEW h \in Gens,
           gen[g].status = "staging", gen[h].status = "staging"
    PROVE  g = h
  BY DEF LeaseConsistent

\* The mapped variables after a step that moves the status of one generation.
LEMMA MovesOne ==
    ASSUME NEW g \in Gens,
           \A h \in Gens \ {g} : CatalogStatus(h)' = CatalogStatus(h)
    PROVE  [h \in Gens |-> CatalogStatus(h)]'
             = [[h \in Gens |-> CatalogStatus(h)] EXCEPT ![g] = CatalogStatus(g)']
  OBVIOUS

\* A transaction that changes neither the repository nor the status or the
\* revision of any generation seals or unseals the staging one, or is not
\* visible at all.
LEMMA InsideStep ==
    ASSUME JobsInvariant, JobsInvariant', UNCHANGED repo,
           \A g \in Gens : /\ gen'[g].status = gen[g].status
                           /\ gen'[g].revision = gen[g].revision
    PROVE  CatalogMove
<1>1. TypeOK /\ TypeOK' /\ LeaseConsistent
  BY DEF JobsInvariant
<1>2. [g \in Gens |-> gen[g].revision]' = [g \in Gens |-> gen[g].revision]
  OBVIOUS
<1>3. CASE \A g \in Gens : CatalogStatus(g)' = CatalogStatus(g)
  <2>1. [g \in Gens |-> CatalogStatus(g)]' = [g \in Gens |-> CatalogStatus(g)]
    BY <1>3
  <2> QED BY <1>2, <2>1 DEF CatalogMove, Catalog!catalog
<1>4. ASSUME NEW g \in Gens, CatalogStatus(g)' # CatalogStatus(g)
      PROVE  CatalogMove
  <2>1. gen[g].status = "staging"
    BY <1>1, <1>4, StatusValue DEF StatusIs, TypeOK, GenRow
  <2>2. \A h \in Gens \ {g} : CatalogStatus(h)' = CatalogStatus(h)
    BY <1>1, <2>1, OneStaging, StatusValue DEF StatusIs, TypeOK, GenRow
  <2>3. \/ CatalogStatus(g) = "draft" /\ CatalogStatus(g)' = "sealed"
        \/ CatalogStatus(g) = "sealed" /\ CatalogStatus(g)' = "draft"
    BY <1>1, <1>4, <2>1, StatusValue DEF StatusIs
  <2>4. Catalog!Reseal(g, "draft", "sealed") \/ Catalog!Reseal(g, "sealed", "draft")
    BY <1>2, <2>2, <2>3, MovesOne DEF Catalog!Reseal
  <2> QED BY <2>4 DEF CatalogMove, Catalog!Next
<1> QED BY <1>3, <1>4

\* A generation that is not staging keeps its promised status with its row.
LEMMA StatusKept ==
    ASSUME NEW g \in Gens, gen'[g].status = gen[g].status,
           gen[g].status # "staging"
    PROVE  CatalogStatus(g)' = CatalogStatus(g)
  BY DEF CatalogStatus

\* start_job drafts a generation.
LEMMA StartDrafts ==
    ASSUME JobsInvariant, JobsInvariant', NEW j \in Jobs, NEW g \in Gens,
           NEW o \in Owners, NEW r \in Revisions, NEW now \in Time,
           start_job(j, g, o, r, now)
    PROVE  Catalog!Draft(g, r)
<1>1. TypeOK /\ TypeOK' /\ LeaseConsistent /\ LeaseConsistent'
  BY DEF JobsInvariant
<1>2. /\ gen[g].status = "absent"
      /\ gen'[g].status = "staging" /\ gen'[g].revision = r
      /\ \A h \in Gens \ {g} : gen'[h] = gen[h]
  BY <1>1 DEF start_job, NoGeneration, TypeOK
<1>3. \A h \in Gens : gen[h].status # "staging"
  BY <1>1 DEF start_job, LeaseConsistent
<1>4. \A h \in Gens \ {g} : CatalogStatus(h)' = CatalogStatus(h)
  BY <1>2, <1>3, StatusKept
<1>5. ~SealedGen(g)'
  <2>1. job'[j].stage = "inventory" /\ \A i \in Jobs \ {j} : job'[i] = job[i]
    BY <1>1 DEF start_job, NoJob, TypeOK
  <2>2. \A i \in Jobs \ {j} : ~Active(i)'
    BY <2>1 DEF start_job, Active
  <2> QED BY <2>1, <2>2 DEF SealedGen
<1>6. CatalogStatus(g) = "absent" /\ CatalogStatus(g)' = "draft"
  BY <1>1, <1>2, <1>5, StatusValue DEF StatusIs
<1>7. [h \in Gens |-> gen[h].revision]'
        = [[h \in Gens |-> gen[h].revision] EXCEPT ![g] = r]
  BY <1>2
<1> QED BY <1>4, <1>6, <1>7, MovesOne DEF Catalog!Draft, start_job

\* acknowledge_cancel and fail_job discard the staging generation, and leave
\* a published one alone.
LEMMA FinishDiscards ==
    ASSUME JobsInvariant, JobsInvariant', NEW j \in Jobs, NEW o \in Owners,
           NEW from, NEW to \in {"cancelled", "failed"}, NEW now \in Time,
           finish_job(j, o, from, to, now)
    PROVE  CatalogMove
<1>1. TypeOK /\ TypeOK' /\ LeaseConsistent
  BY DEF JobsInvariant
<1>2. CASE UNCHANGED gen
  BY <1>2, InsideStep DEF finish_job
<1>3. CASE /\ GenStatus(j, "staging")
           /\ gen' = [gen EXCEPT ![job[j].gen].status = to]
  <2>1. PICK g \in Gens : g = job[j].gen /\ gen[g].status = "staging"
    BY <1>3 DEF GenStatus
  <2>2. /\ gen'[g].status = to /\ gen'[g].revision = gen[g].revision
        /\ \A h \in Gens \ {g} : gen'[h] = gen[h]
    BY <1>1, <1>3, <2>1 DEF TypeOK, GenRow
  <2>3. \A h \in Gens \ {g} : CatalogStatus(h)' = CatalogStatus(h)
    BY <1>1, <2>1, <2>2, OneStaging, StatusKept
  <2>4. CatalogStatus(g) \in {"draft", "sealed"} /\ CatalogStatus(g)' = "discarded"
    BY <1>1, <2>1, <2>2, StatusValue DEF StatusIs
  <2>5. [h \in Gens |-> gen[h].revision]' = [h \in Gens |-> gen[h].revision]
    BY <2>2
  <2>6. Catalog!Discard(g)
    BY <2>1, <2>3, <2>4, <2>5, MovesOne DEF Catalog!Discard, finish_job
  <2> QED BY <2>1, <2>6 DEF CatalogMove, Catalog!Next
<1> QED BY <1>2, <1>3 DEF finish_job, update_staging_generation

\* remove_noop and cleanup_generations delete rows no reader follows.
LEMMA DeletionRemoves ==
    ASSUME JobsInvariant, JobsInvariant', UNCHANGED repo,
           NEW S \in SUBSET Gens,
           gen' = [g \in Gens |-> IF g \in S THEN NoGeneration ELSE gen[g]],
           \A g \in S : gen[g].status \in {"staging", "failed", "cancelled",
                                           "superseded"},
           \A g \in Gens \ S : SealedGen(g)' <=> SealedGen(g)
    PROVE  CatalogMove
<1>1. TypeOK /\ TypeOK'
  BY DEF JobsInvariant
<1>2. \A g \in S : CatalogStatus(g) \in {"draft", "sealed", "discarded", "superseded"}
  BY <1>1, StatusValue DEF StatusIs
<1>3. \A g \in S : CatalogStatus(g)' = "absent"
  BY <1>1, StatusValue DEF StatusIs, NoGeneration
<1>4. \A g \in Gens \ S : CatalogStatus(g)' = CatalogStatus(g)
  BY <1>1, StatusValue DEF StatusIs, TypeOK, GenRow
<1>5. \A g \in Gens : gen'[g].revision = IF g \in S THEN NoRev ELSE gen[g].revision
  BY DEF NoGeneration
<1>6. Catalog!Remove(S)
  BY <1>2, <1>3, <1>4, <1>5 DEF Catalog!Remove
<1> QED BY <1>6 DEF CatalogMove, Catalog!Next

\* publish_generation publishes a sealed generation of the registered revision.
LEMMA PublishPublishes ==
    ASSUME JobsInvariant, JobsInvariant', NEW j \in Jobs, NEW o \in Owners,
           NEW now \in Time, publish_generation(j, o, now)
    PROVE  \E g \in Gens : Catalog!Publish(g)
<1>1. TypeOK /\ TypeOK' /\ LeaseConsistent /\ ReadyPointerConsistent
  BY DEF JobsInvariant
<1>2. PICK g \in Gens :
        g = job[j].gen /\ gen[g].status = "staging" /\ SealedGen(g)
  BY DEF publish_generation, GenStatus, SealedGen, OwnsStage, HoldsLease,
         ReceiptVerifies, Active, ActiveStates
<1>3. g # repo.ready
  BY <1>1, <1>2 DEF ReadyPointerConsistent
<1>4. /\ gen'[g] = [gen[g] EXCEPT !.status = "ready"]
      /\ \A h \in Gens \ {g} :
           gen'[h] = IF h = repo.ready THEN [gen[h] EXCEPT !.status = "superseded"]
                                       ELSE gen[h]
  <2>1. \A h \in Gens : gen'[h] =
          CASE h = g          -> [gen[h] EXCEPT !.status = "ready"]
            [] h = repo.ready -> [gen[h] EXCEPT !.status = "superseded"]
            [] OTHER          -> gen[h]
    BY <1>2 DEF publish_generation
  <2> QED BY <1>3, <2>1
<1>5. \A h \in Gens : gen'[h].revision = gen[h].revision
  BY <1>1, <1>4 DEF TypeOK, GenRow
<1>6. CatalogStatus(g) = "sealed" /\ CatalogStatus(g)' = "ready"
  BY <1>1, <1>2, <1>4, StatusValue DEF StatusIs, TypeOK, GenRow
<1>7. \A h \in Gens \ {g} :
        CatalogStatus(h)' = IF h = repo.ready THEN "superseded" ELSE CatalogStatus(h)
  <2> SUFFICES ASSUME NEW h \in Gens \ {g}
               PROVE  CatalogStatus(h)' = IF h = repo.ready THEN "superseded"
                                                            ELSE CatalogStatus(h)
    OBVIOUS
  <2>1. CASE h = repo.ready
    <3>1. gen'[h].status = "superseded"
      BY <1>1, <1>4, <2>1 DEF TypeOK, GenRow
    <3> QED BY <1>1, <2>1, <3>1, StatusValue DEF StatusIs
  <2>2. CASE h # repo.ready
    BY <1>1, <1>2, <1>4, <2>2, OneStaging, StatusKept
  <2> QED BY <2>1, <2>2
<1>8. repo'.ready = g /\ repo'.current = repo.current
        /\ repo.current = gen[g].revision
  BY <1>1, <1>2 DEF publish_generation, TypeOK, RepoRow
<1> QED BY <1>2, <1>5, <1>6, <1>7, <1>8 DEF Catalog!Publish

\* Status and revision of every generation are left alone.
RowsKept ==
    /\ UNCHANGED repo
    /\ \A g \in Gens : /\ gen'[g].status = gen[g].status
                       /\ gen'[g].revision = gen[g].revision

\* Every transaction is one move of the catalog, or none.
LEMMA StepMoves ==
    ASSUME JobsInvariant, JobsInvariant', [Next]_vars
    PROVE  CatalogMove
<1>0. TypeOK /\ RowsKept => CatalogMove
  BY InsideStep DEF RowsKept
<1> USE DEF JobsInvariant
<1>1. ASSUME NEW r \in Revisions, NEW now \in Time, register_inventory(r, now)
      PROVE  CatalogMove
  <2>1. /\ repo'.current = r /\ repo'.ready = repo.ready
        /\ UNCHANGED <<gen, job>>
    BY <1>1 DEF register_inventory, TypeOK, RepoRow
  <2>2. \A g \in Gens : CatalogStatus(g)' = CatalogStatus(g)
    BY <2>1 DEF CatalogStatus, SealedGen, Active
  <2>3. Catalog!Register(r)
    BY <2>1, <2>2 DEF Catalog!Register
  <2> QED BY <2>3 DEF CatalogMove, Catalog!Next
<1>2. ASSUME NEW j \in Jobs, NEW g \in Gens, NEW o \in Owners,
             NEW r \in Revisions, NEW now \in Time, start_job(j, g, o, r, now)
      PROVE  CatalogMove
  <2>1. Catalog!Draft(g, r)
    BY <1>2, StartDrafts
  <2> QED BY <2>1 DEF CatalogMove, Catalog!Next
<1>3. ASSUME NEW j \in Jobs, NEW o \in Owners, remove_noop(j, o)
      PROVE  CatalogMove
  <2>1. PICK g \in Gens : g = job[j].gen /\ gen[g].status = "staging"
    BY <1>3 DEF remove_noop, GenStatus
  <2>2. gen' = [h \in Gens |-> IF h \in {g} THEN NoGeneration ELSE gen[h]]
    BY <1>3, <2>1 DEF remove_noop, TypeOK
  <2>3. Active(j) /\ \A i \in Jobs : Active(i) => i = j
    BY <1>3 DEF remove_noop, HoldsLease, Active, ActiveStates, LeaseConsistent
  <2>4. \A i \in Jobs : ~Active(i)'
    BY <1>3, <2>3 DEF remove_noop, NoJob, Active, ActiveStates, TypeOK
  <2>5. \A h \in Gens \ {g} : ~SealedGen(h)
    BY <2>1, <2>3 DEF SealedGen
  <2>6. \A h \in Gens \ {g} : ~SealedGen(h)'
    BY <2>4 DEF SealedGen, Active
  <2> QED BY <1>3, <2>1, <2>2, <2>5, <2>6, DeletionRemoves DEF remove_noop
<1>4. ASSUME NEW j \in Jobs, NEW o \in Owners, NEW retain \in 0 .. CleanupBatch,
             NEW kept \in SUBSET Gens, NEW batch \in SUBSET Gens, NEW now \in Time,
             cleanup_generations(j, o, retain, kept, batch, now)
      PROVE  CatalogMove
  <2>1. gen' = [g \in Gens |-> IF g \in batch THEN NoGeneration ELSE gen[g]]
    BY <1>4 DEF cleanup_generations
  <2>2. \A g \in batch :
          gen[g].status \in {"staging", "failed", "cancelled", "superseded"}
    BY <1>4 DEF cleanup_generations, OldestBatch, cleanup_candidates,
         OwnedByTerminalJob, Superseded, Unreferenced
  <2>3. \A g \in Gens \ batch : SealedGen(g)' <=> SealedGen(g)
    <3>1. \A i \in Jobs : /\ job'[i].state = job[i].state
                          /\ job'[i].stage = job[i].stage
                          /\ job'[i].receipt = job[i].receipt
                          /\ job[i].state \in ActiveStates
                               => job'[i].gen = job[i].gen
      <4>1. \A i \in Jobs : job'[i].state = job[i].state
                              /\ job'[i].stage = job[i].stage
                              /\ (job[i].state \in ActiveStates
                                    => job'[i].gen = job[i].gen)
        BY <1>4, CleanupEffect
      <4>2. \A i \in Jobs : job'[i].receipt = job[i].receipt
        BY <1>4 DEF cleanup_generations, TypeOK, JobRow
      <4> QED BY <4>1, <4>2
    <3> QED BY <2>1, <3>1 DEF SealedGen, Active
  <2> QED BY <1>4, <2>1, <2>2, <2>3, DeletionRemoves DEF cleanup_generations
<1>5. ASSUME NEW j \in Jobs, NEW o \in Owners, NEW now \in Time,
             publish_generation(j, o, now)
      PROVE  CatalogMove
  <2>1. \E g \in Gens : Catalog!Publish(g)
    BY <1>5, PublishPublishes
  <2> QED BY <2>1 DEF CatalogMove, Catalog!Next
<1>6. ASSUME NEW j \in Jobs, NEW o \in Owners, NEW now \in Time,
             acknowledge_cancel(j, o, now) \/ fail_job(j, o, now)
      PROVE  CatalogMove
  BY <1>6, FinishDiscards DEF acknowledge_cancel, fail_job
<1>7. ASSUME UNCHANGED repo, UNCHANGED gen
      PROVE  CatalogMove
  BY <1>0, <1>7 DEF RowsKept
<1>8. ASSUME NEW g \in Gens, NEW d, UNCHANGED repo,
             gen' = [gen EXCEPT ![g].data = d]
      PROVE  CatalogMove
  BY <1>0, <1>8 DEF RowsKept, TypeOK, GenRow
<1>9. CASE UNCHANGED vars
  BY <1>7, <1>9 DEF vars
<1>10. ASSUME NEW j \in Jobs, NEW o \in Owners,
              \/ persist_manifest(j, o)
              \/ \E u \in Units : parse_item(j, o, u)
              \/ \E now \in Time : \/ link_generation(j, o, now)
                                   \/ derive_template_candidates(j, o, now)
                                   \/ finalize_synthesis_catalog(j, o, now)
       PROVE  CatalogMove
  <2>1. /\ UNCHANGED repo /\ job[j].gen \in Gens
        /\ \E d : gen' = [gen EXCEPT ![job[j].gen].data = d]
    BY <1>10 DEF persist_manifest, parse_item, ActiveJobScope, GenStatus,
         link_generation, derive_template_candidates,
         finalize_synthesis_catalog, Build
  <2> QED BY <1>8, <2>1
<1>11. ASSUME NEW g \in Gens, NEW ready \in Gens, NEW cloned \in SUBSET Units,
              clone_unaffected_ready_facts(g, ready, cloned)
       PROVE  CatalogMove
  BY <1>8, <1>11 DEF clone_unaffected_ready_facts
<1>12. ASSUME NEW j \in Jobs, NEW o \in Owners,
              \/ \E work \in SUBSET Units : persist_refresh_work_plan(j, o, work)
              \/ \E next \in Stages, now \in Time :
                    checkpoint_plan(j, o, next, now) \/ checkpoint_job(j, o, next, now)
              \/ \E now \in Time :
                    \/ finish_parse(j, o, now) \/ heartbeat_job(j, o, now)
                    \/ validate_generation_for_publication(j, o, now)
                    \/ pause_job(j, o, now) \/ resume_job(j, o, now)
                    \/ request_cancel(j, o, now) \/ complete_job(j, o, now)
              \/ \E staleBefore, now \in Time :
                    recover_stale_job(j, o, staleBefore, now)
       PROVE  CatalogMove
  BY <1>7, <1>12 DEF persist_refresh_work_plan, checkpoint_plan, checkpoint_job,
       finish_parse, heartbeat_job, validate_generation_for_publication,
       pause_job, resume_job, transition_state, request_cancel, complete_job,
       recover_stale_job
<1> HIDE DEF JobsInvariant
<1> QED
  BY <1>1, <1>2, <1>3, <1>4, <1>5, <1>6, <1>9, <1>10, <1>11, <1>12 DEF Next

\* The empty store is the empty catalog.
LEMMA InitCatalog ==
    ASSUME Init
    PROVE  Catalog!Init
<1>1. \A g \in Gens : CatalogStatus(g) = "absent" /\ gen[g].revision = NoRev
  BY DEF Init, CatalogStatus, NoGeneration
<1> QED BY <1>1 DEF Init, Catalog!Init

\* Whatever the interleaving of cancellations, failures, recoveries and
\* cleanups, readers see what ReadyCatalog promises: the ready generation is
\* replaced only by the publication, in one step, of a generation that was
\* sealed for the revision registered at that moment.
THEOREM JobsImplementCatalog == Spec => ImplementsCatalog
<1>1. Init => Catalog!Init
  BY InitCatalog
<1>2. JobsInvariant /\ JobsInvariant' /\ [Next]_vars
        => [Catalog!Next]_(Catalog!catalog)
  BY StepMoves DEF CatalogMove
<1> QED BY <1>1, <1>2, JobsInvariantHolds, PTL
     DEF Spec, ImplementsCatalog, Catalog!Spec
=============================================================================
