--------------------------- MODULE ArchaeologyJobs ---------------------------
(***************************************************************************)
(* The archaeology job store of one repository: the rows of                *)
(* archaeology_repositories, archaeology_generations and archaeology_jobs  *)
(* and every transaction of jobs.rs that changes them.  One action is one  *)
(* SQLite transaction or one autocommitted statement; its guard is the     *)
(* WHERE clause of the compare-and-set plus the early returns before it,   *)
(* and a refused transaction rolls back, so it is no step at all.          *)
(*                                                                         *)
(* Callers are arbitrary: any owner token, any job and any timestamp may   *)
(* be passed to any transaction at any moment.  Who calls what in which    *)
(* order is the subject of ArchaeologyRefresh.                             *)
(*                                                                         *)
(* Data kept: the identity of a generation is its revision (parser and     *)
(* algorithm identities are constants of the build, source and config      *)
(* identities are digests of the tree at the revision, inventory.rs:243).  *)
(* The content of a generation is which products it holds.  Rows, digests, *)
(* counters of completed units and error texts are left out.               *)
(***************************************************************************)
EXTENDS Naturals, FiniteSets

CONSTANTS
    Jobs,         \* job ids (fresh UUIDs; an id is used once at a time)
    Gens,         \* generation ids (fresh UUIDs)
    Owners,       \* owner tokens that hold the lease of a job
    Revisions,    \* Git revisions of the repository
    Units,        \* source units of the repository
    MaxTime,      \* bound on the timestamps callers pass
    CleanupBatch, \* MAX_CLEANUP_GENERATIONS
    NoGen, NoRev, NoOwner, NoReceipt

ASSUME JobsAssumption ==
    /\ MaxTime \in Nat
    /\ CleanupBatch \in Nat
    /\ NoGen \notin Gens
    /\ NoRev \notin Revisions
    /\ NoOwner \notin Owners

Time == 0 .. MaxTime

Stages == {"inventory", "parse", "link", "derive", "synthesize",
           "validate", "publish", "cleanup", "idle"}

\* 'pending' and 'unavailable' are legal in the schema and never written.
ActiveStates == {"running", "paused", "cancelling"}
TerminalStates == {"completed", "failed", "cancelled"}

\* What a generation holds besides the facts of its source units.
Products == {"manifest", "link", "derive", "catalog"}

(***************************************************************************)
(* The part of a generation that the validation receipt seals.  `lineage`  *)
(* are the units whose include_lineage_json is what their adapter found;   *)
(* `late` are those whose facts were written after the linker had read     *)
(* them.                                                                   *)
(***************************************************************************)
Seals == [built : SUBSET Products, parsed : SUBSET Units,
          lineage : SUBSET Units, late : SUBSET Units]

ASSUME ReceiptAssumption == NoReceipt \notin Seals

VARIABLES
    repo,   \* the archaeology_repositories row
    gen,    \* archaeology_generations, "absent" when there is no row
    job     \* archaeology_jobs, "absent" when there is no row

vars == <<repo, gen, job>>

RepoRow == [current : Revisions \cup {NoRev}, ready : Gens \cup {NoGen},
            updated : Time]

GenRow == [status : {"absent", "staging", "ready", "failed", "cancelled",
                     "superseded"},
           revision : Revisions \cup {NoRev}, created : Time,
           data : Seals]

JobRow == [state : ActiveStates \cup TerminalStates \cup {"absent"},
           stage : Stages, gen : Gens \cup {NoGen},
           owner : Owners \cup {NoOwner}, cancel : BOOLEAN,
           updated : Time, plan : SUBSET Units, work : SUBSET Units,
           receipt : Seals \cup {NoReceipt}]

TypeOK ==
    /\ repo \in RepoRow
    /\ gen \in [Gens -> GenRow]
    /\ job \in [Jobs -> JobRow]

EmptyData == [built |-> {}, parsed |-> {}, lineage |-> {}, late |-> {}]

NoGeneration == [status |-> "absent", revision |-> NoRev, created |-> 0,
                 data |-> EmptyData]

NoJob == [state |-> "absent", stage |-> "idle", gen |-> NoGen,
          owner |-> NoOwner, cancel |-> FALSE, updated |-> 0, plan |-> {},
          work |-> {}, receipt |-> NoReceipt]

Init ==
    /\ repo = [current |-> NoRev, ready |-> NoGen, updated |-> 0]
    /\ gen = [g \in Gens |-> NoGeneration]
    /\ job = [j \in Jobs |-> NoJob]

----------------------------------------------------------------------------
(* Conditions shared by the WHERE clauses.                                 *)

Active(j) == job[j].state \in ActiveStates
Terminal(j) == job[j].state \in TerminalStates

\* The generation of job j has a row with this status.
GenStatus(j, s) == job[j].gen \in Gens /\ gen[job[j].gen].status = s

\* owner_id = o AND state = 'running' AND cancellation_requested = 0
HoldsLease(j, o) ==
    job[j].owner = o /\ job[j].state = "running" /\ ~job[j].cancel

\* julianday(now) >= julianday(updated_at)
NotRegressed(j, now) == now >= job[j].updated

\* require_active_job_scope
ActiveJobScope(j, o) == HoldsLease(j, o) /\ GenStatus(j, "staging")

\* The stage transactions: the lease, the stage and the clock all agree.
OwnsStage(j, o, stage, now) ==
    HoldsLease(j, o) /\ job[j].stage = stage /\ NotRegressed(j, now)

\* Mutants: the parser check or the manifest check is lost.
Integrity_NoParserCheck(g) == "manifest" \in gen[g].data.built
Integrity_NoManifest(g) == gen[g].data.parsed = Units

\* validate_integrity: a unit that no adapter parsed carries the parser id
\* 'inventory:pending', which is outside the parser manifest.
Integrity(g) ==
    "manifest" \in gen[g].data.built /\ gen[g].data.parsed = Units

\* validate_ready_pointer: as many ready rows as the pointer names, and it.
ReadyPointerAgrees ==
    {g \in Gens : gen[g].status = "ready"} =
        IF repo.ready = NoGen THEN {} ELSE {repo.ready}

----------------------------------------------------------------------------
(* Starting and preparing a refresh.                                       *)

\* run_inventory_refresh registers the inventoried revision before any job
\* exists, in a statement of its own that no lease and no clock guards.
register_inventory(r, now) ==
    /\ repo' = [repo EXCEPT !.current = r, !.updated = now]
    /\ UNCHANGED <<gen, job>>

\* The two inserts of one transaction; the unique indexes on the active job
\* of a repository and on the identity of a staging or ready generation.
start_job(j, g, o, r, now) ==
    /\ repo.current # NoRev
    /\ job[j].state = "absent" /\ gen[g].status = "absent"
    /\ \A i \in Jobs : ~Active(i)
    /\ \A h \in Gens : gen[h].status \in {"staging", "ready"}
                          => gen[h].revision # r
    /\ gen' = [gen EXCEPT ![g] = [NoGeneration EXCEPT !.status = "staging",
                                     !.revision = r, !.created = now]]
    /\ job' = [job EXCEPT ![j] = [NoJob EXCEPT !.state = "running",
                                     !.stage = "inventory", !.gen = g,
                                     !.owner = o, !.updated = now]]
    /\ UNCHANGED repo

\* First transaction of prepare_incremental_refresh: replace source units.
persist_manifest(j, o) ==
    /\ HoldsLease(j, o) /\ job[j].stage = "inventory" /\ job[j].gen \in Gens
    /\ gen' = [gen EXCEPT ![job[j].gen].data =
                             [EmptyData EXCEPT !.built = {"manifest"}]]
    /\ UNCHANGED <<repo, job>>

\* Mutant: only the job row is deleted.
remove_noop_LeavesGeneration(j, o) ==
    /\ HoldsLease(j, o) /\ job[j].stage = "inventory"
    /\ job' = [job EXCEPT ![j] = NoJob]
    /\ UNCHANGED <<repo, gen>>

\* The no-op plan removes the job and its staging generation together.
remove_noop(j, o) ==
    /\ HoldsLease(j, o) /\ job[j].stage = "inventory"
    /\ GenStatus(j, "staging")
    /\ gen' = [gen EXCEPT ![job[j].gen] = NoGeneration]
    /\ job' = [job EXCEPT ![j] = NoJob]
    /\ UNCHANGED repo

\* Facts of the units outside the plan are copied from the ready generation;
\* their lineage, which names source units of that generation, is emptied.
\* With no prior generation the call writes nothing.
clone_unaffected_ready_facts(g, ready, cloned) ==
    /\ gen[g].status = "staging"
    /\ gen[ready].status = "ready"
    /\ gen' = [gen EXCEPT ![g].data =
                 [@ EXCEPT !.parsed = cloned,
                           !.lineage = gen[g].data.lineage \ cloned]]
    /\ UNCHANGED <<repo, job>>

\* The first plan of a job inserts its work items, all pending; the same plan
\* again changes nothing and a different one is refused.
persist_refresh_work_plan(j, o, work) ==
    /\ ActiveJobScope(j, o)
    /\ job[j].plan \in {{}, work}
    /\ job' = [job EXCEPT ![j] =
                 [@ EXCEPT !.plan = work,
                           !.work = IF job[j].plan = {} THEN work
                                                        ELSE job[j].work]]
    /\ UNCHANGED <<repo, gen>>

\* Last statement of prepare_incremental_refresh; no clock guard.
checkpoint_plan(j, o, next, now) ==
    /\ HoldsLease(j, o) /\ job[j].stage = "inventory"
    /\ next \in {"parse", "link"}
    /\ job' = [job EXCEPT ![j] =
                 [@ EXCEPT !.stage = next, !.updated = now,
                           !.receipt = NoReceipt]]
    /\ UNCHANGED <<repo, gen>>

----------------------------------------------------------------------------
(* The stages.                                                             *)

\* Mutant: an item is executed again though it is completed.
parse_item_Again(j, o, u) ==
    /\ ActiveJobScope(j, o)
    /\ job' = [job EXCEPT ![j].work = @ \ {u}]
    /\ gen' = [gen EXCEPT ![job[j].gen].data =
                 [built |-> gen[job[j].gen].data.built,
                  parsed |-> gen[job[j].gen].data.parsed \cup {u},
                  lineage |-> gen[job[j].gen].data.lineage \cup {u},
                  late |-> IF "link" \in gen[job[j].gen].data.built
                           THEN gen[job[j].gen].data.late \cup {u}
                           ELSE gen[job[j].gen].data.late]]
    /\ UNCHANGED repo

\* One work item: its output and its completed flag commit together.  The
\* lease is checked, the stage is not; completed = 0 is the only fence.
parse_item(j, o, u) ==
    /\ ActiveJobScope(j, o)
    /\ u \in job[j].work
    /\ job' = [job EXCEPT ![j].work = @ \ {u}]
    /\ gen' = [gen EXCEPT ![job[j].gen].data =
                 [built |-> gen[job[j].gen].data.built,
                  parsed |-> gen[job[j].gen].data.parsed \cup {u},
                  lineage |-> gen[job[j].gen].data.lineage \cup {u},
                  late |-> IF "link" \in gen[job[j].gen].data.built
                           THEN gen[job[j].gen].data.late \cup {u}
                           ELSE gen[job[j].gen].data.late]]
    /\ UNCHANGED repo

\* Mutant: the batch that is done checkpoints, whatever remains.
finish_parse_Early(j, o, now) ==
    /\ HoldsLease(j, o) /\ job[j].stage = "parse"
    /\ job' = [job EXCEPT ![j] =
                 [@ EXCEPT !.stage = "link", !.updated = now]]
    /\ UNCHANGED <<repo, gen>>

\* execute_incremental_parse_batch when no parse item remains.
finish_parse(j, o, now) ==
    /\ HoldsLease(j, o) /\ job[j].stage = "parse" /\ job[j].work = {}
    /\ job' = [job EXCEPT ![j] =
                 [@ EXCEPT !.stage = "link", !.updated = now]]
    /\ UNCHANGED <<repo, gen>>

\* A stage whose output and whose checkpoint are one transaction.
Build(j, o, stage, next, product, now) ==
    /\ OwnsStage(j, o, stage, now) /\ GenStatus(j, "staging")
    /\ gen' = [gen EXCEPT ![job[j].gen].data =
                 [@ EXCEPT !.built = gen[job[j].gen].data.built \cup {product}]]
    /\ job' = [job EXCEPT ![j] =
                 [@ EXCEPT !.stage = next, !.updated = now,
                           !.receipt = NoReceipt]]
    /\ UNCHANGED repo

\* link_generation refuses a unit whose parser is outside the manifest.
link_generation(j, o, now) ==
    /\ job[j].gen \in Gens /\ gen[job[j].gen].data.parsed = Units
    /\ Build(j, o, "link", "derive", "link", now)

derive_template_candidates(j, o, now) ==
    Build(j, o, "derive", "synthesize", "derive", now)

finalize_synthesis_catalog(j, o, now) ==
    Build(j, o, "synthesize", "validate", "catalog", now)

validate_generation_for_publication(j, o, now) ==
    /\ OwnsStage(j, o, "validate", now) /\ GenStatus(j, "staging")
    /\ Integrity(job[j].gen)
    /\ job' = [job EXCEPT ![j] =
                 [@ EXCEPT !.stage = "publish", !.updated = now,
                           !.receipt = gen[job[j].gen].data]]
    /\ UNCHANGED <<repo, gen>>

\* Mutant: the stored receipt is not compared with the rebuilt one.
ReceiptVerifies_NotCompared(j) == Integrity(job[j].gen)

\* verify_validation_receipt: the receipt rebuilt now equals the stored one.
ReceiptVerifies(j) ==
    Integrity(job[j].gen) /\ job[j].receipt = gen[job[j].gen].data

\* Mutant: the pointer update no longer compares current_revision.
publish_generation_AnyRevision(j, o, now) ==
    /\ OwnsStage(j, o, "publish", now) /\ GenStatus(j, "staging")
    /\ ReceiptVerifies(j) /\ ReadyPointerAgrees /\ now >= repo.updated
    /\ job' = [job EXCEPT ![j] =
                 [@ EXCEPT !.stage = "cleanup", !.updated = now]]
    /\ gen' = [g \in Gens |->
                 CASE g = job[j].gen  -> [gen[g] EXCEPT !.status = "ready"]
                   [] g = repo.ready  -> [gen[g] EXCEPT !.status = "superseded"]
                   [] OTHER           -> gen[g]]
    /\ repo' = [repo EXCEPT !.ready = job[j].gen, !.updated = now]

\* The job, the prior generation, the new one and the pointer change in one
\* transaction; any refused compare-and-set rolls all four back.
publish_generation(j, o, now) ==
    /\ OwnsStage(j, o, "publish", now) /\ GenStatus(j, "staging")
    /\ ReceiptVerifies(j)
    /\ ReadyPointerAgrees
    /\ repo.current = gen[job[j].gen].revision
    /\ now >= repo.updated
    /\ job' = [job EXCEPT ![j] =
                 [@ EXCEPT !.stage = "cleanup", !.updated = now]]
    /\ gen' = [g \in Gens |->
                 CASE g = job[j].gen  -> [gen[g] EXCEPT !.status = "ready"]
                   [] g = repo.ready  -> [gen[g] EXCEPT !.status = "superseded"]
                   [] OTHER           -> gen[g]]
    /\ repo' = [repo EXCEPT !.ready = job[j].gen, !.updated = now]

----------------------------------------------------------------------------
(* The lease and the life cycle of a job.                                  *)

\* validate_stage_progression: stay, or advance once, but never across a
\* boundary that has a transaction of its own.
GenericNext == [inventory |-> "parse", parse |-> "link", link |-> "derive",
                derive |-> "synthesize"]

StageProgression(s, t) ==
    s # "idle" /\ (t = s \/ (s \in DOMAIN GenericNext /\ t = GenericNext[s]))

\* A generic checkpoint overwrites whatever receipt was stored.
checkpoint_job(j, o, next, now) ==
    /\ job[j].owner = o /\ job[j].state = "running" /\ NotRegressed(j, now)
    /\ StageProgression(job[j].stage, next)
    /\ job' = [job EXCEPT ![j] =
                 [@ EXCEPT !.stage = next, !.updated = now,
                           !.receipt = NoReceipt]]
    /\ UNCHANGED <<repo, gen>>

heartbeat_job(j, o, now) ==
    /\ job[j].owner = o /\ job[j].state \in {"running", "cancelling"}
    /\ NotRegressed(j, now)
    /\ job' = [job EXCEPT ![j].updated = now]
    /\ UNCHANGED <<repo, gen>>

\* Mutant: the timestamp is not compared.
transition_state_AnyTime(j, o, from, to, now) ==
    /\ job[j].owner = o /\ job[j].state = from
    /\ job' = [job EXCEPT ![j] =
                 [@ EXCEPT !.state = to, !.cancel = FALSE, !.updated = now]]
    /\ UNCHANGED <<repo, gen>>

transition_state(j, o, from, to, now) ==
    /\ job[j].owner = o /\ job[j].state = from /\ NotRegressed(j, now)
    /\ job' = [job EXCEPT ![j] =
                 [@ EXCEPT !.state = to, !.cancel = FALSE, !.updated = now]]
    /\ UNCHANGED <<repo, gen>>

\* Mutant: pausing writes the schema's unused 'pending'.
pause_job_Pending(j, o, now) ==
    transition_state(j, o, "running", "pending", now)

pause_job(j, o, now) == transition_state(j, o, "running", "paused", now)
resume_job(j, o, now) == transition_state(j, o, "paused", "running", now)

\* Mutant: the request writes the schema's unused 'pending'.
request_cancel_Pending(j, o, now) ==
    /\ job[j].owner = o /\ job[j].state \in {"running", "paused"}
    /\ job' = [job EXCEPT ![j] = [@ EXCEPT !.state = "pending"]]
    /\ UNCHANGED <<repo, gen>>

request_cancel(j, o, now) ==
    /\ job[j].owner = o /\ job[j].state \in {"running", "paused"}
    /\ NotRegressed(j, now)
    /\ \/ GenStatus(j, "staging")
       \/ job[j].stage = "cleanup" /\ GenStatus(j, "ready")
    /\ job' = [job EXCEPT ![j] =
                 [@ EXCEPT !.state = "cancelling", !.cancel = TRUE,
                           !.updated = now]]
    /\ UNCHANGED <<repo, gen>>

\* Mutant: the status filter on the generation is lost.
update_staging_generation_Demotes(j, status) ==
    /\ job[j].gen \in Gens
    /\ gen' = [gen EXCEPT ![job[j].gen].status = status]

\* update_staging_generation: a staging generation takes the status, the
\* published ready one is left alone, anything else refuses the transaction.
update_staging_generation(j, status) ==
    \/ /\ GenStatus(j, "staging")
       /\ gen' = [gen EXCEPT ![job[j].gen].status = status]
    \/ /\ GenStatus(j, "ready") /\ repo.ready = job[j].gen
       /\ UNCHANGED gen

finish_job(j, o, from, to, now) ==
    /\ job[j].owner = o /\ job[j].state \in from /\ NotRegressed(j, now)
    /\ job' = [job EXCEPT ![j] =
                 [@ EXCEPT !.state = to, !.stage = "idle", !.updated = now]]
    /\ update_staging_generation(j, to)
    /\ UNCHANGED repo

acknowledge_cancel(j, o, now) ==
    finish_job(j, o, {"cancelling"}, "cancelled", now)

\* Mutant: a finished job may still be failed.
fail_job_AfterFinish(j, o, now) ==
    finish_job(j, o, ActiveStates \cup {"cancelled", "completed"}, "failed", now)

\* errors_json holds one entry at most: the job is terminal afterwards.
fail_job(j, o, now) ==
    finish_job(j, o, {"running", "paused", "cancelling"}, "failed", now)

complete_job(j, o, now) ==
    /\ OwnsStage(j, o, "cleanup", now) /\ GenStatus(j, "ready")
    /\ job' = [job EXCEPT ![j] =
                 [@ EXCEPT !.state = "completed", !.stage = "idle",
                           !.updated = now]]
    /\ UNCHANGED <<repo, gen>>

\* Mutant: recovery parks a cancelling job as well.
recover_stale_job_DropsIntent(j, o, staleBefore, now) ==
    /\ Active(j) /\ staleBefore <= now
    /\ job[j].owner # o /\ job[j].updated < staleBefore
    /\ job' = [job EXCEPT ![j] =
                 [@ EXCEPT !.owner = o, !.updated = now, !.state = "paused"]]
    /\ UNCHANGED <<repo, gen>>

\* The read and the compare-and-set are two statements; the second repeats
\* every field the first one read, so together they are one step.
recover_stale_job(j, o, staleBefore, now) ==
    /\ Active(j) /\ staleBefore <= now
    /\ job[j].owner # o /\ job[j].updated < staleBefore
    /\ job' = [job EXCEPT ![j] =
                 [@ EXCEPT !.owner = o, !.updated = now,
                           !.state = IF job[j].state = "running"
                                     THEN "paused" ELSE job[j].state]]
    /\ UNCHANGED <<repo, gen>>

----------------------------------------------------------------------------
(* Cleanup of generations no reader and no job needs.                      *)

authorize_cleanup(j, o, now) ==
    /\ job[j].owner = o /\ NotRegressed(j, now)
    /\ \/ job[j].state = "running" /\ job[j].stage = "cleanup" /\ ~job[j].cancel
       \/ Terminal(j) /\ job[j].stage = "idle"

\* Rows that cleanup may consider at all.
Unreferenced ==
    {g \in Gens : /\ gen[g].status \in {"staging", "failed", "cancelled",
                                        "superseded"}
                  /\ g # repo.ready
                  /\ \A i \in Jobs : Active(i) => job[i].gen # g}

Superseded == {g \in Unreferenced : gen[g].status = "superseded"}

\* Unfinished generations whose terminal job the same owner held.
OwnedByTerminalJob(o) ==
    {g \in Unreferenced : /\ gen[g].status # "superseded"
                          /\ \E i \in Jobs : /\ job[i].gen = g
                                             /\ job[i].owner = o
                                             /\ Terminal(i)}

\* `kept` are the newest superseded generations, `retain` of them if there
\* are as many; ties of created_at are broken by random ids.
RetainsNewest(kept, retain) ==
    /\ kept \subseteq Superseded
    /\ Cardinality(kept) =
         (IF retain < Cardinality(Superseded) THEN retain
                                              ELSE Cardinality(Superseded))
    /\ \A k \in kept, g \in Superseded \ kept : gen[k].created >= gen[g].created

\* Superseded history belongs to the job whose generation is ready.
cleanup_candidates(j, o, kept) ==
    OwnedByTerminalJob(o) \cup
        (IF repo.ready # NoGen /\ job[j].gen = repo.ready
         THEN Superseded \ kept ELSE {})

\* Oldest first, one batch.
OldestBatch(batch, candidates) ==
    /\ batch \subseteq candidates
    /\ Cardinality(batch) =
         (IF CleanupBatch < Cardinality(candidates) THEN CleanupBatch
                                                    ELSE Cardinality(candidates))
    /\ \A b \in batch, g \in candidates \ batch : gen[b].created <= gen[g].created

\* Apply mode; a dry run changes nothing.  Deleting a generation sets the
\* generation_id of its jobs to NULL.
cleanup_generations(j, o, retain, kept, batch, now) ==
    /\ authorize_cleanup(j, o, now)
    /\ RetainsNewest(kept, retain)
    /\ OldestBatch(batch, cleanup_candidates(j, o, kept))
    /\ gen' = [g \in Gens |-> IF g \in batch THEN NoGeneration ELSE gen[g]]
    /\ job' = [i \in Jobs |->
                 [job[i] EXCEPT !.gen = IF @ \in batch THEN NoGen ELSE @,
                                !.updated = IF i = j THEN now ELSE @]]
    /\ UNCHANGED repo
----------------------------------------------------------------------------
Next ==
    \/ \E r \in Revisions, now \in Time : register_inventory(r, now)
    \/ \E j \in Jobs, g \in Gens, o \in Owners, r \in Revisions, now \in Time :
          start_job(j, g, o, r, now)
    \/ \E j \in Jobs, o \in Owners : persist_manifest(j, o)
    \/ \E j \in Jobs, o \in Owners : remove_noop(j, o)
    \/ \E g, ready \in Gens, cloned \in SUBSET Units :
          clone_unaffected_ready_facts(g, ready, cloned)
    \/ \E j \in Jobs, o \in Owners, work \in SUBSET Units :
          persist_refresh_work_plan(j, o, work)
    \/ \E j \in Jobs, o \in Owners, next \in Stages, now \in Time :
          checkpoint_plan(j, o, next, now)
    \/ \E j \in Jobs, o \in Owners, u \in Units : parse_item(j, o, u)
    \/ \E j \in Jobs, o \in Owners, now \in Time : finish_parse(j, o, now)
    \/ \E j \in Jobs, o \in Owners, now \in Time : link_generation(j, o, now)
    \/ \E j \in Jobs, o \in Owners, now \in Time :
          derive_template_candidates(j, o, now)
    \/ \E j \in Jobs, o \in Owners, now \in Time :
          finalize_synthesis_catalog(j, o, now)
    \/ \E j \in Jobs, o \in Owners, now \in Time :
          validate_generation_for_publication(j, o, now)
    \/ \E j \in Jobs, o \in Owners, now \in Time : publish_generation(j, o, now)
    \/ \E j \in Jobs, o \in Owners, next \in Stages, now \in Time :
          checkpoint_job(j, o, next, now)
    \/ \E j \in Jobs, o \in Owners, now \in Time : heartbeat_job(j, o, now)
    \/ \E j \in Jobs, o \in Owners, now \in Time : pause_job(j, o, now)
    \/ \E j \in Jobs, o \in Owners, now \in Time : resume_job(j, o, now)
    \/ \E j \in Jobs, o \in Owners, now \in Time : request_cancel(j, o, now)
    \/ \E j \in Jobs, o \in Owners, now \in Time : acknowledge_cancel(j, o, now)
    \/ \E j \in Jobs, o \in Owners, now \in Time : fail_job(j, o, now)
    \/ \E j \in Jobs, o \in Owners, now \in Time : complete_job(j, o, now)
    \/ \E j \in Jobs, o \in Owners, staleBefore, now \in Time :
          recover_stale_job(j, o, staleBefore, now)
    \/ \E j \in Jobs, o \in Owners, retain \in 0 .. CleanupBatch,
          kept, batch \in SUBSET Gens, now \in Time :
          cleanup_generations(j, o, retain, kept, batch, now)

Spec == Init /\ [][Next]_vars

----------------------------------------------------------------------------
(* Properties.                                                             *)

\* The pointer in archaeology_repositories and the ready status in
\* archaeology_generations never disagree, so the check validate_ready_pointer
\* makes inside a publication can never be what refuses it, and a reader that
\* follows the pointer always finds a ready generation.
ReadyPointerConsistent ==
    \A g \in Gens : gen[g].status = "ready" <=> repo.ready = g

\* At most one job is active; it holds a staging generation until publication
\* and the ready one afterwards; no staging generation is left without it.
\* This is what lets request_cancel, acknowledge_cancel and fail_job always
\* find a generation they may update.
LeaseConsistent ==
    /\ \A i, j \in Jobs : Active(i) /\ Active(j) => i = j
    /\ \A j \in Jobs : Active(j) =>
          /\ job[j].stage # "idle"
          /\ IF job[j].stage = "cleanup" THEN GenStatus(j, "ready")
                                         ELSE GenStatus(j, "staging")
    /\ \A g \in Gens : gen[g].status = "staging" =>
          \E j \in Jobs : Active(j) /\ job[j].gen = g

\* cancellation_requested and the state agree: nothing running or paused
\* carries a pending cancellation, so a request is never lost by a resume.
CancellationRecorded ==
    \A j \in Jobs :
        /\ job[j].state \in {"running", "paused", "completed"} => ~job[j].cancel
        /\ job[j].state \in {"cancelling", "cancelled"} => job[j].cancel

\* A generation that readers see or saw holds the facts of every source unit
\* and is not written to after publication.
PublishedIntact ==
    \A g \in Gens : gen[g].status \in {"ready", "superseded"} =>
        "manifest" \in gen[g].data.built /\ gen[g].data.parsed = Units

\* A finished job never runs again and never changes hands; only its deleted
\* generation and the cleanup timestamp may change.
TerminalJobsFinal ==
    [][\A j \in Jobs : Terminal(j) =>
          /\ job'[j].state = job[j].state /\ job'[j].stage = job[j].stage
          /\ job'[j].owner = job[j].owner /\ job'[j].cancel = job[j].cancel]_vars

\* Time never runs backwards on a job once its plan is checkpointed: after
\* the inventory and parse stages every write refuses an older timestamp, so
\* a heartbeat cannot be undone by a late writer.
HeartbeatMonotone ==
    [][\A j \in Jobs : Active(j) /\ job[j].stage \notin {"inventory", "parse"}
          => job'[j].updated >= job[j].updated]_vars

\* What the catalog promises its readers, see ReadyCatalog.
SealedGen(g) ==
    \E j \in Jobs : /\ Active(j) /\ job[j].stage = "publish"
                    /\ job[j].gen = g /\ job[j].receipt = gen[g].data

CatalogStatus(g) ==
    CASE gen[g].status = "staging" -> IF SealedGen(g) THEN "sealed" ELSE "draft"
      [] gen[g].status \in {"failed", "cancelled"} -> "discarded"
      [] OTHER -> gen[g].status

Catalog == INSTANCE ReadyCatalog WITH
              current <- repo.current, ready <- repo.ready,
              status <- [g \in Gens |-> CatalogStatus(g)],
              revision <- [g \in Gens |-> gen[g].revision]

\* The job store implements the catalog: whatever the interleaving of
\* cancellations, failures, recoveries and cleanups, the ready generation is
\* replaced only by one atomic publication of a sealed generation of the
\* registered revision.
ImplementsCatalog == Catalog!Spec
=============================================================================
