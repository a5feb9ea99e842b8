-------------------------- MODULE ArchaeologyRefresh --------------------------
(***************************************************************************)
(* How the desktop drives the archaeology job store: the panel             *)
(* (BusinessRuleArchaeologyOperations.tsx), the Tauri commands `refresh`,  *)
(* `continue` and `cancel` of refresh_command.rs and the one of            *)
(* cleanup_command.rs.  Every command runs on a blocking thread, the first *)
(* two with connections of their own, so their transactions interleave     *)
(* freely; each transaction is an action of ArchaeologyJobs.  A command    *)
(* reads the job once and acts on what it read; a refused transaction, or  *)
(* one that fails for a reason outside the model (a busy database), ends   *)
(* the command with an error and leaves the rows as they are.  A crash     *)
(* ends every command and reloads the panel.                               *)
(*                                                                         *)
(* Not here: paused jobs, since nothing in the product calls pause_job or  *)
(* recover_stale_job.  The clock does not move: MaxTime is 0 and every     *)
(* write is in time.                                                       *)
(***************************************************************************)
EXTENDS ArchaeologyJobs

CONSTANTS
    Workers,     \* blocking threads that run commands
    NoWorker, NoJobId,
    Blob,        \* Blob[r][u]: the content of unit u at revision r
    References,  \* pairs <<dependent, prerequisite>> of units: by fact edges
    Copies,      \* the same by include, copybook or macro
    ParseBatch,  \* work items one continue command takes (32 in the code)
    MaxFaults,   \* bound on crashes and failed commands
    MaxCancels,  \* bound on the jobs the user cancels
    MayReload    \* whether the user leaves the panel and comes back

ASSUME RefreshAssumption ==
    /\ MaxTime = 0 /\ Owners # {} /\ CleanupBatch >= 1
    /\ NoWorker \notin Workers /\ NoJobId \notin Jobs
    /\ Blob \in [Revisions -> [Units -> Nat]]
    /\ References \subseteq Units \X Units /\ Copies \subseteq Units \X Units
    /\ ParseBatch \in Nat \ {0} /\ MaxFaults \in Nat
    /\ MaxCancels \in Nat /\ MayReload \in BOOLEAN

VARIABLES
    head,    \* the revision Git's HEAD names
    deps,    \* deps[g]: the rows of archaeology_source_dependencies
    worker,  \* the command each thread runs and what it has read
    view,    \* the state of the mounted panel
    faults   \* crashes and failures so far

refreshVars == <<repo, gen, job, head, deps, worker, view, faults>>

\* Every refresh draws a fresh owner token and every other command reads the
\* token from the row; as nothing in the product changes the owner of a row,
\* one token stands for all.
Owner == CHOOSE o \in Owners : TRUE

Idle == [at |-> "idle", job |-> NoJobId, gen |-> NoGen, rev |-> NoRev,
         units |-> {}, state |-> "absent", stage |-> "idle", ready |-> FALSE]

RefreshSteps == {"head", "register", "start", "manifest", "inputs", "plan",
                 "noop", "clone", "work", "checkpoint", "started"}
ContinueSteps == {"load", "step", "parse", "derived", "status", "answer"}
CancelSteps == {"find", "request", "acknowledge", "state", "cancelled"}
CleanupSteps == {"clean", "cleaned"}

WorkerRow == [at : RefreshSteps \cup ContinueSteps \cup CancelSteps
                     \cup CleanupSteps \cup {"idle", "refused"},
              job : Jobs \cup {NoJobId}, gen : Gens \cup {NoGen},
              rev : Revisions \cup {NoRev}, units : SUBSET Units,
              state : ActiveStates \cup TerminalStates \cup {"absent"},
              stage : Stages, ready : BOOLEAN]

\* lifecycle (job and state), autoRun, action, the pending status query, the
\* continue call that is still `current` and the calls awaited regardless.
ViewRow == [job : Jobs \cup {NoJobId},
            state : ActiveStates \cup TerminalStates \cup {"absent"},
            autoRun : BOOLEAN,
            action : {"none", "start", "continue", "cancel", "cleanup"},
            loading : BOOLEAN, current : Workers \cup {NoWorker},
            awaits : SUBSET Workers]

Mounted == [job |-> NoJobId, state |-> "absent", autoRun |-> FALSE,
            action |-> "none", loading |-> TRUE, current |-> NoWorker,
            awaits |-> {}]

RefreshTypeOK ==
    /\ TypeOK
    /\ head \in Revisions
    /\ deps \in [Gens -> SUBSET (Units \X Units)]
    /\ worker \in [Workers -> WorkerRow]
    /\ view \in ViewRow
    /\ faults \in 0 .. MaxFaults

RefreshInit ==
    /\ Init
    /\ head \in Revisions
    /\ deps = [g \in Gens |-> {}]
    /\ worker = [w \in Workers |-> Idle]
    /\ view = Mounted
    /\ faults = 0

----------------------------------------------------------------------------
(* The invalidation plan.                                                  *)

\* changed_source_paths: units whose content differs from the ready one.
Changed(r) ==
    {u \in Units : Blob[r][u] # Blob[gen[repo.ready].revision][u]}

\* reverse_dependency_closure: the least set that holds the seeds and every
\* dependent of a member, by the given dependencies.
ReverseClosure(seeds, rows) ==
    {u \in Units : \A T \in SUBSET Units :
        /\ seeds \subseteq T
        /\ \A d \in rows : d[2] \in T => d[1] \in T
        => u \in T}

\* Mutant: without dependency rows nothing but the seeds is planned.
Invalidated_SeedsOnly(r) ==
    IF repo.ready = NoGen THEN Units ELSE Changed(r)

\* plan_generation_invalidation: everything without a ready generation, else
\* the closure over the dependency rows stored with the ready generation.
Invalidated(r) ==
    IF repo.ready = NoGen THEN Units
    ELSE ReverseClosure(Changed(r), deps[repo.ready])

\* derive_provable_dependencies: edges between the facts of two units, which
\* the linker makes anew from the facts, cloned ones too, and the copies in
\* the lineage the generation holds.
Provable(g) ==
    IF "link" \in gen[g].data.built
    THEN References \cup {d \in Copies : d[1] \in gen[g].data.lineage}
    ELSE {}

\* persist_generation_invalidation_metadata asks for a staging generation and
\* for no lease.
persist_invalidation_metadata(g) ==
    /\ g \in Gens /\ gen[g].status = "staging"
    /\ deps' = [deps EXCEPT ![g] = Provable(g)]

----------------------------------------------------------------------------
(* Moves of a worker.                                                      *)

Put(w, row) == worker' = [worker EXCEPT ![w] = row]
Goto(w, step) == Put(w, [worker[w] EXCEPT !.at = step])

StoreUnchanged == UNCHANGED <<repo, gen, job>>
Elsewhere == UNCHANGED <<head, view, faults>>

\* Fresh UUIDs: an id that no row and no running command holds.
FreshJobs == {j \in Jobs : /\ job[j].state = "absent" /\ view.job # j
                           /\ \A w \in Workers : worker[w].job # j}
FreshGens == {g \in Gens : /\ gen[g].status = "absent"
                           /\ \A w \in Workers : worker[w].gen # g}

----------------------------------------------------------------------------
(* run_refresh.                                                            *)

\* ready_head_is_exact_noop, then the scan of the tree at HEAD.  HEAD may
\* move between the two reads; the later check catches what that changes.
refresh_head(w) ==
    /\ worker[w].at = "head"
    /\ IF repo.ready # NoGen /\ repo.current = head
             /\ gen[repo.ready].revision = head
       THEN Put(w, [Idle EXCEPT !.at = "started"])
       ELSE Put(w, [worker[w] EXCEPT !.at = "register", !.rev = head])
    /\ StoreUnchanged /\ UNCHANGED deps /\ Elsewhere

refresh_register(w) ==
    /\ worker[w].at = "register"
    /\ register_inventory(worker[w].rev, 0)
    /\ Goto(w, "start") /\ UNCHANGED deps /\ Elsewhere

\* ready_inventory_is_exact_noop; start_job repeats what it compared.
refresh_reuse(w) ==
    /\ worker[w].at = "start"
    /\ repo.ready # NoGen /\ gen[repo.ready].revision = worker[w].rev
    /\ Put(w, [Idle EXCEPT !.at = "started"])
    /\ StoreUnchanged /\ UNCHANGED deps /\ Elsewhere

refresh_start(w) ==
    /\ worker[w].at = "start"
    /\ ~(repo.ready # NoGen /\ gen[repo.ready].revision = worker[w].rev)
    /\ \E j \in FreshJobs, g \in FreshGens :
          /\ start_job(j, g, Owner, worker[w].rev, 0)
          /\ deps' = [deps EXCEPT ![g] = {}]
          /\ Put(w, [worker[w] EXCEPT !.at = "manifest", !.job = j, !.gen = g])
    /\ Elsewhere

refresh_manifest(w) ==
    /\ worker[w].at = "manifest"
    /\ persist_manifest(worker[w].job, Owner)
    /\ Goto(w, "inputs") /\ UNCHANGED deps /\ Elsewhere

refresh_inputs(w) ==
    /\ worker[w].at = "inputs"
    /\ persist_invalidation_metadata(worker[w].gen)
    /\ Goto(w, "plan") /\ StoreUnchanged /\ Elsewhere

\* A HEAD that moved without changing a unit is a no-op.
refresh_plan(w) ==
    /\ worker[w].at = "plan" /\ gen[worker[w].gen].status = "staging"
    /\ Put(w, [worker[w] EXCEPT
                 !.at = IF repo.ready # NoGen /\ Changed(worker[w].rev) = {}
                        THEN "noop" ELSE "clone",
                 !.units = Invalidated(worker[w].rev)])
    /\ StoreUnchanged /\ UNCHANGED deps /\ Elsewhere

refresh_noop(w) ==
    /\ worker[w].at = "noop"
    /\ remove_noop(worker[w].job, Owner)
    /\ Put(w, [Idle EXCEPT !.at = "started"])
    /\ UNCHANGED deps /\ Elsewhere

refresh_clone(w) ==
    /\ worker[w].at = "clone"
    /\ IF repo.ready = NoGen
       THEN gen[worker[w].gen].status = "staging" /\ StoreUnchanged
       ELSE clone_unaffected_ready_facts(worker[w].gen, repo.ready,
                                         Units \ worker[w].units)
    /\ Goto(w, "work") /\ UNCHANGED deps /\ Elsewhere

refresh_work(w) ==
    /\ worker[w].at = "work"
    /\ persist_refresh_work_plan(worker[w].job, Owner, worker[w].units)
    /\ Goto(w, "checkpoint") /\ UNCHANGED deps /\ Elsewhere

refresh_checkpoint(w) ==
    /\ worker[w].at = "checkpoint"
    /\ checkpoint_plan(worker[w].job, Owner, "parse", 0)
    /\ Put(w, [Idle EXCEPT !.at = "started", !.job = worker[w].job])
    /\ UNCHANGED deps /\ Elsewhere

run_refresh(w) ==
    \/ refresh_head(w) \/ refresh_register(w) \/ refresh_reuse(w)
    \/ refresh_start(w) \/ refresh_manifest(w) \/ refresh_inputs(w)
    \/ refresh_plan(w) \/ refresh_noop(w) \/ refresh_clone(w)
    \/ refresh_work(w) \/ refresh_checkpoint(w)

----------------------------------------------------------------------------
(* continue_refresh with max_steps = 1, as the panel calls it.             *)

\* load_refresh_context joins the job with its generation.
continue_load(w) ==
    /\ worker[w].at = "load"
    /\ LET j == worker[w].job IN
         /\ job[j].gen \in Gens
         /\ Put(w, [worker[w] EXCEPT !.at = "step", !.gen = job[j].gen,
                              !.state = job[j].state, !.stage = job[j].stage])
    /\ StoreUnchanged /\ UNCHANGED deps /\ Elsewhere

continue_cancelling(w) ==
    /\ worker[w].at = "step" /\ worker[w].state = "cancelling"
    /\ acknowledge_cancel(worker[w].job, Owner, 0)
    /\ Goto(w, "status") /\ UNCHANGED deps /\ Elsewhere

\* A job that does not run, or has no plan yet, is left as it is.
continue_break(w) ==
    /\ worker[w].at = "step"
    /\ \/ worker[w].state \in TerminalStates
       \/ worker[w].state = "running" /\ worker[w].stage \in {"inventory", "idle"}
    /\ Goto(w, "status")
    /\ StoreUnchanged /\ UNCHANGED deps /\ Elsewhere

At(w, stage) ==
    worker[w].at = "step" /\ worker[w].state = "running"
        /\ worker[w].stage = stage

\* Mutant: the bound of the batch is off by one.
continue_parse_OffByOne(w) ==
    /\ At(w, "parse") /\ ActiveJobScope(worker[w].job, Owner)
    /\ \E batch \in SUBSET job[worker[w].job].work :
          /\ Cardinality(batch) < ParseBatch
          /\ Put(w, [worker[w] EXCEPT !.at = "parse", !.units = batch])
    /\ StoreUnchanged /\ UNCHANGED deps /\ Elsewhere

\* The pending items are listed once, before the first is executed.
continue_parse(w) ==
    /\ At(w, "parse") /\ ActiveJobScope(worker[w].job, Owner)
    /\ \E batch \in SUBSET job[worker[w].job].work :
          /\ Cardinality(batch) =
               (IF ParseBatch < Cardinality(job[worker[w].job].work)
                THEN ParseBatch ELSE Cardinality(job[worker[w].job].work))
          /\ Put(w, [worker[w] EXCEPT !.at = "parse", !.units = batch])
    /\ StoreUnchanged /\ UNCHANGED deps /\ Elsewhere

continue_parse_item(w) ==
    /\ worker[w].at = "parse"
    /\ \E u \in worker[w].units :
          /\ parse_item(worker[w].job, Owner, u)
          /\ Put(w, [worker[w] EXCEPT !.units = @ \ {u}])
    /\ UNCHANGED deps /\ Elsewhere

continue_parse_end(w) ==
    /\ worker[w].at = "parse" /\ worker[w].units = {}
    /\ \/ finish_parse(worker[w].job, Owner, 0)
       \/ job[worker[w].job].work # {} /\ StoreUnchanged
    /\ Goto(w, "status") /\ UNCHANGED deps /\ Elsewhere

\* The stages whose output and checkpoint are one transaction.
StageTransaction(stage, j) ==
    \/ stage = "link" /\ link_generation(j, Owner, 0)
    \/ stage = "derive" /\ derive_template_candidates(j, Owner, 0)
    \/ stage = "synthesize" /\ finalize_synthesis_catalog(j, Owner, 0)
    \/ stage = "validate" /\ validate_generation_for_publication(j, Owner, 0)
    \/ stage = "publish" /\ publish_generation(j, Owner, 0)
    \/ stage = "cleanup" /\ complete_job(j, Owner, 0)

\* The retries the transactions recognise: the stage was already left with
\* the receipt this call would write, or the publication is committed.
AlreadyDone(stage, j) ==
    \/ /\ stage \in {"link", "derive", "synthesize"} /\ ActiveJobScope(j, Owner)
       /\ job[j].stage = [link |-> "derive", derive |-> "synthesize",
                          synthesize |-> "validate"][stage]
    \/ /\ stage = "publish" /\ job[j].state # "cancelling"
       /\ job[j].stage \in {"cleanup", "idle"}
       /\ GenStatus(j, "ready") /\ repo.ready = job[j].gen

\* After the derive transaction the dependency rows are stored by another.
AfterStage(stage) == IF stage = "derive" THEN "derived" ELSE "status"

continue_stage(w) ==
    /\ \E stage \in Stages :
          /\ At(w, stage) /\ StageTransaction(stage, worker[w].job)
          /\ Goto(w, AfterStage(stage))
    /\ UNCHANGED deps /\ Elsewhere

continue_retry(w) ==
    /\ \E stage \in Stages :
          /\ At(w, stage) /\ AlreadyDone(stage, worker[w].job)
          /\ Goto(w, AfterStage(stage))
    /\ StoreUnchanged /\ UNCHANGED deps /\ Elsewhere

continue_derived(w) ==
    /\ worker[w].at = "derived"
    /\ persist_invalidation_metadata(worker[w].gen)
    /\ Goto(w, "status") /\ StoreUnchanged /\ Elsewhere

\* lifecycle_result: what the caller is told, read after the work.
lifecycle_result(w, step, told) ==
    /\ worker[w].at = step /\ job[worker[w].job].state # "absent"
    /\ Put(w, [Idle EXCEPT !.at = told, !.job = worker[w].job,
                           !.state = job[worker[w].job].state,
                           !.ready = GenStatus(worker[w].job, "ready")])
    /\ StoreUnchanged /\ UNCHANGED deps /\ Elsewhere

continue_refresh(w) ==
    \/ continue_load(w) \/ continue_cancelling(w) \/ continue_break(w)
    \/ continue_parse(w) \/ continue_parse_item(w) \/ continue_parse_end(w)
    \/ continue_stage(w) \/ continue_retry(w) \/ continue_derived(w)
    \/ lifecycle_result(w, "status", "answer")

----------------------------------------------------------------------------
(* cancel_business_rule_archaeology_refresh: two transactions.  A job that *)
(* is already cancelling is only reported.                                 *)

\* `cancel` runs on the application's connection and holds its mutex, which
\* the status queries and `cleanup` take as well.
DbLocked ==
    \E w \in Workers : worker[w].at \in {"request", "acknowledge", "state"}

cancel_load(w) ==
    /\ worker[w].at = "find" /\ ~DbLocked /\ job[worker[w].job].gen \in Gens
    /\ Goto(w, IF job[worker[w].job].state \in {"running", "paused"}
               THEN "request" ELSE "state")
    /\ StoreUnchanged /\ UNCHANGED deps /\ Elsewhere

\* Mutant: the command only requests.
cancel_request_Only(w) ==
    /\ worker[w].at = "request"
    /\ request_cancel(worker[w].job, Owner, 0)
    /\ Goto(w, "state") /\ UNCHANGED deps /\ Elsewhere

cancel_request(w) ==
    /\ worker[w].at = "request"
    /\ request_cancel(worker[w].job, Owner, 0)
    /\ Goto(w, "acknowledge") /\ UNCHANGED deps /\ Elsewhere

cancel_acknowledge(w) ==
    /\ worker[w].at = "acknowledge"
    /\ acknowledge_cancel(worker[w].job, Owner, 0)
    /\ Goto(w, "state") /\ UNCHANGED deps /\ Elsewhere

cancel_refresh(w) ==
    \/ cancel_load(w) \/ cancel_request(w) \/ cancel_acknowledge(w)
    \/ lifecycle_result(w, "state", "cancelled")

----------------------------------------------------------------------------
(* cleanup_business_rule_archaeology_index: one transaction, in the name   *)
(* of the job on display.  The panel keeps the newest superseded           *)
(* generation.                                                             *)

run_cleanup(w) ==
    /\ worker[w].at = "clean" /\ ~DbLocked
    /\ \E kept, batch \in SUBSET Gens :
          cleanup_generations(worker[w].job, Owner, 1, kept, batch, 0)
    /\ Put(w, [Idle EXCEPT !.at = "cleaned"])
    /\ UNCHANGED deps /\ Elsewhere

----------------------------------------------------------------------------
(* Errors, crashes and the panel.                                          *)

Command(w) ==
    run_refresh(w) \/ continue_refresh(w) \/ cancel_refresh(w) \/ run_cleanup(w)

Finished == {"started", "answer", "cancelled", "cleaned", "refused"}
Running(w) == worker[w].at \notin {"idle"} \cup Finished

Refuse(w) ==
    /\ Put(w, [Idle EXCEPT !.at = "refused", !.job = worker[w].job])
    /\ StoreUnchanged /\ UNCHANGED <<deps, head, view>>

\* The rows are as acknowledge_cancel (its owner, state and clock, and the update
\* of the generation that follows) or the storing of dependencies asks: the
\* guards of these two, written out.  ENABLED Command(w) implies as much; proofs,
\* to which ENABLED is opaque, need the two whose refusal would lose something.
Matches(w) ==
    \/ /\ worker[w].at = "acknowledge"
       /\ LET j == worker[w].job
          IN /\ job[j].owner = Owner /\ job[j].state = "cancelling"
             /\ NotRegressed(j, 0)
             /\ \/ GenStatus(j, "staging")
                \/ GenStatus(j, "ready") /\ repo.ready = job[j].gen
    \/ /\ worker[w].at = "derived"
       /\ worker[w].gen \in Gens /\ gen[worker[w].gen].status = "staging"

\* A compare-and-set that matched no row ends the command.
refused(w) ==
    /\ Running(w) /\ ~(worker[w].at \in {"find", "clean"} /\ DbLocked)
    /\ ~Matches(w) /\ ~ENABLED Command(w)
    /\ Refuse(w) /\ UNCHANGED faults

\* So does any statement that SQLite fails (busy, full, interrupted).
command_fails(w) ==
    /\ Running(w) /\ faults < MaxFaults /\ faults' = faults + 1
    /\ Refuse(w)

crash ==
    /\ faults < MaxFaults /\ faults' = faults + 1
    /\ worker' = [w \in Workers |-> Idle]
    /\ view' = Mounted
    /\ StoreUnchanged /\ UNCHANGED <<deps, head>>

\* The user commits or checks out.
move_head ==
    /\ \E r \in Revisions \ {head} : head' = r
    /\ StoreUnchanged /\ UNCHANGED <<deps, worker, view, faults>>

PanelOnly == StoreUnchanged /\ UNCHANGED <<deps, head, faults>>

\* Leaving the panel drops its promises; the commands run on.
remount ==
    /\ MayReload /\ view # Mounted
    /\ view' = Mounted /\ UNCHANGED worker /\ PanelOnly

\* get_current_business_rule_archaeology_refresh_status: an active job, else
\* the one updated last.
CurrentJobs ==
    LET active == {j \in Jobs : Active(j)} IN
    IF active # {} THEN active ELSE {j \in Jobs : Terminal(j)}

mounted_status ==
    /\ view.loading /\ ~DbLocked
    /\ \/ /\ CurrentJobs = {}
          /\ view' = [view EXCEPT !.loading = FALSE]
       \/ \E j \in CurrentJobs :
             view' = [view EXCEPT !.loading = FALSE, !.job = j,
                                  !.state = job[j].state,
                                  !.current = NoWorker,
                                  !.autoRun = job[j].state = "running"]
    /\ UNCHANGED worker /\ PanelOnly

ViewActive == view.job \in Jobs /\ view.state \in ActiveStates

\* `start`: the Index button.
click_index(w) ==
    /\ ~ViewActive /\ view.action = "none" /\ worker[w] = Idle
    /\ FreshJobs # {} /\ FreshGens # {}
    /\ Put(w, [Idle EXCEPT !.at = "head"])
    /\ view' = [view EXCEPT !.action = "start", !.awaits = @ \cup {w}]
    /\ PanelOnly

\* `cancel`: autoRun is cleared, which drops the answer of a running continue.
click_cancel(w) ==
    /\ ViewActive /\ view.action # "cancel" /\ worker[w] = Idle
    /\ Cardinality({j \in Jobs : job[j].state = "cancelled"}) < MaxCancels
    /\ Put(w, [Idle EXCEPT !.at = "find", !.job = view.job])
    /\ view' = [view EXCEPT !.action = "cancel", !.autoRun = FALSE,
                            !.current = NoWorker, !.awaits = @ \cup {w}]
    /\ PanelOnly

\* `runCleanup`: offered for a finished job, and applied after a preview,
\* which changes nothing.
click_cleanup(w) ==
    /\ view.job \in Jobs /\ view.state \in TerminalStates
    /\ view.action = "none" /\ worker[w] = Idle
    /\ Put(w, [Idle EXCEPT !.at = "clean", !.job = view.job])
    /\ view' = [view EXCEPT !.action = "cleanup", !.awaits = @ \cup {w}]
    /\ PanelOnly

\* The 40 ms timer of the effect; one continue is current at a time.
auto_continue(w) ==
    /\ view.autoRun /\ view.job \in Jobs /\ view.state = "running"
    /\ view.current = NoWorker /\ worker[w] = Idle
    /\ Put(w, [Idle EXCEPT !.at = "load", !.job = view.job])
    /\ view' = [view EXCEPT !.action = "continue", !.current = w]
    /\ PanelOnly

Free(w) == worker' = [worker EXCEPT ![w] = Idle]

\* Mutant: `if (!current) return` is missing.
continue_answered_Late(w) ==
    /\ worker[w].at = "answer"
    /\ view' = [view EXCEPT !.current = NoWorker, !.action = "none",
                   !.job = worker[w].job, !.state = worker[w].state,
                   !.autoRun = @ /\ ~worker[w].ready
                                 /\ worker[w].state \in ActiveStates]
    /\ Free(w) /\ PanelOnly

continue_answered(w) ==
    /\ worker[w].at = "answer" /\ view.current = w
    /\ view' = [view EXCEPT !.current = NoWorker, !.action = "none",
                   !.job = worker[w].job, !.state = worker[w].state,
                   !.autoRun = @ /\ ~worker[w].ready
                                 /\ worker[w].state \in ActiveStates]
    /\ Free(w) /\ PanelOnly

continue_failed(w) ==
    /\ worker[w].at = "refused" /\ view.current = w
    /\ view' = [view EXCEPT !.current = NoWorker, !.action = "none",
                            !.autoRun = FALSE]
    /\ Free(w) /\ PanelOnly

\* Nothing to index clears the lifecycle, else the new job is looked up.
start_answered(w) ==
    /\ worker[w].at = "started" /\ w \in view.awaits
    /\ worker[w].job # NoJobId => ~DbLocked
    /\ LET j == worker[w].job IN
         view' = [view EXCEPT !.awaits = @ \ {w}, !.action = "none",
                    !.job = j,
                    !.state = IF j = NoJobId THEN "absent" ELSE job[j].state,
                    !.autoRun = IF j = NoJobId THEN @
                                ELSE job[j].state = "running",
                    !.current = NoWorker]
    /\ Free(w) /\ PanelOnly

cancel_answered(w) ==
    /\ worker[w].at = "cancelled" /\ w \in view.awaits
    /\ view' = [view EXCEPT !.awaits = @ \ {w}, !.action = "none",
                   !.job = worker[w].job, !.state = worker[w].state,
                   !.current = NoWorker]
    /\ Free(w) /\ PanelOnly

\* The report of a cleanup, or the error of an awaited command.
action_ended(w) ==
    /\ worker[w].at \in {"cleaned", "refused"} /\ w \in view.awaits
    /\ view' = [view EXCEPT !.awaits = @ \ {w}, !.action = "none"]
    /\ Free(w) /\ PanelOnly

\* The answer to a caller that is gone.
answer_dropped(w) ==
    /\ worker[w].at \in Finished
    /\ w # view.current /\ w \notin view.awaits
    /\ Free(w) /\ UNCHANGED view /\ PanelOnly

Answer(w) ==
    \/ continue_answered(w) \/ continue_failed(w) \/ start_answered(w)
    \/ cancel_answered(w) \/ action_ended(w) \/ answer_dropped(w)

RefreshNext ==
    \/ \E w \in Workers : Command(w) \/ refused(w) \/ command_fails(w)
    \/ \E w \in Workers : Answer(w) \/ auto_continue(w)
    \/ \E w \in Workers : click_index(w) \/ click_cancel(w) \/ click_cleanup(w)
    \/ mounted_status \/ remount \/ move_head \/ crash

RefreshSpec == RefreshInit /\ [][RefreshNext]_refreshVars

\* Blocking threads run to their end, promises are delivered, and the timer of
\* the mounted panel fires; users and faults owe nothing.
FairRefreshSpec ==
    /\ RefreshSpec
    /\ \A w \in Workers : WF_refreshVars(Command(w) \/ refused(w))
    /\ \A w \in Workers : WF_refreshVars(Answer(w))
    /\ WF_refreshVars(\E w \in Workers : auto_continue(w))
    /\ WF_refreshVars(mounted_status)

----------------------------------------------------------------------------
(* Properties.                                                             *)

\* A job that left a stage holds what the stage produces, whichever of
\* several overlapping continue commands ran it: from link on no work item is
\* pending and every unit has facts, and each product is there once its
\* checkpoint is (continue_refresh, execute_incremental_parse_batch).
StageOutput ==
    \A j \in Jobs : Active(j) =>
        LET data == gen[job[j].gen].data
            Past(stages) == job[j].stage \in stages
        IN /\ ~Past({"inventory"}) => "manifest" \in data.built
           /\ ~Past({"inventory", "parse"}) => job[j].work = {}
           /\ Past({"derive", "synthesize", "validate", "publish", "cleanup"})
                 => "link" \in data.built /\ data.parsed = Units
           /\ Past({"synthesize", "validate", "publish", "cleanup"})
                 => "derive" \in data.built
           /\ Past({"validate", "publish", "cleanup"}) => "catalog" \in data.built

\* What readers see was built by every stage, and no facts slipped in after
\* the linker had read them: a late continue command cannot re-execute a work
\* item of a batch it listed before another command finished it.
PublishedFresh ==
    \A g \in Gens : gen[g].status \in {"ready", "superseded"} =>
        gen[g].data.built = Products /\ gen[g].data.late = {}

\* Once the panel has shown a job as finished it never shows the same job in
\* another state: the answer of a continue command that was under way when
\* the user cancelled is dropped (the `current` flag of the effect).  (After a
\* fault a second cancel can answer with the state before the last continue.)
SettledViewStays ==
    [][faults' = 0 /\ view.state \in TerminalStates /\ view'.job = view.job
          => view'.state = view.state]_refreshVars

\* The work plan of a job covers every unit that changed since the ready
\* generation and every unit that depends on one, directly or not; the facts
\* of all others are cloned (invalidation.rs: the dependent is "the source
\* unit which must be refreshed when its prerequisite changes").
PlanCoversDependents ==
    \A j \in Jobs :
        Active(j) /\ job[j].stage = "parse" /\ repo.ready # NoGen
          => ReverseClosure(Changed(gen[job[j].gen].revision),
                            References \cup Copies) \subseteq job[j].plan

\* The units that were parsed for generation g rather than cloned into it.
RefreshedFor(g) == {u \in Units : \E i \in Jobs : job[i].gen = g /\ u \in job[i].plan}

\* What is left of that in the code: a plan follows every reference, and the
\* copies of the units that the job of the ready generation itself parsed.
\* After a first index these are all of them.
PlanCoversRefreshed ==
    \A j \in Jobs :
        Active(j) /\ job[j].stage = "parse" /\ repo.ready # NoGen
          => ReverseClosure(Changed(gen[job[j].gen].revision),
                 References \cup {d \in Copies : d[1] \in RefreshedFor(repo.ready)})
               \subseteq job[j].plan

ViewRunning == view.autoRun /\ view.job \in Jobs /\ view.state = "running"

\* The panel does not poll for ever: a job it drives is published, finished,
\* cancelled, or the loop stops with an error.
AutoRunSettles == ViewRunning ~> ~ViewRunning

\* One crash or failed statement is enough to break what the next two
\* properties say of a behaviour without any.
Uninterrupted == [](faults = 0)

\* Without a fault the loop of the panel ends, whatever the user, HEAD and
\* commands that outlive the panel do meanwhile.
UninterruptedRunSettles == Uninterrupted => AutoRunSettles

\* Without a fault a requested cancellation is carried out, by the command
\* that requested it or by a continue command that sees it.
UninterruptedCancelSettles ==
    Uninterrupted =>
        \A j \in Jobs : job[j].state = "cancelling" ~> job[j].state # "cancelling"
=============================================================================
