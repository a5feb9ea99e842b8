------------------------- MODULE ArchaeologyFaultFreeProofs -----------------
(***************************************************************************)
(* What the desktop promises as long as no command is cut off: a job the   *)
(* panel has shown as finished stays so, for any number of threads, and a  *)
(* work plan follows every reference to a change and every copy whose      *)
(* lineage is left, for one thread.  A failed statement or a crash breaks  *)
(* both.                                                                   *)
(***************************************************************************)
EXTENDS ArchaeologyStagesProofs

----------------------------------------------------------------------------
(* The settled view.                                                       *)

\* A cancel command is between its two transactions for job j.
Asked(j) == \E w \in Workers : worker[w].at = "acknowledge" /\ worker[w].job = j

\* What a thread is about to tell the panel, or about to read, is settled.
Reported(row) ==
    /\ row.at \in {"answer", "cancelled"} /\ row.state \in TerminalStates
         => job[row.job].state = row.state
    /\ row.at = "cancelled" => row.state \in TerminalStates
    /\ row.at = "state" => ~Active(row.job)

\* The panel drives a job only while it shows it as running.
DrivesRunning == view.current # NoWorker => view.state = "running"

\* A job shown as finished is.
ShownTrue ==
    view.state \in TerminalStates
        => view.job \in Jobs /\ job[view.job].state = view.state

\* The panel and the answers on their way agree with the store about what is
\* settled, and a job being cancelled has a command that will acknowledge.
ReportsTrue ==
    /\ ShownTrue
    /\ \A w \in Workers : Reported(worker[w])
    /\ \A j \in Jobs : job[j].state = "cancelling" => job[j].owner = Owner /\ Asked(j)

ViewInvariant == DrivesRunning /\ (faults = 0 => ReportsTrue)

\* A step that shows no finished job in another state.
ViewKept ==
    view.state \in TerminalStates /\ view'.job = view.job => view'.state = view.state

\* What a step of thread w does to the states of the jobs: none becomes active
\* that a thread holds, and none starts to be cancelled.
JobsSettle ==
    /\ \A i \in Jobs : job'[i].state = "cancelling"
          => job[i].state = "cancelling" /\ job'[i].owner = job[i].owner
    /\ \A i \in Jobs : Active(i)' => Active(i) \/ i \in FreshJobs

\* A transaction on the row of one job, which it neither starts to cancel nor
\* makes active unless the job is new.
LEMMA OneJobSettles ==
    ASSUME TypeOK, NEW j \in Jobs, NEW x, job' = [job EXCEPT ![j] = x],
           x.state # "cancelling", x.state \in ActiveStates => Active(j) \/ j \in FreshJobs
    PROVE  JobsSettle
<1>1. job'[j] = x /\ \A i \in Jobs \ {j} : job'[i] = job[i]
  BY DEF TypeOK
<1> QED BY <1>1 DEF JobsSettle, Active

\* A step that leaves all jobs alone.
LEMMA StillSettles ==
    ASSUME job' = job
    PROVE  JobsSettle
  BY DEF JobsSettle, Active

\* A transaction that moves a running job on, or completes it.
LEMMA RunningSettles ==
    ASSUME TypeOK, NEW j \in Jobs, job[j].state = "running", NEW x,
           job' = [job EXCEPT ![j] = x], x.state \in {"running", "completed"}
    PROVE  JobsSettle
<1>1. x.state # "cancelling" /\ Active(j)
  BY DEF Active, ActiveStates
<1> QED BY <1>1, OneJobSettles

\* Every command but the request of a cancellation.
LEMMA CommandSettles ==
    ASSUME RefreshInvariant, NEW w \in Workers, Command(w), ~cancel_request(w)
    PROVE  JobsSettle
<1> USE Parameters
<1> DEFINE j == worker[w].job
<1>1. TypeOK /\ RowOK(worker[w])
  BY DEF RefreshInvariant, JobsInvariant, WorkersOK
<1>2. \A i \in Jobs : job[i] \in JobRow
  BY <1>1 DEF TypeOK
<1>3. CASE \/ refresh_head(w) \/ refresh_register(w) \/ refresh_reuse(w)
           \/ refresh_manifest(w) \/ refresh_inputs(w) \/ refresh_plan(w)
           \/ refresh_clone(w)
  <2>1. job' = job
    BY <1>3 DEF refresh_head, refresh_register, refresh_reuse, refresh_manifest,
       refresh_inputs, refresh_plan, refresh_clone, StoreUnchanged,
       register_inventory, persist_manifest, clone_unaffected_ready_facts
  <2> QED BY <2>1, StillSettles
<1>4. CASE refresh_start(w)
  <2>1. PICK i \in FreshJobs, g \in FreshGens : start_job(i, g, Owner, worker[w].rev, 0)
    BY <1>4 DEF refresh_start
  <2>2. i \in Jobs
    BY DEF FreshJobs
  <2> DEFINE x == [NoJob EXCEPT !.state = "running", !.stage = "inventory",
                                !.gen = g, !.owner = Owner, !.updated = 0]
  <2>3. job' = [job EXCEPT ![i] = x]
    BY <2>1 DEF start_job
  <2>4. x.state = "running"
    BY DEF NoJob
  <2> HIDE DEF x
  <2> QED BY <1>1, <2>2, <2>3, <2>4, OneJobSettles
<1>5. CASE refresh_noop(w)
  <2>1. j \in Jobs /\ job' = [job EXCEPT ![j] = NoJob]
    BY <1>1, <1>5 DEF refresh_noop, remove_noop, RowOK, WithJob, Preparing
  <2>2. NoJob.state = "absent"
    BY DEF NoJob
  <2> QED BY <1>1, <2>1, <2>2, OneJobSettles DEF ActiveStates
<1>6. CASE refresh_work(w)
  <2> DEFINE x == [job[j] EXCEPT !.plan = worker[w].units,
                     !.work = IF job[j].plan = {} THEN worker[w].units
                                                  ELSE job[j].work]
  <2>1. j \in Jobs /\ job' = [job EXCEPT ![j] = x] /\ job[j].state = "running"
    BY <1>1, <1>6 DEF refresh_work, persist_refresh_work_plan, ActiveJobScope,
       HoldsLease, RowOK, WithJob, Preparing
  <2>2. x.state = "running"
    BY <1>2, <2>1 DEF JobRow
  <2> HIDE DEF x
  <2> QED BY <1>1, <2>1, <2>2, RunningSettles
<1>7. CASE refresh_checkpoint(w)
  <2> DEFINE x == [job[j] EXCEPT !.stage = "parse", !.updated = 0,
                                 !.receipt = NoReceipt]
  <2>1. j \in Jobs /\ job' = [job EXCEPT ![j] = x] /\ job[j].state = "running"
    BY <1>1, <1>7 DEF refresh_checkpoint, checkpoint_plan, HoldsLease, RowOK,
       WithJob, Preparing
  <2>2. x.state = "running"
    BY <1>2, <2>1 DEF JobRow
  <2> HIDE DEF x
  <2> QED BY <1>1, <2>1, <2>2, RunningSettles
<1>8. CASE \/ continue_load(w) \/ continue_break(w) \/ continue_parse(w)
           \/ continue_retry(w) \/ continue_derived(w) \/ cancel_load(w)
           \/ lifecycle_result(w, "status", "answer")
           \/ lifecycle_result(w, "state", "cancelled")
  <2>1. job' = job
    BY <1>8 DEF continue_load, continue_break, continue_parse, continue_retry,
       continue_derived, cancel_load, lifecycle_result, StoreUnchanged
  <2> QED BY <2>1, StillSettles
<1>9. CASE continue_cancelling(w) \/ cancel_acknowledge(w)
  <2> DEFINE x == [job[j] EXCEPT !.state = "cancelled", !.stage = "idle",
                                 !.updated = 0]
  <2>1. j \in Jobs /\ job' = [job EXCEPT ![j] = x]
    BY <1>1, <1>9 DEF continue_cancelling, cancel_acknowledge,
       acknowledge_cancel, finish_job, RowOK, WithJob
  <2>2. x.state = "cancelled"
    BY <1>2, <2>1 DEF JobRow
  <2> HIDE DEF x
  <2> QED BY <1>1, <2>1, <2>2, OneJobSettles DEF ActiveStates
<1>10. CASE continue_parse_item(w)
  <2>1. PICK u \in worker[w].units : parse_item(j, Owner, u)
    BY <1>10 DEF continue_parse_item
  <2>2. j \in Jobs /\ job[j].state = "running"
    BY <1>1, <1>10, <2>1 DEF continue_parse_item, RowOK, WithJob, parse_item,
       ActiveJobScope, HoldsLease
  <2> DEFINE x == [job[j] EXCEPT !.work = @ \ {u}]
  <2>3. job' = [job EXCEPT ![j] = x]
    BY <2>1 DEF parse_item
  <2>4. x.state = "running"
    BY <1>2, <2>2 DEF JobRow
  <2> HIDE DEF x
  <2> QED BY <1>1, <2>2, <2>3, <2>4, RunningSettles
<1>11. CASE continue_parse_end(w)
  <2> DEFINE x == [job[j] EXCEPT !.stage = "link", !.updated = 0]
  <2>1. j \in Jobs
    BY <1>1, <1>11 DEF continue_parse_end, RowOK, WithJob
  <2>2. CASE finish_parse(j, Owner, 0)
    <3>1. job' = [job EXCEPT ![j] = x] /\ job[j].state = "running"
      BY <2>2 DEF finish_parse, HoldsLease
    <3>2. x.state = "running"
      BY <1>2, <2>1, <3>1 DEF JobRow
    <3> HIDE DEF x
    <3> QED BY <1>1, <2>1, <3>1, <3>2, RunningSettles
  <2>3. CASE StoreUnchanged
    BY <2>3, StillSettles DEF StoreUnchanged
  <2> QED BY <1>11, <2>2, <2>3 DEF continue_parse_end
<1>12. CASE continue_stage(w)
  <2>1. PICK stage \in Stages : At(w, stage) /\ StageTransaction(stage, j)
    BY <1>12 DEF continue_stage
  <2>2. j \in Jobs /\ job[j].state = "running"
    BY <1>1, <2>1 DEF At, RowOK, WithJob, StageTransaction, link_generation,
       derive_template_candidates, finalize_synthesis_catalog,
       validate_generation_for_publication, publish_generation, complete_job,
       Build, OwnsStage, HoldsLease
  <2>3. ASSUME NEW next, NEW r,
               job' = [job EXCEPT ![j] = [@ EXCEPT !.stage = next, !.updated = 0,
                                                   !.receipt = r]]
        PROVE  JobsSettle
    <3> DEFINE x == [job[j] EXCEPT !.stage = next, !.updated = 0, !.receipt = r]
    <3>1. job' = [job EXCEPT ![j] = x]
      BY <2>3
    <3>2. x.state = "running"
      BY <1>2, <2>2 DEF JobRow
    <3> HIDE DEF x
    <3> QED BY <1>1, <2>2, <3>1, <3>2, RunningSettles
  <2>4. CASE publish_generation(j, Owner, 0)
    <3> DEFINE x == [job[j] EXCEPT !.stage = "cleanup", !.updated = 0]
    <3>1. job' = [job EXCEPT ![j] = x]
      BY <2>4 DEF publish_generation
    <3>2. x.state = "running"
      BY <1>2, <2>2 DEF JobRow
    <3> HIDE DEF x
    <3> QED BY <1>1, <2>2, <3>1, <3>2, RunningSettles
  <2>5. CASE complete_job(j, Owner, 0)
    <3> DEFINE x == [job[j] EXCEPT !.state = "completed", !.stage = "idle",
                                   !.updated = 0]
    <3>1. job' = [job EXCEPT ![j] = x]
      BY <2>5 DEF complete_job
    <3>2. x.state = "completed"
      BY <1>2, <2>2 DEF JobRow
    <3> HIDE DEF x
    <3> QED BY <1>1, <2>2, <3>1, <3>2, RunningSettles
  <2>6. CASE \/ link_generation(j, Owner, 0)
             \/ derive_template_candidates(j, Owner, 0)
             \/ finalize_synthesis_catalog(j, Owner, 0)
             \/ validate_generation_for_publication(j, Owner, 0)
    BY <2>3, <2>6 DEF link_generation, derive_template_candidates,
       finalize_synthesis_catalog, validate_generation_for_publication, Build
  <2> QED BY <2>1, <2>4, <2>5, <2>6 DEF StageTransaction
<1>13. CASE run_cleanup(w)
  <2>1. j \in Jobs /\ 1 \in 0 .. CleanupBatch
    BY <1>1, <1>13, RefreshAssumption, JobsAssumption
       DEF run_cleanup, RowOK, WithJob
  <2>2. PICK kept \in SUBSET Gens, batch \in SUBSET Gens :
           cleanup_generations(j, Owner, 1, kept, batch, 0)
    BY <1>13 DEF run_cleanup
  <2>3. \A i \in Jobs : job'[i].state = job[i].state /\ job'[i].owner = job[i].owner
    BY <1>1, <2>1, <2>2, CleanupEffect
  <2> QED BY <2>3 DEF JobsSettle, Active
<1> QED
  BY <1>3, <1>4, <1>5, <1>6, <1>7, <1>8, <1>9, <1>10, <1>11, <1>12, <1>13
     DEF Command, run_refresh, continue_refresh, cancel_refresh

\* A thread with this row does not answer and does not read the state to
\* report it.
Silent(row) == row.at \notin {"answer", "cancelled", "state"}

\* Such a thread reports nothing that could be wrong.
LEMMA SilentReports ==
    ASSUME NEW row, Silent(row)
    PROVE  Reported(row) /\ Reported(row)'
  BY DEF Silent, Reported

\* The steps that answer nothing.
LEMMA SilentSteps ==
    ASSUME WorkersOK, NEW w \in Workers,
           \/ run_refresh(w) \/ run_cleanup(w) \/ Refuse(w) \/ Answer(w)
           \/ auto_continue(w) \/ click_index(w) \/ click_cancel(w)
           \/ click_cleanup(w) \/ cancel_request(w)
           \/ continue_refresh(w) /\ ~lifecycle_result(w, "status", "answer")
    PROVE  \E row : Put(w, row) /\ Silent(row)
<1>1. worker[w] \in WorkerRow
  BY DEF WorkersOK
<1>2. \A step : Goto(w, step) /\ step \notin {"answer", "cancelled", "state"}
        => \E row : Put(w, row) /\ Silent(row)
  <2>1. \A step : [worker[w] EXCEPT !.at = step].at = step
    BY <1>1 DEF WorkerRow
  <2> QED BY <2>1 DEF Goto, Silent
<1>3. CASE \/ refresh_register(w) \/ refresh_manifest(w) \/ refresh_inputs(w)
           \/ refresh_clone(w) \/ refresh_work(w) \/ continue_cancelling(w)
           \/ continue_break(w) \/ continue_parse_end(w) \/ continue_derived(w)
           \/ cancel_request(w) \/ continue_stage(w) \/ continue_retry(w)
  <2>1. \E step \in {"start", "inputs", "plan", "work", "checkpoint", "status",
                     "acknowledge", "derived"} : Goto(w, step)
    BY <1>3 DEF refresh_register, refresh_manifest, refresh_inputs,
       refresh_clone, refresh_work, continue_cancelling, continue_break,
       continue_parse_end, continue_derived, cancel_request, continue_stage,
       continue_retry, AfterStage
  <2> QED BY <1>2, <2>1
<1>4. CASE refresh_head(w) \/ refresh_reuse(w)
  <2>1. /\ [Idle EXCEPT !.at = "started"].at = "started"
        /\ [worker[w] EXCEPT !.at = "register", !.rev = head].at = "register"
    BY <1>1 DEF Idle, WorkerRow
  <2> QED BY <1>4, <2>1 DEF refresh_head, refresh_reuse, Silent
<1>5. CASE refresh_start(w)
  <2>1. \A i, g : [worker[w] EXCEPT !.at = "manifest", !.job = i, !.gen = g].at = "manifest"
    BY <1>1 DEF WorkerRow
  <2> QED BY <1>5, <2>1 DEF refresh_start, Silent
<1>6. CASE refresh_plan(w)
  <2> DEFINE next == IF repo.ready # NoGen /\ Changed(worker[w].rev) = {}
                     THEN "noop" ELSE "clone"
             units == Invalidated(worker[w].rev)
  <2>1. next \in {"noop", "clone"}
    OBVIOUS
  <2>2. Put(w, [worker[w] EXCEPT !.at = next, !.units = units])
    BY <1>6 DEF refresh_plan
  <2> HIDE DEF next, units
  <2>3. [worker[w] EXCEPT !.at = next, !.units = units].at = next
    BY <1>1 DEF WorkerRow
  <2> QED BY <2>1, <2>2, <2>3 DEF Silent
<1>7. CASE refresh_noop(w) \/ refresh_checkpoint(w)
  <2>1. /\ [Idle EXCEPT !.at = "started"].at = "started"
        /\ [Idle EXCEPT !.at = "started", !.job = worker[w].job].at = "started"
    BY DEF Idle
  <2> QED BY <1>7, <2>1 DEF refresh_noop, refresh_checkpoint, Silent
<1>8. CASE continue_load(w) \/ continue_parse(w)
  <2>1. \A g, s, t, b :
          /\ [worker[w] EXCEPT !.at = "step", !.gen = g, !.state = s,
                               !.stage = t].at = "step"
          /\ [worker[w] EXCEPT !.at = "parse", !.units = b].at = "parse"
    BY <1>1 DEF WorkerRow
  <2> QED BY <1>8, <2>1 DEF continue_load, continue_parse, Silent
<1>12. CASE continue_parse_item(w)
  <2>1. PICK u \in worker[w].units : Put(w, [worker[w] EXCEPT !.units = @ \ {u}])
    BY <1>12 DEF continue_parse_item
  <2>2. [worker[w] EXCEPT !.units = @ \ {u}].at = "parse"
    BY <1>1, <1>12 DEF WorkerRow, continue_parse_item
  <2> QED BY <2>1, <2>2 DEF Silent
<1>9. CASE run_cleanup(w) \/ Refuse(w)
  <2>1. /\ [Idle EXCEPT !.at = "cleaned"].at = "cleaned"
        /\ [Idle EXCEPT !.at = "refused", !.job = worker[w].job].at = "refused"
    BY DEF Idle
  <2> QED BY <1>9, <2>1 DEF run_cleanup, Refuse, Silent
<1>10. CASE Answer(w)
  <2>1. Put(w, Idle)
    BY <1>10 DEF Answer, continue_answered, continue_failed, start_answered,
         cancel_answered, action_ended, answer_dropped, Free, Put
  <2>2. Idle.at = "idle"
    BY DEF Idle
  <2> QED BY <2>1, <2>2 DEF Silent
<1>11. CASE auto_continue(w) \/ click_index(w) \/ click_cancel(w) \/ click_cleanup(w)
  <2>1. /\ [Idle EXCEPT !.at = "head"].at = "head"
        /\ [Idle EXCEPT !.at = "load", !.job = view.job].at = "load"
        /\ [Idle EXCEPT !.at = "find", !.job = view.job].at = "find"
        /\ [Idle EXCEPT !.at = "clean", !.job = view.job].at = "clean"
    BY DEF Idle
  <2> QED BY <1>11, <2>1 DEF auto_continue, click_index, click_cancel,
         click_cleanup, Silent
<1> QED
  BY <1>3, <1>4, <1>5, <1>6, <1>7, <1>8, <1>9, <1>10, <1>11, <1>12
     DEF run_refresh, continue_refresh

\* A thread gets a row that reports truly, while no cancellation is dropped.
LEMMA PutReports ==
    ASSUME RefreshInvariant, FinishedKept, ReportsTrue, NEW w \in Workers,
           NEW row, Put(w, row), Reported(row)', ShownTrue',
           \A i \in Jobs : Active(i)' => Active(i) \/ i \in FreshJobs,
           \A i \in Jobs : job'[i].state = "cancelling" =>
              \/ /\ job[i].state = "cancelling" /\ job'[i].owner = job[i].owner
                 /\ worker[w].at = "acknowledge" => worker[w].job # i
              \/ row.at = "acknowledge" /\ row.job = i /\ job'[i].owner = Owner
    PROVE  ReportsTrue'
<1>1. /\ TypeOK /\ \A v \in Workers : RowOK(worker[v])
      /\ worker'[w] = row /\ \A v \in Workers \ {w} : worker'[v] = worker[v]
  BY DEF RefreshInvariant, JobsInvariant, WorkersOK, Put
<1>3. ASSUME NEW v \in Workers
      PROVE  Reported(worker[v])'
  <2>1. CASE v = w
    BY <1>1, <2>1 DEF Reported
  <2>2. CASE v # w
    <3>1. PICK old : old = worker[v]
      OBVIOUS
    <3>2. RowOK(old) /\ Reported(old) /\ old.job \notin FreshJobs
      BY <1>1, <3>1 DEF ReportsTrue, FreshJobs
    <3>3. old.at \in {"answer", "cancelled", "state"} => old.job \in Jobs
      BY <3>2 DEF RowOK, WithJob
    <3>4. Reported(old)'
      BY <3>2, <3>3 DEF Reported, FinishedKept, Terminal
    <3> QED BY <1>1, <2>2, <3>1, <3>4 DEF Reported
  <2> QED BY <2>1, <2>2
<1>4. ASSUME NEW i \in Jobs, job'[i].state = "cancelling"
      PROVE  job'[i].owner = Owner /\ Asked(i)'
  <2>1. CASE row.at = "acknowledge" /\ row.job = i /\ job'[i].owner = Owner
    BY <1>1, <2>1 DEF Asked
  <2>2. CASE /\ job[i].state = "cancelling" /\ job'[i].owner = job[i].owner
             /\ worker[w].at = "acknowledge" => worker[w].job # i
    <3>1. PICK v \in Workers : worker[v].at = "acknowledge" /\ worker[v].job = i
      BY <2>2 DEF ReportsTrue, Asked
    <3>2. worker'[v] = worker[v]
      BY <1>1, <2>2, <3>1
    <3> QED BY <2>2, <3>1, <3>2 DEF ReportsTrue, Asked
  <2> QED BY <1>4, <2>1, <2>2
<1> QED BY <1>3, <1>4 DEF ReportsTrue

\* Commands leave the panel alone.
LEMMA CommandElsewhere ==
    ASSUME NEW w \in Workers, Command(w)
    PROVE  UNCHANGED <<view, faults>>
<1>1. CASE run_refresh(w)
  BY <1>1 DEF run_refresh, refresh_head, refresh_register, refresh_reuse,
     refresh_start, refresh_manifest, refresh_inputs, refresh_plan,
     refresh_noop, refresh_clone, refresh_work, refresh_checkpoint, Elsewhere
<1>2. CASE continue_refresh(w)
  BY <1>2 DEF continue_refresh, continue_load, continue_cancelling,
     continue_break, continue_parse, continue_parse_item, continue_parse_end,
     continue_stage, continue_retry, continue_derived, lifecycle_result,
     Elsewhere
<1>3. CASE cancel_refresh(w) \/ run_cleanup(w)
  BY <1>3 DEF cancel_refresh, cancel_load, cancel_request, cancel_acknowledge,
     lifecycle_result, run_cleanup, Elsewhere
<1> QED BY <1>1, <1>2, <1>3 DEF Command

\* Between its two transactions a cancel command does nothing else.
LEMMA OnlyAcknowledges ==
    ASSUME NEW w \in Workers, Command(w), worker[w].at = "acknowledge"
    PROVE  cancel_acknowledge(w)
<1>1. ~run_refresh(w)
  BY DEF run_refresh, refresh_head, refresh_register, refresh_reuse,
     refresh_start, refresh_manifest, refresh_inputs, refresh_plan,
     refresh_noop, refresh_clone, refresh_work, refresh_checkpoint
<1>2. ~continue_refresh(w)
  BY DEF continue_refresh, continue_load, continue_cancelling, continue_break,
     continue_parse, continue_parse_item, continue_parse_end, continue_stage,
     continue_retry, continue_derived, lifecycle_result, At
<1>3. ~run_cleanup(w) /\ (cancel_refresh(w) => cancel_acknowledge(w))
  BY DEF run_cleanup, cancel_refresh, cancel_load, cancel_request,
     lifecycle_result
<1> QED BY <1>1, <1>2, <1>3 DEF Command

\* A command reports what it finds, and its refusal loses no cancellation.
LEMMA CommandReports ==
    ASSUME RefreshInvariant, FinishedKept, ReportsTrue, NEW w \in Workers,
           Command(w) \/ refused(w)
    PROVE  ReportsTrue'
<1> USE Parameters
<1> DEFINE j == worker[w].job
<1>1. /\ TypeOK /\ LeaseConsistent /\ ReadyPointerConsistent /\ WorkersOK
      /\ worker[w] \in WorkerRow /\ RowOK(worker[w])
  BY DEF RefreshInvariant, JobsInvariant, WorkersOK
<1>2. UNCHANGED view
  BY CommandElsewhere DEF refused, Refuse
<1>3. ShownTrue'
  BY <1>2 DEF ReportsTrue, ShownTrue, FinishedKept, Terminal
<1>4. ASSUME NEW row, Put(w, row), Reported(row)', JobsSettle,
             worker[w].at = "acknowledge" => job'[j].state # "cancelling"
      PROVE  ReportsTrue'
  BY <1>3, <1>4, PutReports DEF JobsSettle
<1>5. CASE cancel_request(w)
  <2> DEFINE x == [job[j] EXCEPT !.state = "cancelling", !.cancel = TRUE,
                                 !.updated = 0]
  <2>1. PICK row, k : row = [worker[w] EXCEPT !.at = "acknowledge"] /\ k = j
    OBVIOUS
  <2>2. k \in Jobs /\ Put(w, row) /\ row.at = "acknowledge" /\ row.job = k
    BY <1>1, <1>5, <2>1 DEF cancel_request, Goto, WorkerRow, RowOK, WithJob
  <2>3. /\ job' = [job EXCEPT ![k] = x] /\ job[k].owner = Owner /\ Active(k)
    BY <1>5, <2>1 DEF cancel_request, request_cancel, Active, ActiveStates
  <2>4. x.owner = Owner
    BY <1>1, <2>1, <2>2, <2>3 DEF TypeOK, JobRow
  <2>5. worker[w].at = "request"
    BY <1>5 DEF cancel_request
  <2> HIDE DEF x
  <2>6. /\ job'[k].owner = Owner
        /\ \A i \in Jobs \ {k} : job'[i] = job[i]
    BY <1>1, <2>2, <2>3, <2>4 DEF TypeOK
  <2>7. Reported(row)'
    BY <2>2, SilentReports DEF Silent
  <2>8. \A i \in Jobs : Active(i)' => Active(i)
    BY <2>3, <2>6 DEF Active
  <2> QED BY <1>3, <2>2, <2>5, <2>6, <2>7, <2>8, PutReports
<1>6. CASE cancel_acknowledge(w)
  <2>1. PICK row, k : row = [worker[w] EXCEPT !.at = "state"] /\ k = j
    OBVIOUS
  <2>2. k \in Jobs /\ Put(w, row) /\ row.at = "state" /\ row.job = k
    BY <1>1, <1>6, <2>1 DEF cancel_acknowledge, Goto, WorkerRow, RowOK, WithJob
  <2>3. job'[k].state = "cancelled"
    BY <1>1, <1>6, <2>1, <2>2 DEF cancel_acknowledge, acknowledge_cancel,
       finish_job, TypeOK, JobRow
  <2>4. Reported(row)'
    BY <2>2, <2>3 DEF Reported, Active, ActiveStates
  <2>5. JobsSettle
    <3>1. ~cancel_request(w)
      BY <1>6 DEF cancel_acknowledge, cancel_request
    <3> QED BY <1>6, <3>1, CommandSettles DEF Command, cancel_refresh
  <2> QED BY <1>4, <2>1, <2>2, <2>3, <2>4, <2>5
<1>7. CASE cancel_load(w)
  <2>1. PICK row, k :
          /\ row = [worker[w] EXCEPT !.at =
                      IF job[k].state \in {"running", "paused"}
                      THEN "request" ELSE "state"]
          /\ k = j
    OBVIOUS
  <2>2. /\ k \in Jobs /\ Put(w, row) /\ row.job = k /\ worker[w].at = "find"
        /\ row.at = IF job[k].state \in {"running", "paused"}
                    THEN "request" ELSE "state"
        /\ job' = job
    BY <1>1, <1>7, <2>1 DEF cancel_load, Goto, WorkerRow, RowOK, WithJob,
       StoreUnchanged
  <2>3. job[k].state # "cancelling"
    BY <1>7, <2>2 DEF cancel_load, DbLocked, ReportsTrue, Asked
  <2>4. Reported(row)'
    BY <2>2, <2>3 DEF Reported, Active, ActiveStates
  <2> QED BY <1>4, <2>2, <2>4, StillSettles
<1>8. ASSUME NEW step \in {"status", "state"}, NEW told \in {"answer", "cancelled"},
             step = "state" <=> told = "cancelled", lifecycle_result(w, step, told)
      PROVE  ReportsTrue'
  <2>1. PICK k, s, b :
          k = j /\ s = job[k].state /\ b = GenStatus(k, "ready")
    OBVIOUS
  <2>2. PICK row : row = [Idle EXCEPT !.at = told, !.job = k, !.state = s, !.ready = b]
    OBVIOUS
  <2>3. /\ Put(w, row) /\ job' = job /\ worker[w].at = step /\ s # "absent"
        /\ row.at = told /\ row.job = k /\ row.state = s
    BY <1>8, <2>1, <2>2 DEF lifecycle_result, StoreUnchanged, Idle
  <2>4. k \in Jobs
    BY <1>1, <1>8, <2>1, <2>3 DEF RowOK, WithJob
  <2>5. step = "state" => s \in TerminalStates
    BY <1>1, <2>1, <2>3, <2>4 DEF ReportsTrue, Reported, Active, TypeOK, JobRow
  <2>6. Reported(row)'
    BY <1>8, <2>1, <2>3, <2>5 DEF Reported
  <2> QED BY <1>4, <1>8, <2>3, <2>6, StillSettles
<1>9. CASE Command(w) /\ ~cancel_request(w) /\ ~cancel_acknowledge(w)
             /\ ~cancel_load(w) /\ ~lifecycle_result(w, "status", "answer")
             /\ ~lifecycle_result(w, "state", "cancelled")
  <2>1. worker[w].at # "acknowledge"
    BY <1>9, OnlyAcknowledges
  <2>2. PICK row : Put(w, row) /\ Silent(row)
    BY <1>1, <1>9, SilentSteps DEF Command, cancel_refresh
  <2>3. JobsSettle
    BY <1>9, CommandSettles
  <2> QED BY <1>4, <2>1, <2>2, <2>3, SilentReports
<1>10. CASE refused(w)
  <2>1. PICK row : Put(w, row) /\ Silent(row)
    BY <1>1, <1>10, SilentSteps DEF refused
  <2>2. job' = job /\ ~Matches(w)
    BY <1>10 DEF refused, Refuse, StoreUnchanged
  <2>3. ASSUME worker[w].at = "acknowledge"
        PROVE  job[j].state # "cancelling"
    <3> SUFFICES ASSUME job[j].state = "cancelling" PROVE FALSE
      OBVIOUS
    <3>1. j \in Jobs
      BY <1>1, <2>3 DEF RowOK, WithJob
    <3>2. job[j].owner = Owner /\ Active(j)
      BY <3>1 DEF ReportsTrue, Active, ActiveStates
    <3>3. NotRegressed(j, 0)
      BY <1>1, <3>1, RefreshAssumption DEF NotRegressed, TypeOK, JobRow, Time
    <3>4. GenStatus(j, "staging") \/ GenStatus(j, "ready")
      BY <1>1, <3>1, <3>2 DEF LeaseConsistent
    <3>5. GenStatus(j, "ready") => repo.ready = job[j].gen
      BY <1>1 DEF GenStatus, ReadyPointerConsistent
    <3> QED BY <2>2, <2>3, <3>2, <3>3, <3>4, <3>5 DEF Matches
  <2> QED BY <1>4, <2>1, <2>2, <2>3, SilentReports, StillSettles
<1>11. CASE lifecycle_result(w, "status", "answer")
  BY <1>8, <1>11
<1>12. CASE lifecycle_result(w, "state", "cancelled")
  BY <1>8, <1>12
<1> QED BY <1>5, <1>6, <1>7, <1>9, <1>10, <1>11, <1>12

\* The panel drives a job only while it shows it as running.
LEMMA DrivesStep ==
    ASSUME PanelOK, DrivesRunning, [RefreshNext]_refreshVars
    PROVE  DrivesRunning'
<1>1. view \in ViewRow
  BY DEF PanelOK
<1>2. ASSUME view'.current \in {NoWorker, view.current}, view'.state = view.state
      PROVE  DrivesRunning'
  BY <1>2 DEF DrivesRunning
<1>3. ASSUME view'.current = NoWorker
      PROVE  DrivesRunning'
  BY <1>3 DEF DrivesRunning
<1>4. ASSUME UNCHANGED view
      PROVE  DrivesRunning'
  BY <1>2, <1>4
<1>5. Mounted.current = NoWorker
  BY DEF Mounted
<1>6. ASSUME NEW w \in Workers, Answer(w)
      PROVE  DrivesRunning'
  <2>1. CASE continue_answered(w) \/ continue_failed(w) \/ start_answered(w)
               \/ cancel_answered(w)
    <3>1. view'.current = NoWorker
      BY <1>1, <2>1 DEF continue_answered, continue_failed, start_answered,
         cancel_answered, ViewRow
    <3> QED BY <1>3, <3>1
  <2>2. CASE action_ended(w) \/ answer_dropped(w)
    <3>1. view'.current = view.current /\ view'.state = view.state
      BY <1>1, <2>2 DEF action_ended, answer_dropped, ViewRow
    <3> QED BY <1>2, <3>1
  <2> QED BY <1>6, <2>1, <2>2 DEF Answer
<1>7. ASSUME NEW w \in Workers, auto_continue(w)
      PROVE  DrivesRunning'
  <2>1. view'.state = "running"
    BY <1>1, <1>7 DEF auto_continue, ViewRow
  <2> QED BY <2>1 DEF DrivesRunning
<1>8. ASSUME NEW w \in Workers, click_index(w) \/ click_cancel(w) \/ click_cleanup(w)
      PROVE  DrivesRunning'
  <2>1. view'.current \in {NoWorker, view.current} /\ view'.state = view.state
    BY <1>1, <1>8 DEF click_index, click_cancel, click_cleanup, ViewRow
  <2> QED BY <1>2, <2>1
<1>9. CASE mounted_status
  <2>1. CASE view' = [view EXCEPT !.loading = FALSE]
    <3>1. view'.current = view.current /\ view'.state = view.state
      BY <1>1, <2>1 DEF ViewRow
    <3> QED BY <1>2, <3>1
  <2>2. ASSUME NEW j \in CurrentJobs,
               view' = [view EXCEPT !.loading = FALSE, !.job = j,
                                    !.state = job[j].state,
                                    !.current = NoWorker,
                                    !.autoRun = job[j].state = "running"]
        PROVE  DrivesRunning'
    <3>1. view'.current = NoWorker
      BY <1>1, <2>2 DEF ViewRow
    <3> QED BY <1>3, <3>1
  <2> QED BY <1>9, <2>1, <2>2 DEF mounted_status
<1>10. CASE remount \/ crash
  BY <1>3, <1>5, <1>10 DEF remount, crash
<1>11. CASE move_head \/ UNCHANGED refreshVars
  BY <1>4, <1>11 DEF move_head, refreshVars
<1>12. ASSUME NEW w \in Workers, Command(w) \/ refused(w) \/ command_fails(w)
       PROVE  DrivesRunning'
  BY <1>4, <1>12, CommandElsewhere DEF refused, command_fails, Refuse
<1> QED
  BY <1>6, <1>7, <1>8, <1>9, <1>10, <1>11, <1>12 DEF RefreshNext

\* What the panel shows after a step of its own: the same, or what the store
\* or a true report says of a job.
ShowsTrue ==
    \/ view'.state = view.state /\ view'.job = view.job
    \/ view'.job = NoJobId /\ view'.state \notin TerminalStates
    \/ view'.job \in Jobs /\ job[view'.job].state = view'.state
    \/ /\ view'.job \in Jobs /\ view.state \notin TerminalStates
       /\ view'.state \in TerminalStates => job[view'.job].state = view'.state

\* A step that shows only what the store says keeps the view true, and no
\* finished job turns into another state: the store never revives one.
LEMMA ShownStays ==
    ASSUME ShownTrue, ShowsTrue, UNCHANGED job
    PROVE  ShownTrue' /\ ViewKept
<1>1. view.state \in TerminalStates => view.job # NoJobId
  BY RefreshAssumption DEF ShownTrue
<1> QED BY <1>1 DEF ShownTrue, ShowsTrue, ViewKept

\* The panel shows the state of a job only as an answer or the mounted query
\* reports it, and drops the answer of a poll it has given up.
LEMMA PanelShows ==
    ASSUME RefreshInvariant, PanelOK, DrivesRunning, ReportsTrue, PanelOnly,
           \/ mounted_status \/ remount
           \/ \E w \in Workers : \/ Answer(w) \/ auto_continue(w) \/ click_index(w)
                                 \/ click_cancel(w) \/ click_cleanup(w)
    PROVE  ShowsTrue
<1>1. /\ view \in ViewRow /\ TypeOK
      /\ \A w \in Workers : RowOK(worker[w]) /\ Reported(worker[w])
  BY DEF PanelOK, RefreshInvariant, JobsInvariant, WorkersOK, ReportsTrue
<1>2. CASE mounted_status
  <2>1. CASE view' = [view EXCEPT !.loading = FALSE]
    BY <1>1, <2>1 DEF ViewRow, ShowsTrue
  <2>2. ASSUME NEW j \in CurrentJobs,
               view' = [view EXCEPT !.loading = FALSE, !.job = j,
                                    !.state = job[j].state,
                                    !.current = NoWorker,
                                    !.autoRun = job[j].state = "running"]
        PROVE  ShowsTrue
    <3>1. view'.job = j /\ view'.state = job[j].state
      BY <1>1, <2>2 DEF ViewRow
    <3>2. j \in Jobs
      BY DEF CurrentJobs
    <3> QED BY <3>1, <3>2 DEF ShowsTrue
  <2> QED BY <1>2, <2>1, <2>2 DEF mounted_status
<1>3. CASE remount
  BY <1>3 DEF remount, Mounted, ShowsTrue, TerminalStates
<1>4. ASSUME NEW w \in Workers, Answer(w)
      PROVE  ShowsTrue
  <2> DEFINE k == worker[w].job
             s == worker[w].state
  <2>1. CASE continue_answered(w)
    <3>1. view'.job = k /\ view'.state = s /\ worker[w].at = "answer"
            /\ view.current = w
      BY <1>1, <2>1 DEF continue_answered, ViewRow
    <3>2. view.state = "running"
      BY <3>1, RefreshAssumption DEF DrivesRunning
    <3>3. k \in Jobs /\ (s \in TerminalStates => job[k].state = s)
      BY <1>1, <3>1 DEF RowOK, WithJob, Reported
    <3> QED BY <3>1, <3>2, <3>3 DEF ShowsTrue, TerminalStates
  <2>2. CASE cancel_answered(w)
    <3>1. view'.job = k /\ view'.state = s /\ worker[w].at = "cancelled"
      BY <1>1, <2>2 DEF cancel_answered, ViewRow
    <3>2. k \in Jobs /\ job[k].state = s
      BY <1>1, <3>1 DEF RowOK, WithJob, Reported
    <3> QED BY <3>1, <3>2 DEF ShowsTrue
  <2>3. CASE start_answered(w)
    <3>1. /\ view'.job = k
          /\ view'.state = IF k = NoJobId THEN "absent" ELSE job[k].state
      BY <1>1, <2>3 DEF start_answered, ViewRow
    <3>2. k \in Jobs \cup {NoJobId}
      BY <1>1 DEF RowOK, WorkerRow
    <3> QED BY <3>1, <3>2 DEF ShowsTrue, TerminalStates
  <2>4. CASE continue_failed(w) \/ action_ended(w) \/ answer_dropped(w)
    BY <1>1, <2>4 DEF continue_failed, action_ended, answer_dropped, ViewRow,
       ShowsTrue
  <2> QED BY <1>4, <2>1, <2>2, <2>3, <2>4 DEF Answer
<1>5. ASSUME NEW w \in Workers,
             auto_continue(w) \/ click_index(w) \/ click_cancel(w) \/ click_cleanup(w)
      PROVE  ShowsTrue
  BY <1>1, <1>5 DEF auto_continue, click_index, click_cancel, click_cleanup,
     ViewRow, ShowsTrue
<1> QED BY <1>2, <1>3, <1>4, <1>5

\* Every step without a fault keeps the reports true and settled views.
LEMMA ViewStep ==
    ASSUME StagesInvariant, ViewInvariant, [RefreshNext]_refreshVars
    PROVE  ViewInvariant' /\ (faults' = 0 => ViewKept)
<1>1. RefreshInvariant /\ PanelOK /\ TypeOK /\ WorkersOK /\ DrivesRunning
  BY DEF StagesInvariant, RefreshInvariant, JobsInvariant, ViewInvariant
<1>2. DrivesRunning'
  BY <1>1, DrivesStep
<1>3. FinishedKept
  <2>1. [Next]_vars
    BY <1>1, StepSimulates
  <2> QED BY <1>1, <2>1, FinishedStep
<1> SUFFICES ASSUME faults' = 0
             PROVE  ReportsTrue' /\ ViewKept
  BY <1>2 DEF ViewInvariant
<1>4. faults \in Nat
  BY <1>1, RefreshAssumption DEF PanelOK
<1>5. ~crash /\ \A w \in Workers : ~command_fails(w)
  BY <1>4 DEF crash, command_fails
<1>6. faults = 0
  <2>1. ASSUME NEW w \in Workers, Command(w) \/ refused(w)
        PROVE  faults' = faults
    BY <2>1, CommandElsewhere DEF refused
  <2>2. ASSUME NEW w \in Workers,
               \/ Answer(w) \/ auto_continue(w) \/ click_index(w)
               \/ click_cancel(w) \/ click_cleanup(w)
        PROVE  faults' = faults
    BY <2>2 DEF Answer, continue_answered, continue_failed, start_answered,
         cancel_answered, action_ended, answer_dropped, auto_continue,
         click_index, click_cancel, click_cleanup, PanelOnly
  <2>3. CASE mounted_status \/ remount \/ move_head \/ UNCHANGED refreshVars
    BY <2>3 DEF mounted_status, remount, move_head, refreshVars, PanelOnly
  <2> QED BY <1>5, <2>1, <2>2, <2>3 DEF RefreshNext
<1>7. ReportsTrue /\ ShownTrue
  BY <1>6 DEF ViewInvariant, ReportsTrue
<1>8. ASSUME NEW w \in Workers, Command(w) \/ refused(w)
      PROVE  ReportsTrue' /\ ViewKept
  <2>1. UNCHANGED view
    BY <1>8, CommandElsewhere DEF refused, Refuse
  <2> QED BY <1>1, <1>3, <1>7, <1>8, <2>1, CommandReports DEF ViewKept
<1>9. ASSUME NEW w \in Workers,
             \/ Answer(w) \/ auto_continue(w) \/ click_index(w)
             \/ click_cancel(w) \/ click_cleanup(w)
      PROVE  ReportsTrue' /\ ViewKept
  <2>1. PanelOnly /\ worker[w].at \in Finished \cup {"idle"}
    BY <1>9 DEF Answer, continue_answered, continue_failed, start_answered,
         cancel_answered, action_ended, answer_dropped, auto_continue,
         click_index, click_cancel, click_cleanup, Finished, Idle
  <2>2. ShowsTrue
    BY <1>1, <1>7, <1>9, <2>1, PanelShows
  <2>3. ShownTrue' /\ ViewKept /\ job' = job
    BY <1>7, <2>1, <2>2, ShownStays DEF PanelOnly, StoreUnchanged
  <2>4. PICK row : Put(w, row) /\ Silent(row)
    BY <1>1, <1>9, SilentSteps
  <2>5. JobsSettle /\ worker[w].at # "acknowledge"
    BY <2>1, <2>3, StillSettles DEF Finished
  <2>6. Reported(row)'
    BY <2>4, SilentReports
  <2> QED BY <1>1, <1>3, <1>7, <2>3, <2>4, <2>5, <2>6, PutReports DEF JobsSettle
<1>10. CASE mounted_status \/ remount \/ move_head \/ UNCHANGED refreshVars
  <2>1. UNCHANGED <<job, worker>>
    BY <1>10 DEF mounted_status, remount, move_head, refreshVars, PanelOnly,
       StoreUnchanged
  <2>2. ShownTrue' /\ ViewKept
    <3>1. CASE mounted_status \/ remount
      <4>1. ShowsTrue
        BY <1>1, <1>7, <3>1, PanelShows DEF mounted_status, remount
      <4> QED BY <1>7, <2>1, <4>1, ShownStays
    <3>2. CASE move_head \/ UNCHANGED refreshVars
      <4>1. UNCHANGED view
        BY <3>2 DEF move_head, refreshVars
      <4> QED BY <1>7, <2>1, <4>1 DEF ShownTrue, ViewKept
    <3> QED BY <1>10, <3>1, <3>2
  <2> QED BY <1>7, <2>1, <2>2 DEF ReportsTrue, Reported, Asked, Active
<1> QED BY <1>5, <1>8, <1>9, <1>10 DEF RefreshNext

\* As long as no command was cut off, no step shows a job that the panel shows
\* as completed, failed or cancelled in another state, for any number of
\* polling and cancelling commands whose answers overtake each other
\* (BusinessRuleArchaeologyOperations.tsx: the `current` flag of the effect).
THEOREM SettledViewsStay == RefreshSpec => SettledViewStays
<1>1. RefreshInit => ViewInvariant
  <2> SUFFICES ASSUME RefreshInit PROVE ViewInvariant
    OBVIOUS
  <2>1. /\ view = Mounted /\ \A w \in Workers : worker[w] = Idle
        /\ \A j \in Jobs : job[j].state = "absent"
    BY DEF RefreshInit, Init, NoJob
  <2>2. Mounted.current = NoWorker /\ Mounted.state = "absent" /\ Idle.at = "idle"
    BY DEF Mounted, Idle
  <2> QED BY <2>1, <2>2 DEF ViewInvariant, DrivesRunning, ReportsTrue, ShownTrue,
             Reported, TerminalStates
<1>2. StagesInvariant /\ ViewInvariant /\ [RefreshNext]_refreshVars => ViewInvariant'
  BY ViewStep
<1>3. StagesInvariant /\ ViewInvariant /\ [RefreshNext]_refreshVars
        => [faults' = 0 /\ view.state \in TerminalStates /\ view'.job = view.job
              => view'.state = view.state]_refreshVars
  BY ViewStep DEF ViewKept
<1> QED BY <1>1, <1>2, <1>3, StagesHold, PTL DEF RefreshSpec, SettledViewStays

----------------------------------------------------------------------------
(* The work plan, with one thread and no faults.                           *)
(*                                                                         *)
(* The dependency rows of a generation are stored by the command that      *)
(* derives it, in a transaction of their own.  If no other command and no  *)
(* fault comes between, a published generation has the rows of every       *)
(* reference and of the copies whose lineage it holds, and by the          *)
(* invariant of ArchaeologyStagesProofs that is the lineage of every unit  *)
(* its job parsed.                                                         *)

Undisturbed == (\A v, w \in Workers : v = w) /\ MaxFaults = 0

\* The rows that a generation has at least once it is derived.
Needed(g) == References \cup {d \in Copies : d[1] \in RefreshedFor(g)}

\* What a plan has to cover when the sources are at revision r.
Due(r) == ReverseClosure(Changed(r), Needed(repo.ready))

\* The stages of a generation whose facts are derived.
Derived == {"synthesize", "validate", "publish", "cleanup"}

\* What the thread holds agrees with the rows, and the units it planned are due.
Follows(row) ==
    /\ row.at = "step" => job[row.job].gen = row.gen
    /\ row.at = "derived" => /\ Active(row.job) /\ job[row.job].gen = row.gen
                             /\ job[row.job].stage = "synthesize"
    /\ row.at \in Preparing => gen[row.gen].revision = row.rev
    /\ row.at \in {"clone", "work", "checkpoint"} /\ repo.ready # NoGen
         => Due(row.rev) \subseteq row.units
    /\ row.at = "checkpoint" => job[row.job].plan = row.units

\* The thread is between the derive transaction and the one that stores the
\* dependencies of generation g.
Storing(g) == \E w \in Workers : worker[w].at = "derived" /\ worker[w].gen = g

DependenciesStored ==
    /\ repo.ready # NoGen => Needed(repo.ready) \subseteq deps[repo.ready]
    /\ \A j \in Jobs : Active(j) /\ job[j].stage \in Derived
          => Needed(job[j].gen) \subseteq deps[job[j].gen] \/ Storing(job[j].gen)

PlanInvariant ==
    /\ DependenciesStored /\ PlanCoversRefreshed
    /\ \A w \in Workers : Follows(worker[w])

\* The plans of the jobs of generation g stay, and no other job gets it.
PlansKept(g) ==
    \A i \in Jobs : job[i].gen = g \/ job'[i].gen = g
        => job'[i].gen = g /\ job[i].gen = g /\ job'[i].plan = job[i].plan

\* The ready generation and what was planned for it stay.
ReadyKept ==
    /\ repo'.ready = repo.ready
    /\ repo.ready # NoGen =>
          /\ gen'[repo.ready].revision = gen[repo.ready].revision
          /\ PlansKept(repo.ready)

\* What most transactions leave alone: the ready generation, the stored
\* dependencies, and the revision and the plan of a job in progress.
Plain ==
    /\ ReadyKept /\ UNCHANGED deps
    /\ \A i \in Jobs : Active(i)' =>
          /\ Active(i) /\ job'[i].gen = job[i].gen
          /\ gen'[job[i].gen].revision = gen[job[i].gen].revision
          /\ \/ job'[i].stage = job[i].stage /\ job'[i].plan = job[i].plan
             \/ job'[i].stage \notin Derived \cup {"parse"}
             \/ job[i].stage \in Derived /\ job'[i].stage \in Derived
          /\ job'[i].stage \in Derived => PlansKept(job[i].gen)

\* A row that holds nothing to follow.
Untied(row) == row.at \notin {"step", "derived"} \cup Preparing

\* Nothing can be wrong with it, whatever the tables hold.
LEMMA UntiedFollows ==
    ASSUME NEW row, Untied(row)
    PROVE  Follows(row) /\ Follows(row)'
  BY DEF Untied, Follows, Preparing

\* The rows a generation needs are as many as its jobs planned units.
LEMMA NeededStays ==
    ASSUME NEW g, PlansKept(g)
    PROVE  Needed(g)' = Needed(g)
<1>1. RefreshedFor(g)' = RefreshedFor(g)
  BY DEF RefreshedFor, PlansKept
<1> QED BY <1>1 DEF Needed

\* As long as the ready generation stays, what is due stays.
LEMMA DueStays ==
    ASSUME ReadyKept, repo.ready # NoGen, NEW r
    PROVE  Due(r)' = Due(r)
<1>1. Changed(r)' = Changed(r)
  BY DEF Changed, ReadyKept
<1>2. PICK g : g = repo.ready
  OBVIOUS
<1>3. Needed(g)' = Needed(g)
  BY <1>2, NeededStays DEF ReadyKept
<1>4. Needed(repo.ready)' = Needed(g)'
  BY <1>2 DEF ReadyKept, Needed, RefreshedFor
<1> QED BY <1>1, <1>2, <1>3, <1>4 DEF Due, ReverseClosure

\* More rows, a larger closure.
LEMMA ClosureMonotone ==
    ASSUME NEW seeds, NEW rows, NEW more, rows \subseteq more
    PROVE  ReverseClosure(seeds, rows) \subseteq ReverseClosure(seeds, more)
  BY DEF ReverseClosure

\* The plans of jobs in their parse stage still cover what is due.
LEMMA CoverStays ==
    ASSUME PlanCoversRefreshed, ReadyKept,
           \A i \in Jobs : Active(i)' /\ job'[i].stage = "parse" =>
              /\ Active(i) /\ job[i].stage = "parse" /\ job'[i].plan = job[i].plan
              /\ gen'[job'[i].gen].revision = gen[job[i].gen].revision
    PROVE  PlanCoversRefreshed'
<1> SUFFICES ASSUME NEW i \in Jobs, Active(i)', job'[i].stage = "parse",
                    repo'.ready # NoGen
             PROVE  (Due(gen[job[i].gen].revision) \subseteq job[i].plan)'
  BY DEF PlanCoversRefreshed, Due, Needed
<1>1. PICK r : r = gen[job[i].gen].revision
  OBVIOUS
<1>2. gen'[job'[i].gen].revision = r /\ job'[i].plan = job[i].plan
  BY <1>1
<1>3. Due(r) \subseteq job[i].plan
  BY <1>1 DEF PlanCoversRefreshed, Due, Needed, ReadyKept
<1>4. Due(r)' = Due(r)
  BY DueStays DEF ReadyKept
<1>5. Due(gen[job[i].gen].revision)' = Due(r)'
  BY <1>2 DEF Due, Changed
<1> QED BY <1>2, <1>3, <1>4, <1>5

\* The one thread gets a row.
LEMMA OnlyRow ==
    ASSUME Undisturbed, WorkersOK, NEW w \in Workers, NEW row, Put(w, row)
    PROVE  /\ \A v \in Workers : worker[v] = worker[w] /\ worker'[v] = row
           /\ row.at = "derived" => Storing(row.gen)'
  BY DEF Undisturbed, WorkersOK, Put, Storing

\* A step that is plain, of a thread that has no dependencies to store.
LEMMA PlainKeeps ==
    ASSUME Undisturbed, WorkersOK, PlanInvariant, Plain, NEW w \in Workers,
           worker[w].at # "derived", NEW row, Put(w, row), Follows(row)'
    PROVE  PlanInvariant'
<1>1. \A v \in Workers : worker[v].at # "derived" /\ worker'[v] = row
  BY OnlyRow
<1>2. \A g : ~Storing(g)
  BY <1>1 DEF Storing
<1>3. DependenciesStored'
  <2>1. ASSUME repo'.ready # NoGen
        PROVE  Needed(repo.ready)' \subseteq deps'[repo'.ready]
    <3>1. PICK g : g = repo.ready
      OBVIOUS
    <3>2. Needed(g)' = Needed(g) /\ Needed(g) \subseteq deps[g]
      BY <2>1, <3>1, NeededStays
         DEF Plain, ReadyKept, PlanInvariant, DependenciesStored
    <3>3. Needed(repo.ready)' = Needed(g)'
      BY <3>1 DEF Plain, ReadyKept, Needed, RefreshedFor
    <3> QED BY <3>1, <3>2, <3>3 DEF Plain, ReadyKept
  <2>2. ASSUME NEW i \in Jobs, Active(i)', job'[i].stage \in Derived
        PROVE  Needed(job[i].gen)' \subseteq deps'[job'[i].gen]
    <3>1. PICK g : g = job[i].gen
      OBVIOUS
    <3>2. Active(i) /\ job[i].stage \in Derived /\ job'[i].gen = g /\ PlansKept(g)
      BY <2>2, <3>1 DEF Plain
    <3>3. Needed(g)' = Needed(g) /\ Needed(g) \subseteq deps[g]
      BY <1>2, <3>1, <3>2, NeededStays DEF PlanInvariant, DependenciesStored
    <3>4. Needed(job[i].gen)' = Needed(g)'
      BY <3>1, <3>2 DEF Needed, RefreshedFor
    <3> QED BY <3>2, <3>3, <3>4 DEF Plain
  <2> QED BY <2>1, <2>2 DEF DependenciesStored
<1>4. PlanCoversRefreshed'
  <2>1. \A i \in Jobs : Active(i)' /\ job'[i].stage = "parse" =>
              /\ Active(i) /\ job[i].stage = "parse" /\ job'[i].plan = job[i].plan
              /\ gen'[job'[i].gen].revision = gen[job[i].gen].revision
    BY DEF Plain, Derived
  <2> QED BY <2>1, CoverStays DEF PlanInvariant, Plain
<1>5. \A v \in Workers : Follows(worker[v])'
  <2> TAKE v \in Workers
  <2>1. worker'[v] = row
    BY <1>1
  <2> QED BY <2>1 DEF Follows
<1> QED BY <1>3, <1>4, <1>5 DEF PlanInvariant

\* No step of the store or of a thread.
LEMMA StillFollows ==
    ASSUME PlanInvariant, UNCHANGED <<repo, gen, job, deps, worker>>
    PROVE  PlanInvariant'
  BY DEF PlanInvariant, DependenciesStored, PlanCoversRefreshed, Follows, Due,
         Changed, ReverseClosure, Storing, Active, Needed, RefreshedFor

\* The store is left alone, and the thread gets a row.
LEMMA RowFollows ==
    ASSUME Undisturbed, WorkersOK, PlanInvariant, NEW w \in Workers,
           worker[w].at # "derived", NEW row, Put(w, row), Follows(row),
           StoreUnchanged, UNCHANGED deps
    PROVE  PlanInvariant'
<1>1. Plain
  BY DEF Plain, ReadyKept, PlansKept, StoreUnchanged, Active
<1>2. Follows(row)'
  BY DEF Follows, StoreUnchanged, Due, Changed, ReverseClosure, Active, Needed,
     RefreshedFor
<1> QED BY <1>1, <1>2, PlainKeeps

\* The steps that write nothing but the row of their thread.
LEMMA ReadersFollow ==
    ASSUME Undisturbed, RefreshInvariant, PlanInvariant, NEW w \in Workers,
           \/ refresh_head(w) \/ refresh_reuse(w) \/ refresh_plan(w)
           \/ continue_load(w) \/ continue_break(w) \/ continue_parse(w)
           \/ continue_retry(w) \/ cancel_load(w)
           \/ lifecycle_result(w, "status", "answer")
           \/ lifecycle_result(w, "state", "cancelled")
    PROVE  PlanInvariant'
<1>1. WorkersOK /\ TypeOK /\ worker[w] \in WorkerRow /\ Follows(worker[w])
        /\ worker \in [Workers -> WorkerRow]
  BY DEF RefreshInvariant, JobsInvariant, WorkersOK, PlanInvariant
<1>2. StoreUnchanged /\ UNCHANGED deps /\ worker[w].at # "derived"
  BY DEF refresh_head, refresh_reuse, refresh_plan, continue_load, continue_break,
     continue_parse, continue_retry, cancel_load, lifecycle_result, At
<1>3. ASSUME NEW row, Put(w, row), Follows(row)
      PROVE  PlanInvariant'
  BY <1>1, <1>2, <1>3, RowFollows
<1>4. ASSUME NEW row, Put(w, row), Untied(row)
      PROVE  PlanInvariant'
  <2>1. Follows(row)
    BY <1>4, UntiedFollows
  <2> QED BY <1>3, <1>4, <2>1
<1>5. ASSUME NEW step, Goto(w, step), step \notin {"step", "derived"} \cup Preparing
      PROVE  PlanInvariant'
  <2>1. [worker[w] EXCEPT !.at = step].at = step
    BY <1>1 DEF WorkerRow
  <2> QED BY <1>4, <1>5, <2>1 DEF Goto, Untied
<1>6. CASE refresh_head(w) \/ refresh_reuse(w)
  <2>1. /\ [Idle EXCEPT !.at = "started"].at = "started"
        /\ [worker[w] EXCEPT !.at = "register", !.rev = head].at = "register"
    BY <1>1 DEF Idle, WorkerRow
  <2> QED BY <1>4, <1>6, <2>1 DEF refresh_head, refresh_reuse, Untied, Preparing
<1>7. CASE refresh_plan(w)
  <2> DEFINE next == IF repo.ready # NoGen /\ Changed(worker[w].rev) = {}
                     THEN "noop" ELSE "clone"
             units == Invalidated(worker[w].rev)
             row == [worker[w] EXCEPT !.at = next, !.units = units]
  <2>1. Put(w, row) /\ worker[w].at = "plan"
    BY <1>7 DEF refresh_plan
  <2>2. repo.ready # NoGen => Due(worker[w].rev) \subseteq units
    BY ClosureMonotone DEF PlanInvariant, DependenciesStored, Invalidated, Due
  <2>3. next \in {"noop", "clone"}
    OBVIOUS
  <2> HIDE DEF next, units
  <2>4. /\ row.at = next /\ row.units = units /\ row.gen = worker[w].gen
        /\ row.rev = worker[w].rev
    BY <1>1 DEF WorkerRow
  <2>5. gen[worker[w].gen].revision = worker[w].rev
    BY <1>1, <2>1 DEF Follows, Preparing
  <2> HIDE DEF row
  <2>6. Follows(row)
    BY <2>2, <2>3, <2>4, <2>5 DEF Follows
  <2> QED BY <1>3, <2>1, <2>6
<1>8. CASE continue_load(w)
  <2> DEFINE j == worker[w].job
             g == job[j].gen
             s == job[j].state
             t == job[j].stage
             row == [worker[w] EXCEPT !.at = "step", !.gen = g, !.state = s,
                                      !.stage = t]
  <2>1. Put(w, row)
    BY <1>8 DEF continue_load
  <2> HIDE DEF g, s, t
  <2>2. row.at = "step" /\ row.gen = g /\ row.job = j
    BY <1>1 DEF WorkerRow
  <2> HIDE DEF row
  <2>3. Follows(row)
    BY <2>2 DEF Follows, Preparing, g
  <2> QED BY <1>3, <2>1, <2>3
<1>9. CASE continue_break(w) \/ cancel_load(w)
  BY <1>5, <1>9 DEF continue_break, cancel_load, Preparing
<1>10. CASE continue_parse(w)
  <2>1. \A b : [worker[w] EXCEPT !.at = "parse", !.units = b].at = "parse"
    BY <1>1 DEF WorkerRow
  <2> QED BY <1>4, <1>10, <2>1 DEF continue_parse, Untied, Preparing
<1>11. CASE continue_retry(w)
  <2>1. PICK stage \in Stages :
          /\ At(w, stage) /\ AlreadyDone(stage, worker[w].job)
          /\ Goto(w, AfterStage(stage))
    BY <1>11 DEF continue_retry
  <2>2. CASE stage # "derive"
    BY <1>5, <2>1, <2>2 DEF AfterStage, Preparing
  <2>3. CASE stage = "derive"
    <3> DEFINE row == [worker[w] EXCEPT !.at = "derived"]
    <3>1. Put(w, row)
      BY <2>1, <2>3 DEF AfterStage, Goto
    <3>2. row.at = "derived" /\ row.gen = worker[w].gen /\ row.job = worker[w].job
      BY <1>1 DEF WorkerRow
    <3> HIDE DEF row
    <3>3. worker[w].at = "step" /\ job[worker[w].job].stage = "synthesize"
            /\ Active(worker[w].job)
      BY <2>1, <2>3 DEF At, AlreadyDone, ActiveJobScope, HoldsLease, Active, ActiveStates
    <3>4. Follows(row)
      BY <1>1, <3>2, <3>3 DEF Follows, Preparing
    <3> QED BY <1>3, <3>1, <3>4
  <2> QED BY <2>2, <2>3
<1>12. ASSUME NEW step, NEW told \in {"answer", "cancelled"},
              lifecycle_result(w, step, told)
       PROVE  PlanInvariant'
  <2> DEFINE row == [Idle EXCEPT !.at = told, !.job = worker[w].job,
                            !.state = job[worker[w].job].state,
                            !.ready = GenStatus(worker[w].job, "ready")]
  <2>1. Put(w, row)
    BY <1>12 DEF lifecycle_result
  <2>2. row.at = told
    BY DEF Idle
  <2> HIDE DEF row
  <2> QED BY <1>4, <2>1, <2>2 DEF Untied, Preparing
<1> QED BY <1>6, <1>7, <1>8, <1>9, <1>10, <1>11, <1>12

\* The answers, the clicks, the timer and the refusals.
LEMMA PanelFollows ==
    ASSUME Undisturbed, RefreshInvariant, PlanInvariant, NEW w \in Workers,
           \/ Answer(w) \/ auto_continue(w) \/ click_index(w)
           \/ click_cancel(w) \/ click_cleanup(w) \/ refused(w)
    PROVE  PlanInvariant'
<1>1. WorkersOK /\ LeaseConsistent /\ RowOK(worker[w]) /\ Follows(worker[w])
        /\ Idle.at = "idle"
  BY DEF RefreshInvariant, JobsInvariant, WorkersOK, PlanInvariant, Idle
<1>2. ASSUME NEW row, Put(w, row), Untied(row), StoreUnchanged, UNCHANGED deps,
             worker[w].at # "derived"
      PROVE  PlanInvariant'
  <2>1. Follows(row)
    BY <1>2, UntiedFollows
  <2> QED BY <1>1, <1>2, <2>1, RowFollows
<1>3. CASE Answer(w)
  <2>1. Put(w, Idle) /\ StoreUnchanged /\ UNCHANGED deps /\ worker[w].at \in Finished
    BY <1>3 DEF Answer, continue_answered, continue_failed, start_answered,
         cancel_answered, action_ended, answer_dropped, PanelOnly, Free, Put,
         Finished
  <2> QED BY <1>1, <1>2, <2>1 DEF Finished, Untied, Preparing
<1>4. CASE auto_continue(w) \/ click_index(w) \/ click_cancel(w) \/ click_cleanup(w)
  <2>1. [Idle EXCEPT !.at = "head"].at = "head"
    BY DEF Idle
  <2>2. /\ [Idle EXCEPT !.at = "load", !.job = view.job].at = "load"
        /\ [Idle EXCEPT !.at = "find", !.job = view.job].at = "find"
        /\ [Idle EXCEPT !.at = "clean", !.job = view.job].at = "clean"
    BY DEF Idle
  <2>3. StoreUnchanged /\ UNCHANGED deps /\ worker[w].at # "derived"
    BY <1>1, <1>4 DEF auto_continue, click_index, click_cancel,
         click_cleanup, PanelOnly
  <2>4. \E row : Put(w, row) /\ row.at \in {"head", "load", "find", "clean"}
    BY <1>4, <2>1, <2>2 DEF auto_continue, click_index, click_cancel,
         click_cleanup
  <2> QED BY <1>2, <2>3, <2>4 DEF Untied, Preparing
<1>5. CASE refused(w)
  <2>1. worker[w].at # "derived"
    <3> SUFFICES ASSUME worker[w].at = "derived" PROVE FALSE
      OBVIOUS
    <3>1. worker[w].job \in Jobs /\ ~Matches(w)
      BY <1>1, <1>5 DEF refused, RowOK, WithJob
    <3>2. GenStatus(worker[w].job, "staging") /\ job[worker[w].job].gen = worker[w].gen
      BY <1>1, <3>1 DEF Follows, LeaseConsistent
    <3> QED BY <3>1, <3>2 DEF Matches, GenStatus
  <2>2. /\ Put(w, [Idle EXCEPT !.at = "refused", !.job = worker[w].job])
        /\ StoreUnchanged /\ UNCHANGED deps
    BY <1>5 DEF refused, Refuse
  <2>3. [Idle EXCEPT !.at = "refused", !.job = worker[w].job].at = "refused"
    BY DEF Idle
  <2> QED BY <1>2, <2>1, <2>2, <2>3 DEF Untied, Preparing
<1> QED BY <1>3, <1>4, <1>5

\* A transaction of an active job is plain if its stage is.
LEMMA JobWritePlain ==
    ASSUME TypeOK, LeaseConsistent, NEW j \in Jobs, Active(j), NEW x,
           job' = [job EXCEPT ![j] = x], x.gen = job[j].gen,
           repo' = repo, UNCHANGED deps,
           \A g \in Gens : gen'[g].revision = gen[g].revision,
           x.state \in ActiveStates =>
              \/ x.stage = job[j].stage /\ x.plan = job[j].plan
              \/ x.stage \notin Derived \cup {"parse"}
              \/ job[j].stage \in Derived /\ x.stage \in Derived,
           \/ x.plan = job[j].plan
           \/ job[j].gen # repo.ready /\ x.stage \notin Derived
    PROVE  Plain
<1>1. /\ job'[j] = x /\ \A i \in Jobs \ {j} : ~Active(i)'
      /\ \A i \in Jobs \ {j} : job'[i] = job[i]
  BY DEF TypeOK, LeaseConsistent, Active
<1>2. job[j].gen \in Gens /\ (repo.ready # NoGen => repo.ready \in Gens)
  BY DEF LeaseConsistent, GenStatus, TypeOK, RepoRow
<1>3. Active(j)' => x.state \in ActiveStates
  BY <1>1 DEF Active
<1>4. \A g : x.plan = job[j].plan \/ g # job[j].gen => PlansKept(g)
  BY <1>1 DEF PlansKept
<1>5. ReadyKept
  BY <1>2, <1>4 DEF ReadyKept
<1> QED BY <1>1, <1>2, <1>3, <1>4, <1>5 DEF Plain

\* A transaction that ends the only active job is plain.
LEMMA EndPlain ==
    ASSUME ReadyKept, UNCHANGED deps, \A i \in Jobs : ~Active(i)'
    PROVE  Plain
  BY DEF Plain

\* The writes of the prepared data and of the facts are plain.
LEMMA DataPlain ==
    ASSUME TypeOK, LeaseConsistent, job' = job, repo'.ready = repo.ready,
           UNCHANGED deps, \A g \in Gens : gen'[g].revision = gen[g].revision
    PROVE  Plain
<1>1. repo.ready # NoGen => repo.ready \in Gens
  BY DEF TypeOK, RepoRow
<1>2. \A i \in Jobs : Active(i)' => Active(i) /\ job[i].gen \in Gens
  BY DEF Active, LeaseConsistent, GenStatus
<1> QED BY <1>1, <1>2 DEF Plain, ReadyKept, PlansKept

\* A thread that prepares a job goes on: its revision and its units stay.
LEMMA PreparationFollows ==
    ASSUME Plain, NEW old, NEW row, Follows(old), old.at \in Preparing,
           row.at \in Preparing, row.gen = old.gen, row.rev = old.rev,
           row.units = old.units, gen'[row.gen].revision = gen[row.gen].revision,
           row.at \in {"clone", "work", "checkpoint"} =>
              old.at \in {"clone", "work", "checkpoint"},
           row.at = "checkpoint" => job'[row.job].plan = row.units
    PROVE  Follows(row)'
<1>1. gen'[row.gen].revision = row.rev
  BY DEF Follows
<1>2. ASSUME row.at \in {"clone", "work", "checkpoint"}, repo'.ready # NoGen
      PROVE  Due(row.rev)' \subseteq row.units
  <2>1. PICK r : r = row.rev
    OBVIOUS
  <2>2. ReadyKept /\ repo.ready # NoGen
    BY <1>2 DEF Plain, ReadyKept
  <2>3. Due(r)' = Due(r)
    BY <2>2, DueStays
  <2>4. Due(r) \subseteq row.units
    BY <1>2, <2>1, <2>2 DEF Follows
  <2>5. Due(row.rev)' = Due(r)'
    BY <2>1 DEF Due, Changed
  <2> QED BY <2>3, <2>4, <2>5
<1> QED BY <1>1, <1>2 DEF Follows, Preparing

\* The commands that write in a plain way.
LEMMA WritersFollow ==
    ASSUME Undisturbed, RefreshInvariant, ContentOK, PreparationOK,
           PlanInvariant, NEW w \in Workers,
           \/ refresh_register(w) \/ refresh_manifest(w) \/ refresh_noop(w)
           \/ refresh_clone(w) \/ refresh_work(w)
           \/ continue_cancelling(w) \/ continue_parse_item(w)
           \/ continue_parse_end(w) \/ cancel_request(w)
           \/ cancel_acknowledge(w) \/ run_cleanup(w)
    PROVE  PlanInvariant'
<1> USE Parameters
<1>1. /\ WorkersOK /\ TypeOK /\ LeaseConsistent /\ ReadyPointerConsistent
      /\ JobsInvariant
      /\ worker[w] \in WorkerRow /\ RowOK(worker[w])
      /\ Follows(worker[w]) /\ Prepares(worker[w])
  BY DEF RefreshInvariant, JobsInvariant, WorkersOK, PlanInvariant, PreparationOK
<1>2. repo.ready # NoGen => repo.ready \in Gens /\ gen[repo.ready].status = "ready"
  BY <1>1 DEF TypeOK, RepoRow, ReadyPointerConsistent
<1>3. ASSUME NEW row, Put(w, row), Untied(row), Plain, worker[w].at # "derived"
      PROVE  PlanInvariant'
  <2>1. Follows(row)'
    BY <1>3, UntiedFollows
  <2> QED BY <1>1, <1>3, <2>1, PlainKeeps
<1>4. ASSUME NEW step, Goto(w, step), step \notin {"step", "derived"} \cup Preparing,
             Plain, worker[w].at # "derived"
      PROVE  PlanInvariant'
  <2>1. [worker[w] EXCEPT !.at = step].at = step
    BY <1>1 DEF WorkerRow
  <2> QED BY <1>3, <1>4, <2>1 DEF Goto, Untied
<1>5. ASSUME NEW step, Goto(w, step), step \in Preparing, Plain,
             worker[w].at \in Preparing,
             gen'[worker[w].gen].revision = gen[worker[w].gen].revision,
             step \in {"clone", "work", "checkpoint"} =>
                worker[w].at \in {"clone", "work", "checkpoint"},
             step = "checkpoint" => job'[worker[w].job].plan = worker[w].units
      PROVE  PlanInvariant'
  <2> DEFINE row == [worker[w] EXCEPT !.at = step]
  <2>1. /\ row.at = step /\ row.job = worker[w].job /\ row.gen = worker[w].gen
        /\ row.rev = worker[w].rev /\ row.units = worker[w].units
    BY <1>1 DEF WorkerRow
  <2>2. Put(w, row)
    BY <1>5 DEF Goto
  <2> HIDE DEF row
  <2>3. PICK old, new : old = worker[w] /\ new = row
    OBVIOUS
  <2>4. /\ Follows(old) /\ old.at \in Preparing /\ new.at = step
        /\ new.gen = old.gen /\ new.rev = old.rev /\ new.units = old.units
        /\ gen'[new.gen].revision = gen[new.gen].revision
        /\ step = "checkpoint" => job'[new.job].plan = new.units
        /\ Put(w, new)
    BY <1>1, <1>5, <2>1, <2>2, <2>3
  <2>5. Follows(new)'
    BY <1>5, <2>3, <2>4, PreparationFollows
  <2> QED BY <1>1, <1>5, <2>4, <2>5, PlainKeeps DEF Preparing
<1>6. \A h, d : gen' = [gen EXCEPT ![h].data = d]
        => \A g \in Gens : gen'[g].revision = gen[g].revision
  BY <1>1 DEF TypeOK, GenRow
<1>7. CASE refresh_register(w)
  <2>1. repo'.ready = repo.ready /\ UNCHANGED <<gen, job>>
    BY <1>1, <1>7 DEF refresh_register, register_inventory, TypeOK, RepoRow
  <2>2. Plain
    BY <1>1, <1>7, <2>1, DataPlain DEF refresh_register
  <2> QED BY <1>4, <1>7, <2>2 DEF refresh_register, Preparing
<1>8. CASE refresh_manifest(w)
  <2>1. \E h, d : gen' = [gen EXCEPT ![h].data = d]
    BY <1>8 DEF refresh_manifest, persist_manifest
  <2>2. repo' = repo /\ job' = job /\ UNCHANGED deps /\ worker[w].at = "manifest"
          /\ Goto(w, "inputs")
    BY <1>8 DEF refresh_manifest, persist_manifest
  <2>3. \A g \in Gens : gen'[g].revision = gen[g].revision
    BY <1>6, <2>1
  <2>4. Plain
    BY <1>1, <2>2, <2>3, DataPlain
  <2>5. worker[w].gen \in Gens
    BY <1>1, <2>2 DEF RowOK, Preparing
  <2> QED BY <1>5, <2>2, <2>3, <2>4, <2>5 DEF Preparing
<1>9. CASE refresh_noop(w)
  <2> DEFINE j == worker[w].job
  <2>1. /\ remove_noop(j, Owner) /\ worker[w].at = "noop" /\ UNCHANGED deps
        /\ Put(w, [Idle EXCEPT !.at = "started"])
    BY <1>9 DEF refresh_noop
  <2>2. j \in Jobs
    BY <1>1, <2>1 DEF RowOK, WithJob, Preparing
  <2>3. Active(j) /\ job[j].gen \in Gens /\ gen[job[j].gen].status = "staging"
    BY <2>1 DEF remove_noop, GenStatus, HoldsLease, Active, ActiveStates
  <2>4. \A i \in Jobs : ~Active(i)'
    BY <1>1, <2>1, <2>2, <2>3 DEF remove_noop, NoJob, Active, ActiveStates,
       TypeOK, LeaseConsistent
  <2>5. repo.ready # NoGen => gen'[repo.ready] = gen[repo.ready]
    BY <1>1, <1>2, <2>1, <2>3 DEF remove_noop, TypeOK
  <2>6. Plain
    <3>1. \A i \in Jobs \ {j} : job'[i] = job[i]
      BY <2>1 DEF remove_noop
    <3>2. job'[j].gen = NoGen
      BY <1>1, <2>1, <2>2 DEF remove_noop, NoJob, TypeOK
    <3>3. repo.ready # NoGen => PlansKept(repo.ready)
      BY <1>2, <2>3, <3>1, <3>2 DEF PlansKept
    <3> QED BY <2>1, <2>4, <2>5, <3>3, EndPlain DEF remove_noop, ReadyKept
  <2>7. [Idle EXCEPT !.at = "started"].at = "started"
    BY DEF Idle
  <2> QED BY <1>3, <2>1, <2>6, <2>7 DEF Untied, Preparing
<1>10. CASE refresh_clone(w)
  <2>1. worker[w].at = "clone" /\ UNCHANGED deps /\ Goto(w, "work")
    BY <1>10 DEF refresh_clone
  <2>2. repo' = repo /\ job' = job /\ \A g \in Gens : gen'[g].revision = gen[g].revision
    <3>1. CASE StoreUnchanged
      BY <3>1 DEF StoreUnchanged
    <3>2. CASE clone_unaffected_ready_facts(worker[w].gen, repo.ready,
                                            Units \ worker[w].units)
      <4>1. \E h, d : gen' = [gen EXCEPT ![h].data = d]
        BY <3>2 DEF clone_unaffected_ready_facts
      <4> QED BY <1>6, <3>2, <4>1 DEF clone_unaffected_ready_facts
    <3> QED BY <1>10, <3>1, <3>2 DEF refresh_clone
  <2>3. Plain
    BY <1>1, <2>1, <2>2, DataPlain
  <2>4. worker[w].gen \in Gens
    BY <1>1, <2>1 DEF RowOK, Preparing
  <2> QED BY <1>5, <2>1, <2>2, <2>3, <2>4 DEF Preparing
<1>11. CASE refresh_work(w)
  <2> DEFINE j == worker[w].job
             x == [job[j] EXCEPT !.plan = worker[w].units,
                     !.work = IF job[j].plan = {} THEN worker[w].units
                                                  ELSE job[j].work]
  <2>1. persist_refresh_work_plan(j, Owner, worker[w].units) /\ Goto(w, "checkpoint")
          /\ worker[w].at = "work" /\ UNCHANGED deps
    BY <1>11 DEF refresh_work
  <2>2. j \in Jobs /\ Active(j)
    BY <1>1, <2>1 DEF persist_refresh_work_plan, ActiveJobScope, HoldsLease,
         Active, ActiveStates, RowOK, WithJob, Preparing
  <2>3. job[j].stage = "inventory" /\ worker[w].gen \in Gens
    BY <1>1, <2>1, <2>2 DEF Prepares, Preparing, RowOK
  <2>4. x.gen = job[j].gen /\ x.stage = "inventory" /\ x.plan = worker[w].units
    BY <1>1, <2>2, <2>3 DEF TypeOK, JobRow
  <2>5. job' = [job EXCEPT ![j] = x] /\ gen' = gen /\ repo' = repo
    BY <2>1 DEF persist_refresh_work_plan
  <2> HIDE DEF x
  <2>6. job'[j].plan = worker[w].units
    BY <1>1, <2>2, <2>4, <2>5 DEF TypeOK
  <2>7. job[j].gen # repo.ready
    BY <1>1, <1>2, <2>2, <2>3, JobsAssumption DEF LeaseConsistent, GenStatus
  <2>8. Plain
    BY <1>1, <2>1, <2>2, <2>4, <2>5, <2>7, JobWritePlain DEF Derived
  <2> QED BY <1>5, <2>1, <2>3, <2>5, <2>6, <2>8 DEF Preparing
<1>12. CASE continue_cancelling(w) \/ cancel_acknowledge(w)
  <2> DEFINE j == worker[w].job
  <2>1. acknowledge_cancel(j, Owner, 0) /\ j \in Jobs /\ worker[w].at # "derived"
          /\ UNCHANGED deps
    BY <1>1, <1>12 DEF continue_cancelling, cancel_acknowledge, RowOK, WithJob
  <2>2. \E step \in {"status", "state"} : Goto(w, step)
    BY <1>12 DEF continue_cancelling, cancel_acknowledge
  <2>3. \A i \in Jobs : ~Active(i)'
    BY <1>1, <2>1 DEF acknowledge_cancel, finish_job, Active, ActiveStates,
       TypeOK, LeaseConsistent
  <2>4. \A g \in Gens : gen'[g].revision = gen[g].revision
    BY <1>1, <2>1 DEF acknowledge_cancel, finish_job, update_staging_generation,
       TypeOK, GenRow
  <2>5. \A i \in Jobs : job'[i].gen = job[i].gen /\ job'[i].plan = job[i].plan
    BY <1>1, <2>1 DEF acknowledge_cancel, finish_job, TypeOK, JobRow
  <2>6. Plain
    BY <1>2, <2>1, <2>3, <2>4, <2>5, EndPlain
       DEF acknowledge_cancel, finish_job, ReadyKept, PlansKept
  <2> QED BY <1>4, <2>1, <2>2, <2>6 DEF Preparing
<1>13. CASE continue_parse_item(w)
  <2> DEFINE j == worker[w].job
  <2>1. PICK u \in worker[w].units :
           /\ parse_item(j, Owner, u)
           /\ Put(w, [worker[w] EXCEPT !.units = @ \ {u}])
    BY <1>13 DEF continue_parse_item
  <2> DEFINE x == [job[j] EXCEPT !.work = @ \ {u}]
  <2>2. j \in Jobs /\ worker[w].at = "parse" /\ UNCHANGED deps
    BY <1>1, <1>13 DEF continue_parse_item, RowOK, WithJob
  <2>3. Active(j) /\ job[j] \in JobRow
    BY <1>1, <2>1, <2>2 DEF parse_item, ActiveJobScope, HoldsLease, Active,
       ActiveStates, TypeOK
  <2>4. job' = [job EXCEPT ![j] = x] /\ repo' = repo
    BY <2>1 DEF parse_item
  <2>5. x.gen = job[j].gen /\ x.stage = job[j].stage /\ x.plan = job[j].plan
    BY <2>3 DEF JobRow
  <2> HIDE DEF x
  <2>6. \E h, d : gen' = [gen EXCEPT ![h].data = d]
    BY <2>1 DEF parse_item
  <2>7. Plain
    BY <1>1, <1>6, <2>2, <2>3, <2>4, <2>5, <2>6, JobWritePlain
  <2>8. [worker[w] EXCEPT !.units = @ \ {u}].at = "parse"
    BY <1>1, <2>2 DEF WorkerRow
  <2> QED BY <1>3, <2>1, <2>2, <2>7, <2>8 DEF Untied, Preparing
<1>14. CASE continue_parse_end(w)
  <2> DEFINE j == worker[w].job
             x == [job[j] EXCEPT !.stage = "link", !.updated = 0]
  <2>1. j \in Jobs /\ worker[w].at = "parse" /\ UNCHANGED deps /\ Goto(w, "status")
    BY <1>1, <1>14 DEF continue_parse_end, RowOK, WithJob
  <2>2. CASE finish_parse(j, Owner, 0)
    <3>1. Active(j) /\ job[j] \in JobRow
      BY <1>1, <2>1, <2>2 DEF finish_parse, HoldsLease, Active, ActiveStates, TypeOK
    <3>2. job' = [job EXCEPT ![j] = x] /\ repo' = repo /\ gen' = gen
      BY <2>2 DEF finish_parse
    <3>3. x.gen = job[j].gen /\ x.stage = "link" /\ x.plan = job[j].plan
      BY <3>1 DEF JobRow
    <3> HIDE DEF x
    <3> QED BY <1>1, <1>4, <2>1, <3>1, <3>2, <3>3, JobWritePlain DEF Derived, Preparing
  <2>3. CASE StoreUnchanged
    <3>1. Plain
      BY <1>1, <2>1, <2>3, DataPlain DEF StoreUnchanged
    <3> QED BY <1>4, <2>1, <3>1 DEF Preparing
  <2> QED BY <1>14, <2>2, <2>3 DEF continue_parse_end
<1>15. CASE cancel_request(w)
  <2> DEFINE j == worker[w].job
             x == [job[j] EXCEPT !.state = "cancelling", !.cancel = TRUE,
                                 !.updated = 0]
  <2>1. j \in Jobs /\ worker[w].at = "request" /\ UNCHANGED deps
          /\ Goto(w, "acknowledge") /\ request_cancel(j, Owner, 0)
    BY <1>1, <1>15 DEF cancel_request, RowOK, WithJob
  <2>2. Active(j) /\ job[j] \in JobRow
    BY <1>1, <2>1 DEF request_cancel, Active, ActiveStates, TypeOK
  <2>3. job' = [job EXCEPT ![j] = x] /\ repo' = repo /\ gen' = gen
    BY <2>1 DEF request_cancel
  <2>4. x.gen = job[j].gen /\ x.stage = job[j].stage /\ x.plan = job[j].plan
    BY <2>2 DEF JobRow
  <2> HIDE DEF x
  <2> QED BY <1>1, <1>4, <2>1, <2>2, <2>3, <2>4, JobWritePlain DEF Preparing
<1>16. CASE run_cleanup(w)
  <2>1. worker[w].job \in Jobs /\ 1 \in 0 .. CleanupBatch /\ worker[w].at = "clean"
    BY <1>1, <1>16, RefreshAssumption, JobsAssumption
       DEF run_cleanup, RowOK, WithJob
  <2>2. PICK kept \in SUBSET Gens, batch \in SUBSET Gens :
           cleanup_generations(worker[w].job, Owner, 1, kept, batch, 0)
    BY <1>16 DEF run_cleanup
  <2>3. Put(w, [Idle EXCEPT !.at = "cleaned"]) /\ UNCHANGED deps
    BY <1>16 DEF run_cleanup
  <2>4. [Idle EXCEPT !.at = "cleaned"].at = "cleaned"
    BY DEF Idle
  <2>5. /\ \A i \in Jobs : /\ job'[i].state = job[i].state
                           /\ job'[i].stage = job[i].stage
                           /\ job[i].state \in ActiveStates => job'[i].gen = job[i].gen
        /\ \A i \in Jobs : job[i].state \in ActiveStates /\ job[i].gen \in Gens
                              => gen'[job[i].gen] = gen[job[i].gen]
    BY <1>1, <2>1, <2>2, CleanupEffect
  <2>6. \A i \in Jobs : job'[i].plan = job[i].plan
    BY <1>1, <2>2 DEF cleanup_generations, TypeOK, JobRow
  <2>7. batch \subseteq Unreferenced
    BY <2>2 DEF cleanup_generations, OldestBatch, cleanup_candidates,
       OwnedByTerminalJob, Superseded
  <2>8. repo' = repo /\ (repo.ready # NoGen => gen'[repo.ready] = gen[repo.ready])
    BY <1>2, <2>2, <2>7 DEF cleanup_generations, Unreferenced
  <2>9. \A i \in Jobs : Active(i) => job[i].gen \in Gens
    BY <1>1 DEF LeaseConsistent, GenStatus
  <2>10. \A i \in Jobs : job'[i].gen = IF job[i].gen \in batch THEN NoGen
                                                           ELSE job[i].gen
    BY <1>1, <2>2 DEF cleanup_generations, TypeOK, JobRow
  <2>11. \A g \in Gens \ batch : PlansKept(g)
    BY <2>6, <2>10, JobsAssumption DEF PlansKept
  <2>12. ReadyKept
    BY <1>2, <2>7, <2>8, <2>11 DEF ReadyKept, Unreferenced
  <2>13. \A i \in Jobs : Active(i) => PlansKept(job[i].gen)
    BY <2>7, <2>9, <2>11 DEF Unreferenced
  <2>14. Plain
    BY <2>3, <2>5, <2>6, <2>9, <2>12, <2>13 DEF Plain, Active
  <2> QED BY <1>3, <2>1, <2>3, <2>4, <2>14 DEF Untied, Preparing
<1> QED
  BY <1>7, <1>8, <1>9, <1>10, <1>11, <1>12, <1>13, <1>14, <1>15, <1>16

\* start_job: an empty generation, whose dependencies nobody needs yet.
LEMMA StartFollows ==
    ASSUME Undisturbed, RefreshInvariant, PlanInvariant, NEW w \in Workers,
           refresh_start(w)
    PROVE  PlanInvariant'
<1>1. /\ WorkersOK /\ TypeOK /\ LeaseConsistent /\ ReadyPointerConsistent
      /\ worker[w] \in WorkerRow
  BY DEF RefreshInvariant, JobsInvariant, WorkersOK
<1>2. PICK j \in FreshJobs, g \in FreshGens :
         /\ start_job(j, g, Owner, worker[w].rev, 0)
         /\ deps' = [deps EXCEPT ![g] = {}]
         /\ Put(w, [worker[w] EXCEPT !.at = "manifest", !.job = j, !.gen = g])
  BY DEF refresh_start
<1>3. j \in Jobs /\ g \in Gens
  BY DEF FreshJobs, FreshGens
<1>4. PICK row : row = [worker[w] EXCEPT !.at = "manifest", !.job = j, !.gen = g]
  OBVIOUS
<1>5. row.at = "manifest" /\ row.gen = g /\ row.rev = worker[w].rev /\ Put(w, row)
  BY <1>1, <1>2, <1>4 DEF WorkerRow
<1>6. /\ gen'[g].revision = worker[w].rev /\ repo' = repo
      /\ \A h \in Gens \ {g} : gen'[h] = gen[h]
      /\ job'[j].stage = "inventory"
      /\ \A i \in Jobs \ {j} : ~Active(i)'
  BY <1>1, <1>2, <1>3 DEF start_job, NoGeneration, NoJob, TypeOK, Active
<1>7. repo.ready # NoGen => repo.ready \in Gens \ {g}
  BY <1>1, <1>2, <1>3 DEF start_job, TypeOK, RepoRow, ReadyPointerConsistent
<1>8. repo.ready # NoGen => /\ deps'[repo.ready] = deps[repo.ready]
                            /\ Needed(repo.ready)' \subseteq Needed(repo.ready)
  <2>1. PICK h : h = repo.ready
    OBVIOUS
  <2>2. job'[j].gen = g /\ \A i \in Jobs \ {j} : job'[i] = job[i]
    BY <1>1, <1>2, <1>3 DEF start_job, NoJob, TypeOK
  <2>3. h # NoGen => Needed(h)' \subseteq Needed(h)
    <3>1. h # NoGen => RefreshedFor(h)' \subseteq RefreshedFor(h)
      BY <1>7, <2>1, <2>2 DEF RefreshedFor
    <3> QED BY <3>1 DEF Needed
  <2>4. Needed(repo.ready)' = Needed(h)'
    BY <1>6, <2>1 DEF Needed, RefreshedFor
  <2> QED BY <1>2, <1>7, <2>1, <2>3, <2>4
<1>9. DependenciesStored'
  BY <1>6, <1>8 DEF DependenciesStored, PlanInvariant, Derived
<1>10. PlanCoversRefreshed'
  BY <1>6 DEF PlanCoversRefreshed
<1>11. Follows(row)'
  BY <1>5, <1>6 DEF Follows, Preparing
<1>12. \A v \in Workers : Follows(worker[v])'
  <2> TAKE v \in Workers
  <2>1. worker'[v] = row
    BY <1>1, <1>5, OnlyRow
  <2> QED BY <1>11, <2>1 DEF Follows
<1> QED BY <1>9, <1>10, <1>12 DEF PlanInvariant

\* The first storing of dependencies concerns a generation in preparation.
LEMMA InputsFollow ==
    ASSUME Undisturbed, RefreshInvariant, PreparationOK, PlanInvariant,
           NEW w \in Workers, refresh_inputs(w)
    PROVE  PlanInvariant'
<1>1. /\ WorkersOK /\ TypeOK /\ LeaseConsistent /\ ReadyPointerConsistent
      /\ worker[w] \in WorkerRow /\ RowOK(worker[w]) /\ Prepares(worker[w])
      /\ Follows(worker[w])
  BY DEF RefreshInvariant, JobsInvariant, WorkersOK, PreparationOK, PlanInvariant
<1>2. PICK g \in Gens : g = worker[w].gen /\ gen[g].status = "staging"
  BY DEF refresh_inputs, persist_invalidation_metadata
<1>3. PICK row : row = [worker[w] EXCEPT !.at = "plan"]
  OBVIOUS
<1>4. /\ worker[w].at = "inputs" /\ row.at = "plan" /\ row.gen = g
      /\ row.rev = worker[w].rev /\ Put(w, row)
  BY <1>1, <1>2, <1>3 DEF WorkerRow, refresh_inputs, Goto
<1>5. /\ UNCHANGED <<repo, gen, job>>
      /\ \A h : h # g => deps'[h] = deps[h]
  BY <1>2 DEF refresh_inputs, persist_invalidation_metadata, StoreUnchanged
<1>6. worker[w].job \in Jobs /\ Active(worker[w].job)
        /\ job[worker[w].job].stage = "inventory"
  BY <1>1, <1>2, <1>4 DEF Prepares, Preparing, RowOK, WithJob
<1>7. \A i \in Jobs : Active(i) => job[i].stage = "inventory"
  BY <1>1, <1>6 DEF LeaseConsistent
<1>8. repo.ready # g
  BY <1>1, <1>2 DEF ReadyPointerConsistent
<1>9. DependenciesStored'
  BY <1>5, <1>7, <1>8 DEF DependenciesStored, PlanInvariant, Derived, Active,
     Needed, RefreshedFor
<1>10. PlanCoversRefreshed'
  BY <1>5, <1>7 DEF PlanCoversRefreshed, Active
<1>11. Follows(row)'
  BY <1>1, <1>2, <1>4, <1>5 DEF Follows, Preparing
<1>12. \A v \in Workers : Follows(worker[v])'
  <2> TAKE v \in Workers
  <2>1. worker'[v] = row
    BY <1>1, <1>4, OnlyRow
  <2> QED BY <1>11, <2>1 DEF Follows
<1> QED BY <1>9, <1>10, <1>12 DEF PlanInvariant

\* The checkpoint makes the plan of the thread the plan of the job.
LEMMA CheckpointFollows ==
    ASSUME Undisturbed, RefreshInvariant, PreparationOK, PlanInvariant,
           NEW w \in Workers, refresh_checkpoint(w)
    PROVE  PlanInvariant'
<1>1. /\ WorkersOK /\ TypeOK /\ LeaseConsistent
      /\ RowOK(worker[w]) /\ Prepares(worker[w]) /\ Follows(worker[w])
  BY DEF RefreshInvariant, JobsInvariant, WorkersOK, PreparationOK, PlanInvariant
<1>2. PICK j, r, units, g, row :
        /\ j = worker[w].job /\ r = worker[w].rev /\ units = worker[w].units
        /\ g = worker[w].gen /\ row = [Idle EXCEPT !.at = "started", !.job = j]
  OBVIOUS
<1>3. checkpoint_plan(j, Owner, "parse", 0) /\ Put(w, row) /\ UNCHANGED deps
        /\ worker[w].at = "checkpoint" /\ row.at = "started"
  BY <1>2 DEF refresh_checkpoint, Idle
<1>4. j \in Jobs /\ Active(j)
  BY <1>1, <1>2, <1>3 DEF checkpoint_plan, HoldsLease, Active, ActiveStates,
     RowOK, WithJob, Preparing
<1>5. /\ job[j].gen = g /\ gen[g].revision = r /\ job[j].plan = units
      /\ repo.ready # NoGen => Due(r) \subseteq units
  BY <1>1, <1>2, <1>3, <1>4 DEF Prepares, Preparing, Follows
<1>6. /\ UNCHANGED <<repo, gen>>
      /\ job'[j].gen = g /\ job'[j].plan = units /\ job'[j].stage = "parse"
      /\ \A i \in Jobs \ {j} : ~Active(i)'
  BY <1>1, <1>3, <1>4, <1>5 DEF checkpoint_plan, TypeOK, JobRow,
     LeaseConsistent, Active
<1>7. ReadyKept
  <2>1. \A i \in Jobs : job'[i].gen = job[i].gen /\ job'[i].plan = job[i].plan
    BY <1>1, <1>3, <1>4 DEF checkpoint_plan, TypeOK, JobRow
  <2> QED BY <1>6, <2>1 DEF ReadyKept, PlansKept
<1>8. DependenciesStored'
  <2>1. repo.ready # NoGen => Needed(repo.ready)' = Needed(repo.ready)
    <3>1. PICK h : h = repo.ready
      OBVIOUS
    <3>2. repo.ready # NoGen => Needed(h)' = Needed(h)
      BY <1>7, <3>1, NeededStays DEF ReadyKept
    <3>3. Needed(repo.ready)' = Needed(h)'
      BY <1>6, <3>1 DEF Needed, RefreshedFor
    <3> QED BY <3>1, <3>2, <3>3
  <2> QED BY <1>3, <1>6, <2>1 DEF DependenciesStored, PlanInvariant, Derived
<1>9. PlanCoversRefreshed'
  <2>1. repo.ready # NoGen => Due(r)' = Due(r)
    BY <1>7, DueStays
  <2>2. gen'[job'[j].gen].revision = r /\ job'[j].plan = units
    BY <1>5, <1>6
  <2>3. Due(gen[job[j].gen].revision)' = Due(r)'
    BY <2>2 DEF Due, Changed
  <2>4. repo'.ready # NoGen => Due(gen[job[j].gen].revision)' \subseteq job'[j].plan
    BY <1>5, <1>6, <2>1, <2>2, <2>3
  <2> QED BY <1>6, <2>4 DEF PlanCoversRefreshed, Due, Needed
<1>10. Follows(row)'
  BY <1>3, UntiedFollows DEF Untied, Preparing
<1>11. \A v \in Workers : Follows(worker[v])'
  <2> TAKE v \in Workers
  <2>1. worker'[v] = row
    BY <1>1, <1>3, OnlyRow
  <2> QED BY <1>10, <2>1 DEF Follows
<1> QED BY <1>8, <1>9, <1>11 DEF PlanInvariant

\* The dependencies of a derived generation are stored before anybody reads
\* or needs them.
LEMMA DerivedFollow ==
    ASSUME Undisturbed, RefreshInvariant, ContentOK, PanelOK, StoreLineage,
           PlanInvariant, NEW w \in Workers, continue_derived(w)
    PROVE  PlanInvariant'
<1>1. /\ WorkersOK /\ TypeOK /\ LeaseConsistent /\ worker[w] \in WorkerRow
      /\ RowOK(worker[w]) /\ Follows(worker[w])
      /\ deps \in [Gens -> SUBSET (Units \X Units)]
  BY DEF RefreshInvariant, JobsInvariant, WorkersOK, PlanInvariant, PanelOK
<1>2. PICK j, g, row : /\ j = worker[w].job /\ g = worker[w].gen
                       /\ row = [worker[w] EXCEPT !.at = "status"]
  OBVIOUS
<1>3. /\ worker[w].at = "derived" /\ row.at = "status" /\ Put(w, row)
      /\ UNCHANGED <<repo, gen, job>> /\ g \in Gens
  BY <1>1, <1>2 DEF continue_derived, WorkerRow, Goto, StoreUnchanged,
     persist_invalidation_metadata
<1>4. j \in Jobs /\ Active(j) /\ job[j].gen = g /\ job[j].stage = "synthesize"
  BY <1>1, <1>2, <1>3 DEF Follows, RowOK, WithJob
<1>5. Needed(g) \subseteq Provable(g)
  <2>1. "link" \in gen[g].data.built /\ job[j].work = {}
    BY <1>4 DEF ContentOK, Holds
  <2>2. \A i \in Jobs : job[i].gen = g => i = j
    BY <1>3, <1>4 DEF StoreLineage, GenerationsOwned
  <2>3. job[j].plan \subseteq gen[g].data.lineage
    BY <1>3, <1>4, <2>1 DEF StoreLineage, LineageParsed
  <2>4. RefreshedFor(g) \subseteq gen[g].data.lineage
    BY <2>2, <2>3 DEF RefreshedFor
  <2> QED BY <2>1, <2>4 DEF Needed, Provable
<1>6. \A h : Needed(h)' = Needed(h)
  BY <1>3 DEF Needed, RefreshedFor
<1>7. /\ Needed(g) \subseteq deps'[g]
      /\ \A h \in Gens \ {g} : deps'[h] = deps[h]
  BY <1>1, <1>2, <1>3, <1>5 DEF continue_derived, persist_invalidation_metadata
<1>8. DependenciesStored'
  <2>1. \A i \in Jobs : Active(i)' => job'[i].gen = g
    BY <1>1, <1>3, <1>4 DEF Active, LeaseConsistent
  <2>2. repo.ready # NoGen => repo.ready \in Gens
    BY <1>1 DEF TypeOK, RepoRow
  <2>3. repo.ready # NoGen => Needed(repo.ready) \subseteq deps'[repo.ready]
    BY <1>7, <2>2 DEF DependenciesStored, PlanInvariant
  <2>4. PICK h : h = repo.ready
    OBVIOUS
  <2>5. Needed(repo.ready)' = Needed(h)' /\ Needed(h)' = Needed(h)
    BY <1>3, <1>6, <2>4 DEF Needed, RefreshedFor
  <2>6. \A i \in Jobs : Active(i)' => Needed(job[i].gen)' = Needed(g)'
    BY <2>1 DEF Needed, RefreshedFor
  <2> QED BY <1>3, <1>6, <1>7, <2>1, <2>3, <2>4, <2>5, <2>6
          DEF DependenciesStored
<1>9. PlanCoversRefreshed'
  BY <1>1, <1>3, <1>4 DEF PlanCoversRefreshed, Active, LeaseConsistent
<1>10. Follows(row)'
  BY <1>3, UntiedFollows DEF Untied, Preparing
<1>11. \A v \in Workers : Follows(worker[v])'
  <2> TAKE v \in Workers
  <2>1. worker'[v] = row
    BY <1>1, <1>3, OnlyRow
  <2> QED BY <1>10, <2>1 DEF Follows
<1> QED BY <1>8, <1>9, <1>11 DEF PlanInvariant

\* The stages.  Deriving leaves the thread with the dependencies to store, and
\* publishing finds them stored.
LEMMA StagesFollow ==
    ASSUME Undisturbed, RefreshInvariant, PlanInvariant, NEW w \in Workers,
           continue_stage(w)
    PROVE  PlanInvariant'
<1>1. /\ WorkersOK /\ TypeOK /\ LeaseConsistent /\ ReadyPointerConsistent
      /\ worker[w] \in WorkerRow /\ RowOK(worker[w]) /\ Follows(worker[w])
  BY DEF RefreshInvariant, JobsInvariant, WorkersOK, PlanInvariant
<1>2. PICK stage \in Stages :
        At(w, stage) /\ StageTransaction(stage, worker[w].job)
          /\ Goto(w, AfterStage(stage))
  BY DEF continue_stage
<1>3. PICK j, g : j = worker[w].job /\ g = job[j].gen
  OBVIOUS
<1>4. PICK row : row = [worker[w] EXCEPT !.at = AfterStage(stage)]
  OBVIOUS
<1>5. /\ worker[w].at = "step" /\ UNCHANGED deps /\ Put(w, row)
      /\ row.at = AfterStage(stage) /\ row.job = j /\ row.gen = worker[w].gen
      /\ j \in Jobs
  BY <1>1, <1>2, <1>3, <1>4 DEF continue_stage, At, Goto, WorkerRow, RowOK, WithJob
<1>6. /\ Active(j) /\ job[j].stage = stage /\ g \in Gens /\ job[j] \in JobRow
  BY <1>1, <1>2, <1>3, <1>5
     DEF StageTransaction, link_generation, derive_template_candidates,
         finalize_synthesis_catalog, validate_generation_for_publication,
         publish_generation, complete_job, Build, OwnsStage, HoldsLease,
         GenStatus, Active, ActiveStates, TypeOK
<1>7. row.gen = g
  BY <1>1, <1>3, <1>5 DEF Follows
<1>8. \A h, d : gen' = [gen EXCEPT ![h].data = d]
        => \A k \in Gens : gen'[k].revision = gen[k].revision
  BY <1>1 DEF TypeOK, GenRow
<1>9. ASSUME NEW x, job' = [job EXCEPT ![j] = x], x.gen = g, repo' = repo,
             \/ gen' = gen \/ \E h, d : gen' = [gen EXCEPT ![h].data = d],
             x.state \in ActiveStates =>
                \/ x.stage \notin Derived \cup {"parse"}
                \/ stage \in Derived /\ x.stage \in Derived,
             x.plan = job[j].plan, stage # "derive"
      PROVE  PlanInvariant'
  <2>1. \A k \in Gens : gen'[k].revision = gen[k].revision
    BY <1>8, <1>9
  <2>2. Plain
    BY <1>1, <1>3, <1>5, <1>6, <1>9, <2>1, JobWritePlain
  <2>3. Follows(row)'
    BY <1>5, <1>9, UntiedFollows DEF AfterStage, Untied, Preparing
  <2> QED BY <1>1, <1>5, <2>2, <2>3, PlainKeeps
<1>10. CASE link_generation(j, Owner, 0)
  <2> DEFINE x == [job[j] EXCEPT !.stage = "derive", !.updated = 0,
                                 !.receipt = NoReceipt]
  <2>1. job' = [job EXCEPT ![j] = x] /\ repo' = repo /\ stage = "link"
          /\ \E h, d : gen' = [gen EXCEPT ![h].data = d]
    BY <1>6, <1>10 DEF link_generation, Build, OwnsStage
  <2>2. x.gen = g /\ x.stage = "derive" /\ x.plan = job[j].plan
    BY <1>3, <1>6 DEF JobRow
  <2> HIDE DEF x
  <2> QED BY <1>9, <2>1, <2>2 DEF Derived
<1>11. CASE finalize_synthesis_catalog(j, Owner, 0)
  <2> DEFINE x == [job[j] EXCEPT !.stage = "validate", !.updated = 0,
                                 !.receipt = NoReceipt]
  <2>1. job' = [job EXCEPT ![j] = x] /\ repo' = repo /\ stage = "synthesize"
          /\ \E h, d : gen' = [gen EXCEPT ![h].data = d]
    BY <1>6, <1>11 DEF finalize_synthesis_catalog, Build, OwnsStage
  <2>2. x.gen = g /\ x.stage = "validate" /\ x.plan = job[j].plan
    BY <1>3, <1>6 DEF JobRow
  <2> HIDE DEF x
  <2> QED BY <1>9, <2>1, <2>2 DEF Derived
<1>12. CASE validate_generation_for_publication(j, Owner, 0)
  <2> DEFINE x == [job[j] EXCEPT !.stage = "publish", !.updated = 0,
                                 !.receipt = gen[job[j].gen].data]
  <2>1. job' = [job EXCEPT ![j] = x] /\ repo' = repo /\ stage = "validate"
          /\ gen' = gen
    BY <1>6, <1>12 DEF validate_generation_for_publication, OwnsStage
  <2>2. x.gen = g /\ x.stage = "publish" /\ x.plan = job[j].plan
    BY <1>3, <1>6 DEF JobRow
  <2> HIDE DEF x
  <2> QED BY <1>9, <2>1, <2>2 DEF Derived
<1>13. CASE complete_job(j, Owner, 0)
  <2> DEFINE x == [job[j] EXCEPT !.state = "completed", !.stage = "idle",
                                 !.updated = 0]
  <2>1. job' = [job EXCEPT ![j] = x] /\ repo' = repo /\ stage = "cleanup"
          /\ gen' = gen
    BY <1>6, <1>13 DEF complete_job, OwnsStage
  <2>2. x.gen = g /\ x.stage = "idle" /\ x.plan = job[j].plan
    BY <1>3, <1>6 DEF JobRow
  <2> HIDE DEF x
  <2> QED BY <1>9, <2>1, <2>2 DEF Derived
<1>14. CASE derive_template_candidates(j, Owner, 0)
  <2>1. /\ repo' = repo /\ stage = "derive"
        /\ \E h, d : gen' = [gen EXCEPT ![h].data = d]
        /\ job'[j].stage = "synthesize" /\ job'[j].gen = g
        /\ job'[j].state = "running" /\ job'[j].plan = job[j].plan
        /\ \A i \in Jobs \ {j} : ~Active(i)' /\ job'[i] = job[i]
    BY <1>1, <1>3, <1>5, <1>6, <1>14
       DEF derive_template_candidates, Build, OwnsStage, HoldsLease, TypeOK,
           JobRow, LeaseConsistent, Active
  <2>2. row.at = "derived"
    BY <1>5, <2>1 DEF AfterStage
  <2>3. Follows(row)'
    BY <1>5, <1>7, <2>1, <2>2 DEF Follows, Preparing, Active, ActiveStates
  <2>4. Storing(g)'
    BY <1>1, <1>5, <1>7, <2>2, OnlyRow
  <2>5. DependenciesStored'
    <3>1. \A i \in Jobs : Active(i)' => job'[i].gen = g
      BY <2>1
    <3>2. PICK h : h = repo.ready
      OBVIOUS
    <3>3. Needed(h)' = Needed(h)
      BY <1>3, <2>1, NeededStays DEF PlansKept
    <3>4. Needed(repo.ready)' = Needed(h)'
      BY <2>1, <3>2 DEF Needed, RefreshedFor
    <3>5. repo.ready # NoGen => (Needed(repo.ready) \subseteq deps[repo.ready])'
      BY <1>5, <2>1, <3>2, <3>3, <3>4 DEF DependenciesStored, PlanInvariant
    <3> QED BY <2>1, <2>4, <3>1, <3>5 DEF DependenciesStored, Storing
  <2>6. PlanCoversRefreshed'
    BY <2>1 DEF PlanCoversRefreshed
  <2>7. \A v \in Workers : Follows(worker[v])'
    <3> TAKE v \in Workers
    <3>1. worker'[v] = row
      BY <1>1, <1>5, OnlyRow
    <3> QED BY <2>3, <3>1 DEF Follows
  <2> QED BY <2>5, <2>6, <2>7 DEF PlanInvariant
<1>15. CASE publish_generation(j, Owner, 0)
  <2>1. /\ stage = "publish" /\ repo'.ready = g
        /\ job'[j].stage = "cleanup" /\ job'[j].gen = g
        /\ job'[j].plan = job[j].plan
        /\ \A i \in Jobs \ {j} : ~Active(i)' /\ job'[i] = job[i]
    BY <1>1, <1>3, <1>5, <1>6, <1>15
       DEF publish_generation, OwnsStage, TypeOK, JobRow, RepoRow,
           LeaseConsistent, Active
  <2>2. \A h : ~Storing(h)
    BY <1>1, <1>5, OnlyRow DEF Storing
  <2>3. Needed(g) \subseteq deps[g]
    BY <1>3, <1>5, <1>6, <2>1, <2>2 DEF DependenciesStored, PlanInvariant, Derived
  <2>4. DependenciesStored'
    <3>1. Needed(g)' = Needed(g)
      BY <1>3, <2>1, NeededStays DEF PlansKept
    <3>2. Needed(repo.ready)' = Needed(g)'
      BY <2>1 DEF Needed, RefreshedFor
    <3>3. \A i \in Jobs : Active(i)' => Needed(job[i].gen)' = Needed(g)'
      BY <2>1 DEF Needed, RefreshedFor
    <3> QED BY <1>5, <2>1, <2>3, <3>1, <3>2, <3>3 DEF DependenciesStored
  <2>5. PlanCoversRefreshed'
    BY <2>1 DEF PlanCoversRefreshed
  <2>6. Follows(row)'
    BY <1>5, <2>1, UntiedFollows DEF AfterStage, Untied, Preparing
  <2>7. \A v \in Workers : Follows(worker[v])'
    <3> TAKE v \in Workers
    <3>1. worker'[v] = row
      BY <1>1, <1>5, OnlyRow
    <3> QED BY <2>6, <3>1 DEF Follows
  <2> QED BY <2>4, <2>5, <2>7 DEF PlanInvariant
<1> QED
  BY <1>2, <1>3, <1>10, <1>11, <1>12, <1>13, <1>14, <1>15 DEF StageTransaction

\* Every step of the undisturbed desktop keeps the plan invariant.
LEMMA PlanStep ==
    ASSUME Undisturbed, StagesInvariant, LineageInvariant, PlanInvariant,
           [RefreshNext]_refreshVars
    PROVE  PlanInvariant'
<1>1. RefreshInvariant /\ ContentOK /\ PreparationOK /\ PanelOK /\ StoreLineage
  BY DEF StagesInvariant, LineageInvariant
<1>2. ~(faults < MaxFaults)
  BY <1>1 DEF PanelOK, Undisturbed
<1>3. ASSUME NEW w \in Workers, Command(w)
      PROVE  PlanInvariant'
  BY <1>1, <1>3, ReadersFollow, WritersFollow, StartFollows, InputsFollow,
     CheckpointFollows, DerivedFollow, StagesFollow
     DEF Command, run_refresh, continue_refresh, cancel_refresh
<1>4. ASSUME NEW w \in Workers,
             \/ Answer(w) \/ auto_continue(w) \/ click_index(w)
             \/ click_cancel(w) \/ click_cleanup(w) \/ refused(w)
      PROVE  PlanInvariant'
  BY <1>1, <1>4, PanelFollows
<1>5. CASE move_head \/ mounted_status \/ remount \/ UNCHANGED refreshVars
  <2>1. UNCHANGED <<repo, gen, job, deps, worker>>
    BY <1>5 DEF move_head, mounted_status, remount, refreshVars, PanelOnly,
         StoreUnchanged
  <2> QED BY <2>1, StillFollows
<1>6. ~crash /\ \A w \in Workers : ~command_fails(w)
  BY <1>2 DEF crash, command_fails
<1> QED BY <1>3, <1>4, <1>5, <1>6 DEF RefreshNext

\* With one command at a time and none cut off, the work plan that a refresh
\* stores covers every unit that changed since the ready generation, every unit
\* that refers to a covered one, and every unit that copies a covered one and
\* was parsed for the ready generation, for any units, dependencies and history
\* of refreshes, cancellations and cleanups (reverse_dependency_closure plans
\* over the stored rows, persist_generation_invalidation_metadata stores them).
\* Of a unit that was cloned the copies are lost, see PlanCoversDependents.
THEOREM PlanCovers ==
    ASSUME Undisturbed
    PROVE  RefreshSpec => []PlanCoversRefreshed
<1>1. RefreshInit => PlanInvariant
  <2> SUFFICES ASSUME RefreshInit PROVE PlanInvariant
    OBVIOUS
  <2>1. repo.ready = NoGen /\ \A j \in Jobs : ~Active(j)
    BY DEF RefreshInit, Init, NoJob, Active, ActiveStates
  <2>2. \A w \in Workers : Untied(worker[w])
    BY DEF RefreshInit, Idle, Untied, Preparing
  <2>3. \A w \in Workers : Follows(worker[w])
    BY <2>2, UntiedFollows
  <2> QED BY <2>1, <2>3 DEF PlanInvariant, DependenciesStored, PlanCoversRefreshed
<1>2. StagesInvariant /\ LineageInvariant /\ PlanInvariant /\ [RefreshNext]_refreshVars
        => PlanInvariant'
  BY PlanStep
<1>3. PlanInvariant => PlanCoversRefreshed
  BY DEF PlanInvariant
<1> QED BY <1>1, <1>2, <1>3, StagesHold, LineageHolds, PTL DEF RefreshSpec
=============================================================================
