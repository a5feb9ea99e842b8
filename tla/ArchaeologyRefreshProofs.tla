----------------------- MODULE ArchaeologyRefreshProofs -----------------------
(***************************************************************************)
(* The desktop commands use the job store only through its transactions:   *)
(* every step of ArchaeologyRefresh is a step of ArchaeologyJobs or leaves *)
(* the three tables alone.  What is proved of the job store with arbitrary *)
(* callers therefore holds of the application.                             *)
(*                                                                         *)
(* A thread passes ids it read or drew earlier, so the proof needs to know *)
(* that a thread at a given step holds a job, a generation or a revision;  *)
(* that is the invariant below.  It needs the types of the job rows, and   *)
(* they need the simulation: the two are proved together.                  *)
(***************************************************************************)
EXTENDS ArchaeologyRefresh, ArchaeologyJobsProofs

Preparing == {"manifest", "inputs", "plan", "noop", "clone", "work",
              "checkpoint"}
WithJob == Preparing \cup {"load", "step", "parse", "derived", "status",
                           "answer", "find", "request", "acknowledge",
                           "state", "cancelled", "clean"}

RowOK(row) ==
    /\ row \in WorkerRow
    /\ row.at \in WithJob => row.job \in Jobs
    /\ row.at \in Preparing => row.gen \in Gens
    /\ row.at \in {"register", "start"} => row.rev \in Revisions

\* What the threads hold.
WorkersOK ==
    /\ head \in Revisions
    /\ worker \in [Workers -> WorkerRow]
    /\ \A w \in Workers : RowOK(worker[w])

RefreshInvariant == JobsInvariant /\ WorkersOK

\* Time stands still and one owner token stands for all.
LEMMA Parameters == 0 \in Time /\ Owner \in Owners
BY RefreshAssumption, JobsAssumption DEF Time, Owner

\* A thread at rest holds nothing.
LEMMA IdleOK == RowOK(Idle)
BY JobsAssumption, Names
   DEF RowOK, Idle, WorkerRow, WithJob, Preparing

\* A finished or refused command keeps at most the job it worked on.
LEMMA AnswerOK ==
    ASSUME NEW step \in {"started", "refused", "cleaned"}, NEW j \in Jobs \cup {NoJobId}
    PROVE  RowOK([Idle EXCEPT !.at = step, !.job = j])
BY JobsAssumption, Names
   DEF RowOK, Idle, WorkerRow, WithJob, Preparing, RefreshSteps, CleanupSteps

\* Replacing the row of one thread.
LEMMA PutOK ==
    ASSUME WorkersOK, NEW w \in Workers, NEW row, RowOK(row), Put(w, row),
           UNCHANGED head
    PROVE  WorkersOK'
<1>1. worker' = [worker EXCEPT ![w] = row]
  BY DEF Put
<1>2. row \in WorkerRow
  BY DEF RowOK
<1>3. worker' \in [Workers -> WorkerRow]
  BY <1>1, <1>2 DEF WorkersOK
<1>4. ASSUME NEW v \in Workers PROVE RowOK(worker[v])'
  <2>1. CASE v = w
    <3>1. worker'[v] = row
      BY <1>1, <2>1 DEF WorkersOK
    <3> QED BY <3>1 DEF RowOK
  <2>2. CASE v # w
    <3>1. worker'[v] = worker[v]
      BY <1>1, <2>2 DEF WorkersOK
    <3>2. RowOK(worker[v])
      BY DEF WorkersOK
    <3> QED BY <3>1, <3>2 DEF RowOK
  <2> QED BY <2>1, <2>2
<1> QED BY <1>3, <1>4 DEF WorkersOK

\* Moving a thread to another step of its command.
LEMMA GotoOK ==
    ASSUME WorkersOK, NEW w \in Workers,
           NEW step \in RefreshSteps \cup ContinueSteps \cup CancelSteps,
           step \in WithJob => worker[w].job \in Jobs,
           step \in Preparing => worker[w].gen \in Gens,
           step \in {"register", "start"} => worker[w].rev \in Revisions,
           Goto(w, step), UNCHANGED head
    PROVE  WorkersOK'
<1> DEFINE row == [worker[w] EXCEPT !.at = step]
<1>1. worker[w] \in WorkerRow
  BY DEF WorkersOK
<1>2. /\ row \in WorkerRow /\ row.at = step /\ row.job = worker[w].job
      /\ row.gen = worker[w].gen /\ row.rev = worker[w].rev
  BY <1>1 DEF WorkerRow
<1>3. RowOK(row)
  BY <1>2 DEF RowOK
<1>4. Put(w, row)
  BY DEF Goto
<1> QED BY <1>3, <1>4, PutOK

----------------------------------------------------------------------------
\* Every step of a thread, of the panel or of the environment is one
\* transaction of the job store, or none.
LEMMA StepSimulates ==
    ASSUME TypeOK, WorkersOK, [RefreshNext]_refreshVars
    PROVE  [Next]_vars
<1> USE Parameters
<1>1. ASSUME NEW w \in Workers, run_refresh(w)
      PROVE  [Next]_vars
  <2>1. CASE refresh_head(w)
    BY <2>1 DEF refresh_head, StoreUnchanged, vars
  <2>2. CASE refresh_register(w)
    BY <2>2 DEF refresh_register, WorkersOK, RowOK, Next
  <2>3. CASE refresh_reuse(w)
    BY <2>3 DEF refresh_reuse, StoreUnchanged, vars
  <2>4. CASE refresh_start(w)
    BY <2>4 DEF refresh_start, FreshJobs, FreshGens, WorkersOK, RowOK, Next
  <2>5. CASE refresh_manifest(w)
    BY <2>5 DEF refresh_manifest, WorkersOK, RowOK, WithJob, Preparing, Next
  <2>6. CASE refresh_inputs(w)
    BY <2>6 DEF refresh_inputs, StoreUnchanged, vars
  <2>7. CASE refresh_plan(w)
    BY <2>7 DEF refresh_plan, StoreUnchanged, vars
  <2>8. CASE refresh_noop(w)
    BY <2>8 DEF refresh_noop, WorkersOK, RowOK, WithJob, Preparing, Next
  <2>9. CASE refresh_clone(w)
    <3>1. worker[w].gen \in Gens
      BY <2>9 DEF refresh_clone, WorkersOK, RowOK, Preparing
    <3>2. CASE repo.ready = NoGen
      BY <2>9, <3>2 DEF refresh_clone, StoreUnchanged, vars
    <3>3. CASE repo.ready # NoGen
      <4>1. clone_unaffected_ready_facts(worker[w].gen, repo.ready,
                                         Units \ worker[w].units)
        BY <2>9, <3>3 DEF refresh_clone
      <4>2. repo.ready \in Gens
        BY <3>3 DEF TypeOK, RepoRow
      <4> QED BY <4>1, <4>2, <3>1 DEF Next
    <3> QED BY <3>2, <3>3
  <2>10. CASE refresh_work(w)
    <3>1. worker[w].job \in Jobs /\ worker[w].units \in SUBSET Units
      BY <2>10 DEF refresh_work, WorkersOK, RowOK, WithJob, Preparing, WorkerRow
    <3> QED BY <2>10, <3>1 DEF refresh_work, Next
  <2>11. CASE refresh_checkpoint(w)
    <3>1. worker[w].job \in Jobs
      BY <2>11 DEF refresh_checkpoint, WorkersOK, RowOK, WithJob, Preparing
    <3> QED BY <2>11, <3>1, Names DEF refresh_checkpoint, Next
  <2> QED
    BY <1>1, <2>1, <2>2, <2>3, <2>4, <2>5, <2>6, <2>7, <2>8, <2>9, <2>10,
       <2>11 DEF run_refresh
<1>2. ASSUME NEW w \in Workers, continue_refresh(w)
      PROVE  [Next]_vars
  <2>1. CASE continue_load(w)
    BY <2>1 DEF continue_load, StoreUnchanged, vars
  <2>2. CASE continue_cancelling(w)
    BY <2>2 DEF continue_cancelling, WorkersOK, RowOK, WithJob, Next
  <2>3. CASE continue_break(w)
    BY <2>3 DEF continue_break, StoreUnchanged, vars
  <2>4. CASE continue_parse(w)
    BY <2>4 DEF continue_parse, StoreUnchanged, vars
  <2>5. CASE continue_parse_item(w)
    <3>1. worker[w].job \in Jobs /\ worker[w].units \subseteq Units
      BY <2>5 DEF continue_parse_item, WorkersOK, RowOK, WithJob, WorkerRow
    <3> QED BY <2>5, <3>1 DEF continue_parse_item, Next
  <2>6. CASE continue_parse_end(w)
    <3>1. worker[w].job \in Jobs
      BY <2>6 DEF continue_parse_end, WorkersOK, RowOK, WithJob
    <3> QED BY <2>6, <3>1 DEF continue_parse_end, StoreUnchanged, vars, Next
  <2>7. CASE continue_stage(w)
    <3>1. worker[w].job \in Jobs
      BY <2>7 DEF continue_stage, At, WorkersOK, RowOK, WithJob
    <3>2. PICK stage \in Stages : StageTransaction(stage, worker[w].job)
      BY <2>7 DEF continue_stage
    <3> QED BY <3>1, <3>2 DEF StageTransaction, Next
  <2>8. CASE continue_retry(w)
    BY <2>8 DEF continue_retry, StoreUnchanged, vars
  <2>9. CASE continue_derived(w)
    BY <2>9 DEF continue_derived, StoreUnchanged, vars
  <2>10. CASE lifecycle_result(w, "status", "answer")
    BY <2>10 DEF lifecycle_result, StoreUnchanged, vars
  <2> QED
    BY <1>2, <2>1, <2>2, <2>3, <2>4, <2>5, <2>6, <2>7, <2>8, <2>9, <2>10
       DEF continue_refresh
<1>3. ASSUME NEW w \in Workers, cancel_refresh(w)
      PROVE  [Next]_vars
  <2>1. CASE cancel_load(w)
    BY <2>1 DEF cancel_load, StoreUnchanged, vars
  <2>2. CASE cancel_request(w)
    BY <2>2 DEF cancel_request, WorkersOK, RowOK, WithJob, Next
  <2>3. CASE cancel_acknowledge(w)
    BY <2>3 DEF cancel_acknowledge, WorkersOK, RowOK, WithJob, Next
  <2>4. CASE lifecycle_result(w, "state", "cancelled")
    BY <2>4 DEF lifecycle_result, StoreUnchanged, vars
  <2> QED BY <1>3, <2>1, <2>2, <2>3, <2>4 DEF cancel_refresh
<1>4. ASSUME NEW w \in Workers, Refuse(w)
      PROVE  [Next]_vars
  BY <1>4 DEF Refuse, StoreUnchanged, vars
<1>5. ASSUME NEW w \in Workers,
             Answer(w) \/ auto_continue(w) \/ click_index(w) \/ click_cancel(w)
               \/ click_cleanup(w)
      PROVE  [Next]_vars
  BY <1>5 DEF Answer, continue_answered, continue_failed, start_answered,
         cancel_answered, action_ended, answer_dropped, auto_continue,
         click_index, click_cancel, click_cleanup, PanelOnly, StoreUnchanged,
         vars
<1>6. CASE mounted_status \/ remount \/ move_head \/ crash
  BY <1>6 DEF mounted_status, remount, move_head, crash, PanelOnly,
         StoreUnchanged, vars
<1>7. CASE UNCHANGED refreshVars
  BY <1>7 DEF refreshVars, vars
<1>8. ASSUME NEW w \in Workers, refused(w) PROVE Refuse(w)
  BY <1>8 DEF refused
<1>9. ASSUME NEW w \in Workers, command_fails(w) PROVE Refuse(w)
  BY <1>9 DEF command_fails
<1>10. ASSUME NEW w \in Workers, run_cleanup(w)
       PROVE  [Next]_vars
  <2>1. worker[w].job \in Jobs /\ 1 \in 0 .. CleanupBatch
    BY <1>10, RefreshAssumption, JobsAssumption
       DEF run_cleanup, WorkersOK, RowOK, WithJob
  <2>2. PICK kept \in SUBSET Gens, batch \in SUBSET Gens :
           cleanup_generations(worker[w].job, Owner, 1, kept, batch, 0)
    BY <1>10 DEF run_cleanup
  <2> QED BY <2>1, <2>2 DEF Next
<1> QED
  BY <1>1, <1>2, <1>3, <1>4, <1>5, <1>6, <1>7, <1>8, <1>9, <1>10
     DEF RefreshNext, Command

----------------------------------------------------------------------------
\* What a thread writes into its row.
LEMMA WorkerStep ==
    ASSUME TypeOK, WorkersOK, [RefreshNext]_refreshVars
    PROVE  WorkersOK'
<1> USE Parameters
<1>1. ASSUME NEW w \in Workers, run_refresh(w)
      PROVE  WorkersOK'
  <2>0. worker[w] \in WorkerRow /\ RowOK(worker[w]) /\ head \in Revisions
    BY DEF WorkersOK
  <2>1. CASE refresh_head(w)
    <3>1. RowOK([Idle EXCEPT !.at = "started"])
      BY JobsAssumption, Names
         DEF RowOK, Idle, WorkerRow, WithJob, Preparing, RefreshSteps
    <3>2. RowOK([worker[w] EXCEPT !.at = "register", !.rev = head])
      BY <2>0 DEF RowOK, WorkerRow, WithJob, Preparing, RefreshSteps
    <3> QED BY <2>1, <3>1, <3>2, PutOK DEF refresh_head, Elsewhere
  <2>2. CASE refresh_register(w)
    BY <2>2, <2>0, GotoOK
       DEF refresh_register, Elsewhere, RowOK, WithJob, Preparing, RefreshSteps
  <2>3. CASE refresh_reuse(w)
    <3>1. RowOK([Idle EXCEPT !.at = "started"])
      BY JobsAssumption, Names
         DEF RowOK, Idle, WorkerRow, WithJob, Preparing, RefreshSteps
    <3> QED BY <2>3, <3>1, PutOK DEF refresh_reuse, Elsewhere
  <2>4. CASE refresh_start(w)
    <3>1. PICK j \in Jobs, g \in Gens :
             Put(w, [worker[w] EXCEPT !.at = "manifest", !.job = j, !.gen = g])
      BY <2>4 DEF refresh_start, FreshJobs, FreshGens
    <3>2. RowOK([worker[w] EXCEPT !.at = "manifest", !.job = j, !.gen = g])
      BY <2>0 DEF RowOK, WorkerRow, WithJob, Preparing, RefreshSteps
    <3> QED BY <2>4, <3>1, <3>2, PutOK DEF refresh_start, Elsewhere
  <2>5. CASE refresh_manifest(w)
    BY <2>5, <2>0, GotoOK
       DEF refresh_manifest, Elsewhere, RowOK, WithJob, Preparing, RefreshSteps
  <2>6. CASE refresh_inputs(w)
    BY <2>6, <2>0, GotoOK
       DEF refresh_inputs, Elsewhere, RowOK, WithJob, Preparing, RefreshSteps
  <2>7. CASE refresh_plan(w)
    <3> DEFINE next == IF repo.ready # NoGen /\ Changed(worker[w].rev) = {}
                       THEN "noop" ELSE "clone"
               units == Invalidated(worker[w].rev)
    <3>1. next \in {"noop", "clone"} /\ units \subseteq Units
      BY DEF Invalidated, ReverseClosure, Changed
    <3>2. Put(w, [worker[w] EXCEPT !.at = next, !.units = units])
      BY <2>7 DEF refresh_plan
    <3>3. worker[w].at = "plan"
      BY <2>7 DEF refresh_plan
    <3> HIDE DEF next, units
    <3>4. RowOK([worker[w] EXCEPT !.at = next, !.units = units])
      BY <2>0, <3>1, <3>3 DEF RowOK, WorkerRow, WithJob, Preparing, RefreshSteps
    <3> QED BY <2>7, <3>2, <3>4, PutOK DEF refresh_plan, Elsewhere
  <2>8. CASE refresh_noop(w)
    <3>1. RowOK([Idle EXCEPT !.at = "started"])
      BY JobsAssumption, Names
         DEF RowOK, Idle, WorkerRow, WithJob, Preparing, RefreshSteps
    <3> QED BY <2>8, <3>1, PutOK DEF refresh_noop, Elsewhere
  <2>9. CASE refresh_clone(w)
    BY <2>9, <2>0, GotoOK
       DEF refresh_clone, Elsewhere, RowOK, WithJob, Preparing, RefreshSteps
  <2>10. CASE refresh_work(w)
    BY <2>10, <2>0, GotoOK
       DEF refresh_work, Elsewhere, RowOK, WithJob, Preparing, RefreshSteps
  <2>11. CASE refresh_checkpoint(w)
    <3>1. worker[w].job \in Jobs
      BY <2>11, <2>0 DEF refresh_checkpoint, RowOK, WithJob, Preparing
    <3> QED BY <2>11, <3>1, AnswerOK, PutOK DEF refresh_checkpoint, Elsewhere
  <2> QED
    BY <1>1, <2>1, <2>2, <2>3, <2>4, <2>5, <2>6, <2>7, <2>8, <2>9, <2>10,
       <2>11 DEF run_refresh
<1>2. ASSUME NEW w \in Workers, continue_refresh(w) \/ cancel_refresh(w)
      PROVE  WorkersOK'
  <2>0. worker[w] \in WorkerRow /\ RowOK(worker[w]) /\ head \in Revisions
    BY DEF WorkersOK
  <2>1. CASE continue_load(w)
    <3> DEFINE j == worker[w].job
               row == [worker[w] EXCEPT !.at = "step", !.gen = job[j].gen,
                                 !.state = job[j].state, !.stage = job[j].stage]
    <3>1. j \in Jobs
      BY <2>1, <2>0 DEF continue_load, RowOK, WithJob
    <3>2. job[j] \in JobRow
      BY <3>1 DEF TypeOK
    <3>3. RowOK(row)
      <4> DEFINE g == job[j].gen
                 s == job[j].state
                 t == job[j].stage
      <4>1. /\ g \in Gens \cup {NoGen} /\ t \in Stages
            /\ s \in ActiveStates \cup TerminalStates \cup {"absent"}
        BY <3>2 DEF JobRow
      <4> HIDE DEF g, s, t
      <4>2. /\ [worker[w] EXCEPT !.at = "step", !.gen = g, !.state = s,
                                 !.stage = t] \in WorkerRow
            /\ [worker[w] EXCEPT !.at = "step", !.gen = g, !.state = s,
                                 !.stage = t].at = "step"
            /\ [worker[w] EXCEPT !.at = "step", !.gen = g, !.state = s,
                                 !.stage = t].job = j
        BY <4>1, <2>0 DEF WorkerRow, ContinueSteps
      <4> USE DEF g, s, t
      <4>3. row \in WorkerRow /\ row.at = "step" /\ row.job = j
        BY <4>2
      <4> QED BY <4>3, <3>1 DEF RowOK, Preparing
    <3> QED BY <2>1, <3>3, PutOK DEF continue_load, Elsewhere
  <2>2. CASE continue_cancelling(w)
    BY <2>2, <2>0, GotoOK
       DEF continue_cancelling, Elsewhere, RowOK, WithJob, Preparing, ContinueSteps
  <2>3. CASE continue_break(w)
    BY <2>3, <2>0, GotoOK
       DEF continue_break, Elsewhere, RowOK, WithJob, Preparing, ContinueSteps
  <2>4. CASE continue_parse(w)
    <3>1. worker[w].job \in Jobs /\ job[worker[w].job] \in JobRow
      BY <2>4, <2>0 DEF continue_parse, At, RowOK, WithJob, TypeOK
    <3>2. PICK batch \in SUBSET job[worker[w].job].work :
             Put(w, [worker[w] EXCEPT !.at = "parse", !.units = batch])
      BY <2>4 DEF continue_parse
    <3>3. batch \subseteq Units
      BY <3>1, <3>2 DEF JobRow
    <3>4. RowOK([worker[w] EXCEPT !.at = "parse", !.units = batch])
      BY <2>0, <3>1, <3>3 DEF RowOK, WorkerRow, WithJob, Preparing, ContinueSteps
    <3> QED BY <2>4, <3>2, <3>4, PutOK DEF continue_parse, Elsewhere
  <2>5. CASE continue_parse_item(w)
    <3>1. PICK u \in worker[w].units :
             Put(w, [worker[w] EXCEPT !.units = @ \ {u}])
      BY <2>5 DEF continue_parse_item
    <3> DEFINE rest == worker[w].units \ {u}
    <3>2. rest \subseteq Units
      BY <2>0 DEF WorkerRow
    <3>3. Put(w, [worker[w] EXCEPT !.units = rest])
      BY <3>1
    <3>4. worker[w].at = "parse"
      BY <2>5 DEF continue_parse_item
    <3> HIDE DEF rest
    <3>5. RowOK([worker[w] EXCEPT !.units = rest])
      BY <2>0, <3>2, <3>4 DEF RowOK, WorkerRow, WithJob, Preparing
    <3> QED BY <2>5, <3>3, <3>5, PutOK DEF continue_parse_item, Elsewhere
  <2>6. CASE continue_parse_end(w)
    BY <2>6, <2>0, GotoOK
       DEF continue_parse_end, Elsewhere, RowOK, WithJob, Preparing, ContinueSteps
  <2>7. CASE continue_stage(w) \/ continue_retry(w)
    <3>1. PICK stage \in Stages : At(w, stage) /\ Goto(w, AfterStage(stage))
      BY <2>7 DEF continue_stage, continue_retry
    <3>2. AfterStage(stage) \in {"derived", "status"}
      BY DEF AfterStage
    <3>3. worker[w].job \in Jobs
      BY <3>1, <2>0 DEF At, RowOK, WithJob
    <3> QED
      BY <2>7, <3>1, <3>2, <3>3, GotoOK
         DEF continue_stage, continue_retry, Elsewhere, Preparing, ContinueSteps
  <2>8. CASE continue_derived(w)
    BY <2>8, <2>0, GotoOK
       DEF continue_derived, Elsewhere, RowOK, WithJob, Preparing, ContinueSteps
  <2>9. ASSUME NEW step \in {"status", "state"},
               NEW told \in {"answer", "cancelled"},
               lifecycle_result(w, step, told)
        PROVE  WorkersOK'
    <3> DEFINE j == worker[w].job
               s == job[j].state
               b == GenStatus(j, "ready")
    <3>1. j \in Jobs
      BY <2>9, <2>0 DEF lifecycle_result, RowOK, WithJob
    <3>2. s \in ActiveStates \cup TerminalStates \cup {"absent"}
      BY <3>1 DEF TypeOK, JobRow
    <3>3. b \in BOOLEAN
      BY Zenon DEF GenStatus
    <3>4. Put(w, [Idle EXCEPT !.at = told, !.job = j, !.state = s, !.ready = b])
      BY <2>9 DEF lifecycle_result
    <3> HIDE DEF j, s, b
    <3>5. RowOK([Idle EXCEPT !.at = told, !.job = j, !.state = s, !.ready = b])
      BY <3>1, <3>2, <3>3, JobsAssumption, Names
         DEF RowOK, Idle, WorkerRow, WithJob, Preparing, ContinueSteps,
             CancelSteps
    <3> QED BY <2>9, <3>4, <3>5, PutOK DEF lifecycle_result, Elsewhere
  <2>10. CASE cancel_load(w)
    BY <2>10, <2>0, GotoOK
       DEF cancel_load, Elsewhere, RowOK, WithJob, Preparing, CancelSteps
  <2>11. CASE cancel_request(w)
    BY <2>11, <2>0, GotoOK
       DEF cancel_request, Elsewhere, RowOK, WithJob, Preparing, CancelSteps
  <2>12. CASE cancel_acknowledge(w)
    BY <2>12, <2>0, GotoOK
       DEF cancel_acknowledge, Elsewhere, RowOK, WithJob, Preparing, CancelSteps
  <2> QED
    BY <1>2, <2>1, <2>2, <2>3, <2>4, <2>5, <2>6, <2>7, <2>8, <2>9, <2>10,
       <2>11, <2>12 DEF continue_refresh, cancel_refresh
<1>3. ASSUME NEW w \in Workers, Refuse(w)
      PROVE  WorkersOK'
  <2>1. worker[w].job \in Jobs \cup {NoJobId}
    BY DEF WorkersOK, WorkerRow
  <2> QED BY <1>3, <2>1, AnswerOK, PutOK DEF Refuse
<1>4. ASSUME NEW w \in Workers, Answer(w)
      PROVE  WorkersOK'
  <2>1. Put(w, Idle) /\ UNCHANGED head
    BY <1>4 DEF Answer, continue_answered, continue_failed, start_answered,
         cancel_answered, action_ended, answer_dropped, PanelOnly, Free, Put
  <2> QED BY <2>1, IdleOK, PutOK
<1>5. ASSUME NEW w \in Workers,
             auto_continue(w) \/ click_index(w) \/ click_cancel(w)
               \/ click_cleanup(w)
      PROVE  WorkersOK'
  <2>1. ASSUME NEW j \in Jobs, NEW step \in {"find", "load", "clean"}
        PROVE  RowOK([Idle EXCEPT !.at = step, !.job = j])
    BY JobsAssumption, Names
       DEF RowOK, Idle, WorkerRow, WithJob, Preparing, ContinueSteps,
           CancelSteps, CleanupSteps
  <2>2. RowOK([Idle EXCEPT !.at = "head"])
    BY JobsAssumption, Names
       DEF RowOK, Idle, WorkerRow, WithJob, Preparing, RefreshSteps
  <2> QED
    BY <1>5, <2>1, <2>2, PutOK
       DEF auto_continue, click_index, click_cancel, click_cleanup,
           ViewActive, PanelOnly
<1>6. CASE crash
  <2>1. worker' = [w \in Workers |-> Idle] /\ UNCHANGED head
    BY <1>6 DEF crash
  <2>2. RowOK(Idle) /\ Idle \in WorkerRow
    BY IdleOK DEF RowOK
  <2>3. worker' \in [Workers -> WorkerRow]
    BY <2>1, <2>2
  <2>4. ASSUME NEW w \in Workers PROVE RowOK(worker[w])'
    <3>1. worker'[w] = Idle
      BY <2>1
    <3> QED BY <3>1, <2>2 DEF RowOK
  <2> QED BY <2>1, <2>3, <2>4 DEF WorkersOK
<1>7. CASE move_head \/ mounted_status \/ remount \/ UNCHANGED refreshVars
  <2>1. UNCHANGED worker /\ head' \in Revisions
    BY <1>7 DEF move_head, mounted_status, remount, refreshVars, PanelOnly,
         WorkersOK
  <2> QED BY <2>1 DEF WorkersOK, RowOK
<1>8. ASSUME NEW w \in Workers, refused(w) PROVE Refuse(w)
  BY <1>8 DEF refused
<1>9. ASSUME NEW w \in Workers, command_fails(w) PROVE Refuse(w)
  BY <1>9 DEF command_fails
<1>10. ASSUME NEW w \in Workers, run_cleanup(w)
       PROVE  WorkersOK'
  <2>1. RowOK([Idle EXCEPT !.at = "cleaned"])
    BY JobsAssumption, Names
       DEF RowOK, Idle, WorkerRow, WithJob, Preparing, CleanupSteps
  <2> QED BY <1>10, <2>1, PutOK DEF run_cleanup, Elsewhere
<1> QED
  BY <1>1, <1>2, <1>3, <1>4, <1>5, <1>6, <1>7, <1>8, <1>9, <1>10
     DEF RefreshNext, Command

----------------------------------------------------------------------------
\* The application starts with an empty store and idle threads.
LEMMA RefreshInitInvariant == RefreshInit => Init /\ RefreshInvariant
<1> SUFFICES ASSUME RefreshInit PROVE Init /\ RefreshInvariant
  OBVIOUS
<1>1. Init /\ JobsInvariant
  BY InitInvariant DEF RefreshInit
<1>2. worker = [w \in Workers |-> Idle] /\ head \in Revisions
  BY DEF RefreshInit
<1>3. WorkersOK
  BY <1>2, IdleOK DEF WorkersOK, RowOK
<1> QED BY <1>1, <1>3 DEF RefreshInvariant

\* The types of the rows and what the threads hold carry each other.
LEMMA RefreshStepInvariant ==
    RefreshInvariant /\ [RefreshNext]_refreshVars
        => RefreshInvariant' /\ [Next]_vars
<1> SUFFICES ASSUME RefreshInvariant, [RefreshNext]_refreshVars
             PROVE  RefreshInvariant' /\ [Next]_vars
  OBVIOUS
<1>1. TypeOK /\ WorkersOK
  BY DEF RefreshInvariant, JobsInvariant
<1>2. [Next]_vars
  BY <1>1, StepSimulates
<1>3. JobsInvariant'
  BY <1>2, StepInvariant DEF RefreshInvariant
<1>4. WorkersOK'
  BY <1>1, WorkerStep
<1> QED BY <1>2, <1>3, <1>4 DEF RefreshInvariant

\* The commands of the desktop are clients of the job store: their behaviours
\* are behaviours of ArchaeologyJobs, with crashes, failures and overlap.
THEOREM RefreshImplementsJobs == RefreshSpec => Spec
BY RefreshInitInvariant, RefreshStepInvariant, PTL DEF RefreshSpec, Spec

\* At every moment a reader that follows the ready pointer finds a complete
\* generation, and one job at most is active.
THEOREM RefreshKeepsCatalog ==
    RefreshSpec => [](ReadyPointerConsistent /\ LeaseConsistent /\ PublishedIntact)
<1>1. RefreshInvariant
        => ReadyPointerConsistent /\ LeaseConsistent /\ PublishedIntact
  BY DEF RefreshInvariant, JobsInvariant
<1> QED BY <1>1, RefreshInitInvariant, RefreshStepInvariant, PTL DEF RefreshSpec
=============================================================================
