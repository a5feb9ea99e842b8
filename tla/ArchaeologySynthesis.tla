------------------------- MODULE ArchaeologySynthesis -------------------------
(***************************************************************************)
(* Model synthesis of one generation whose job is in the synthesize stage: *)
(* concurrent run_business_rule_synthesis commands, their reservations in  *)
(* archaeology_synthesis_cache, the calls to the provider with their       *)
(* durable archaeology_synthesis_attempts rows, the watcher task of each   *)
(* command, and the commands that move the same job meanwhile.             *)
(*                                                                         *)
(* A key stands for a packet asked of one provider; every key has a rule   *)
(* of its own.  The owner token is the job's, the same for every caller,   *)
(* so the owner column of the cache tells no two callers apart and is left *)
(* out.  A reservation lapses 120 s after it was made; a live call ends    *)
(* within 90 s unless the machine sleeps (MaySleep), since deadlines use   *)
(* the monotonic clock and reservations the wall clock.  The texts of      *)
(* requests and responses, usage and cost are left out.                    *)
(***************************************************************************)
EXTENDS ArchaeologyJobs

CONSTANTS
    Callers,      \* run commands under way at a time
    Keys,         \* cache keys of the generation
    Eligible,     \* keys without protected, opaque or sensitive evidence
    MaxAttempts,  \* MAX_ATTEMPTS
    MaySleep,     \* whether the machine may sleep during a call
    MayOvertake,  \* whether the refresh commands move the job meanwhile
    MaxCrashes,   \* bound on ends of the process and failures of a watcher
    NoKey

ASSUME SynthesisAssumption ==
    /\ MaxTime = 0 /\ Owners # {} /\ Jobs # {} /\ Gens # {} /\ Revisions # {}
    /\ Eligible \subseteq Keys /\ NoKey \notin Keys
    /\ MaxAttempts \in Nat \ {0} /\ MaxCrashes \in Nat
    /\ MaySleep \in BOOLEAN /\ MayOvertake \in BOOLEAN

Job == CHOOSE j \in Jobs : TRUE
Gen == CHOOSE g \in Gens : TRUE
Owner == CHOOSE o \in Owners : TRUE

VARIABLES
    cache,     \* archaeology_synthesis_cache: status, and whether it lapsed
    attempts,  \* archaeology_synthesis_attempts: status per key and ordinal
    rule,      \* per key: who wrote the clauses of its rule
    called,    \* provider calls per key and ordinal, as the provider counts
    caller,    \* the command each caller runs
    crashes

synthesisVars ==
    <<repo, gen, job, cache, attempts, rule, called, caller, crashes>>

Ordinals == 1 .. MaxAttempts

Settled == {"ready", "excluded", "failed", "cancelled"}

CacheRow == [status : {"absent", "pending"} \cup Settled, lapsed : BOOLEAN]
Row(status) == [status |-> status, lapsed |-> FALSE]

\* 'transient' is a transient_failure or a timeout that is retried,
\* 'permanent' any failure that ends the command.
Outcomes == {"success", "transient", "permanent", "cancelled"}

\* `at` is the next step, `ordinal` the current attempt, `last` the outcome of
\* the last attempt in memory, `ok` whether the invocation returned a run,
\* `flag` the cancellation flag the watcher sets.
CallerRow == [at : {"idle", "check", "exclude", "reserve", "cached",
                    "settle_failed", "begin", "call", "sent", "finish",
                    "wait", "returned", "outcome", "settle", "acknowledge",
                    "finalize", "catalog", "failure"},
              key : Keys \cup {NoKey}, max : Ordinals \cup {0}, ordinal : Nat,
              last : Outcomes \cup {"none"}, ok : BOOLEAN, flag : BOOLEAN,
              watch : {"none", "active", "cancelled", "lost"}]

NoCall == [at |-> "idle", key |-> NoKey, max |-> 0, ordinal |-> 0,
           last |-> "none", ok |-> FALSE, flag |-> FALSE, watch |-> "none"]

SynthesisTypeOK ==
    /\ TypeOK
    /\ cache \in [Keys -> CacheRow]
    /\ attempts \in [Keys -> [Ordinals -> Outcomes \cup {"none", "pending"}]]
    /\ rule \in [Keys -> {"deterministic", "model"}]
    /\ called \in [Keys -> [Ordinals -> Nat]]
    /\ caller \in [Callers -> CallerRow]
    /\ crashes \in 0 .. MaxCrashes

\* A job whose rule templates have been derived.
SynthesisInit ==
    /\ \E r \in Revisions :
          /\ repo = [current |-> r, ready |-> NoGen, updated |-> 0]
          /\ gen = [g \in Gens |->
                      IF g = Gen
                      THEN [status |-> "staging", revision |-> r, created |-> 0,
                            data |-> [built |-> {"manifest", "link", "derive"},
                                      parsed |-> Units, lineage |-> Units,
                                      late |-> {}]]
                      ELSE NoGeneration]
    /\ job = [j \in Jobs |->
                IF j = Job
                THEN [NoJob EXCEPT !.state = "running", !.stage = "synthesize",
                                   !.gen = Gen, !.owner = Owner, !.plan = Units]
                ELSE NoJob]
    /\ cache = [k \in Keys |-> Row("absent")]
    /\ attempts = [k \in Keys |-> [n \in Ordinals |-> "none"]]
    /\ rule = [k \in Keys |-> "deterministic"]
    /\ called = [k \in Keys |-> [n \in Ordinals |-> 0]]
    /\ caller = [c \in Callers |-> NoCall]
    /\ crashes = 0

----------------------------------------------------------------------------
(* What the steps share.                                                   *)

Put(c, row) == caller' = [caller EXCEPT ![c] = row]
Go(c, step) == Put(c, [caller[c] EXCEPT !.at = step])
Return(c) == Put(c, NoCall)

At(c, step) == caller[c].at = step
Key(c) == caller[c].key

\* Two transactions under one lock of the application's connection.
DbLocked == \E c \in Callers : caller[c].at \in {"acknowledge", "catalog"}

JobsUnchanged == UNCHANGED <<repo, gen, job>>
RowsUnchanged == JobsUnchanged /\ UNCHANGED <<cache, attempts, rule>>

\* require_owned_job, of the command's own job.
OwnedJob ==
    job[Job].stage \in {"synthesize", "validate"} /\ HoldsLease(Job, Owner)

\* validate_persistence_actor in its two modes.
ActiveActor == HoldsLease(Job, Owner) /\ job[Job].stage = "synthesize"
AccountingActor ==
    /\ job[Job].owner = Owner /\ job[Job].stage = "synthesize"
    /\ job[Job].state \in {"running", "cancelling"}

SetCache(k, status) == cache' = [cache EXCEPT ![k] = Row(status)]

\* Mutant: the clauses are committed without the checkpoint.
finalize_model_catalog_NoCheckpoint(k) ==
    /\ cache[k].status = "ready" /\ OwnedJob
    /\ rule' = [rule EXCEPT ![k] = "model"]
    /\ JobsUnchanged

\* finalize_model_catalog: clauses of the cached response replace those of the
\* template, with the checkpoint, in one transaction; a retry after the
\* checkpoint is recognised by the rule.
finalize_model_catalog(k) ==
    /\ cache[k].status = "ready" /\ OwnedJob
    /\ \/ /\ rule[k] = "deterministic"
          /\ finalize_synthesis_catalog(Job, Owner, 0)
          /\ rule' = [rule EXCEPT ![k] = "model"]
       \/ /\ job[Job].stage = "validate" /\ rule[k] = "model"
          /\ JobsUnchanged /\ UNCHANGED rule

----------------------------------------------------------------------------
(* run_business_rule_synthesis_core up to the reservation.                 *)

run_business_rule_synthesis(c) ==
    /\ At(c, "idle")
    /\ \E k \in Keys, max \in Ordinals :
          Put(c, [NoCall EXCEPT !.at = "check", !.key = k, !.max = max])
    /\ RowsUnchanged /\ UNCHANGED <<called, crashes>>

\* cached_synthesis_result follows under the same lock.  A command without the
\* user's consent to the call ends before it reserves.
check_job(c) ==
    /\ At(c, "check") /\ ~DbLocked
    /\ \/ ~OwnedJob /\ Return(c)
       \/ OwnedJob /\ Key(c) \notin Eligible /\ Go(c, "exclude")
       \/ /\ OwnedJob /\ Key(c) \in Eligible
          /\ IF cache[Key(c)].status = "ready" THEN Go(c, "catalog")
             ELSE Go(c, "reserve") \/ Return(c)
    /\ RowsUnchanged /\ UNCHANGED <<called, crashes>>

persist_synthesis_exclusion(c) ==
    /\ At(c, "exclude") /\ ~DbLocked
    /\ \/ ActiveActor /\ SetCache(Key(c), "excluded")
       \/ ~ActiveActor /\ UNCHANGED cache
    /\ Return(c)
    /\ JobsUnchanged /\ UNCHANGED <<attempts, rule, called, crashes>>

\* COALESCE(MAX(ordinal),0)+1
NextOrdinal(k, n) ==
    /\ n \in 1 .. MaxAttempts + 1
    /\ n > 1 => attempts[k][n - 1] # "none"
    /\ \A m \in Ordinals : m >= n => attempts[k][m] = "none"

\* The factory makes the provider, or the reservation is settled.
Acquire(c, ordinal) ==
    \/ Put(c, [caller[c] EXCEPT !.at = "begin", !.ordinal = ordinal,
                                !.watch = "active"])
    \/ Put(c, [caller[c] EXCEPT !.at = "settle_failed"])

\* reserve_synthesis_cache: a new row, a lapsed one taken over at the next
\* ordinal, or what the row says already.
reserve_synthesis_cache(c) ==
    LET k == Key(c) IN
    /\ At(c, "reserve") /\ ~DbLocked
    /\ \/ ~ActiveActor /\ Return(c) /\ UNCHANGED cache
       \/ /\ ActiveActor /\ cache[k].status = "absent"
          /\ SetCache(k, "pending") /\ Acquire(c, 1)
       \/ /\ ActiveActor /\ cache[k].status = "pending" /\ cache[k].lapsed
          /\ \E n \in 1 .. MaxAttempts + 1 :
                /\ NextOrdinal(k, n)
                /\ \/ n > caller[c].max /\ SetCache(k, "failed") /\ Return(c)
                   \/ n <= caller[c].max /\ SetCache(k, "pending") /\ Acquire(c, n)
       \/ /\ ActiveActor /\ cache[k].status = "pending" /\ ~cache[k].lapsed
          /\ Return(c) /\ UNCHANGED cache
       \/ /\ ActiveActor /\ cache[k].status = "ready"
          /\ Go(c, "cached") /\ UNCHANGED cache
       \/ /\ ActiveActor /\ cache[k].status \in Settled \ {"ready"}
          /\ Return(c) /\ UNCHANGED cache
    /\ JobsUnchanged /\ UNCHANGED <<attempts, rule, called, crashes>>

\* The answer another caller has stored in the meantime.
cached_synthesis_result(c) ==
    /\ At(c, "cached") /\ ~DbLocked
    /\ Go(c, "catalog")
    /\ RowsUnchanged /\ UNCHANGED <<called, crashes>>

\* finalize_synthesis_without_response
SettleWithoutResponse(k, status) ==
    AccountingActor /\ cache[k].status = "pending" /\ SetCache(k, status)

settle_failed_reservation(c) ==
    /\ At(c, "settle_failed") /\ ~DbLocked
    /\ \/ SettleWithoutResponse(Key(c), "failed")
       \/ ~(AccountingActor /\ cache[Key(c)].status = "pending")
             /\ UNCHANGED cache
    /\ Return(c)
    /\ JobsUnchanged /\ UNCHANGED <<attempts, rule, called, crashes>>

----------------------------------------------------------------------------
(* The invocation (invoke_synthesis_plan), its recorder and its watcher.   *)

Invocation == {"begin", "call", "sent", "finish", "wait", "returned"}

Fail(c) == Put(c, [caller[c] EXCEPT !.at = "returned", !.ok = FALSE])

\* Mutant: an attempt row that exists already is no obstacle.
begin_Again(c) ==
    /\ At(c, "begin") /\ ~DbLocked
    /\ ~caller[c].flag /\ ActiveActor
    /\ Go(c, "call")
    /\ attempts' = [attempts EXCEPT ![Key(c)] =
                      [@ EXCEPT ![caller[c].ordinal] = "pending"]]
    /\ JobsUnchanged /\ UNCHANGED <<cache, rule, called, crashes>>

\* The row of an attempt is inserted before the provider is called.
begin(c) ==
    LET k == Key(c)
        n == caller[c].ordinal
        free == ~caller[c].flag /\ ActiveActor /\ attempts[k][n] = "none"
    IN
    /\ At(c, "begin") /\ ~DbLocked
    /\ \/ /\ free
          /\ attempts' = [attempts EXCEPT ![k] = [@ EXCEPT ![n] = "pending"]]
          /\ Go(c, "call")
       \/ ~free /\ Fail(c) /\ UNCHANGED attempts
    /\ JobsUnchanged /\ UNCHANGED <<cache, rule, called, crashes>>

\* The select polls the cancellation flag before it polls the call.
send(c) ==
    /\ At(c, "call") /\ ~caller[c].flag
    /\ called' = [called EXCEPT ![Key(c)][caller[c].ordinal] = @ + 1]
    /\ Go(c, "sent")
    /\ RowsUnchanged /\ UNCHANGED crashes

abandon(c) ==
    /\ caller[c].at \in {"call", "sent"} /\ caller[c].flag
    /\ Put(c, [caller[c] EXCEPT !.at = "finish", !.last = "cancelled"])
    /\ RowsUnchanged /\ UNCHANGED <<called, crashes>>

\* Mutant: only an attempt that may be repeated has a deadline.
answer_LastUnbounded(c) ==
    /\ At(c, "sent") /\ caller[c].ordinal < caller[c].max
    /\ \E outcome \in {"success", "transient", "permanent"} :
          Put(c, [caller[c] EXCEPT !.at = "finish", !.last = outcome])
    /\ RowsUnchanged /\ UNCHANGED <<called, crashes>>

\* The response, an error or the timeout of the attempt.
answer(c) ==
    /\ At(c, "sent")
    /\ \E outcome \in {"success", "transient", "permanent"} :
          /\ outcome = "transient" => caller[c].ordinal < caller[c].max
          /\ Put(c, [caller[c] EXCEPT !.at = "finish", !.last = outcome])
    /\ RowsUnchanged /\ UNCHANGED <<called, crashes>>

\* Mutant: whatever is not retried counts as a run.
finish_AnyRun(c) ==
    LET k == Key(c)
        n == caller[c].ordinal
        last == caller[c].last
    IN
    /\ At(c, "finish") /\ ~DbLocked
    /\ \/ /\ AccountingActor
          /\ attempts' = [attempts EXCEPT ![k] = [@ EXCEPT ![n] = last]]
          /\ Put(c, [caller[c] EXCEPT !.ok = (last # "transient"),
                       !.at = IF last = "transient" THEN "wait" ELSE "returned"])
       \/ ~AccountingActor /\ Fail(c) /\ UNCHANGED attempts
    /\ JobsUnchanged /\ UNCHANGED <<cache, rule, called, crashes>>

\* The outcome is recorded as long as the job is in the stage, also while it
\* is being cancelled; a refused record ends the invocation.
finish(c) ==
    LET k == Key(c)
        n == caller[c].ordinal
        last == caller[c].last
    IN
    /\ At(c, "finish") /\ ~DbLocked
    /\ \/ /\ AccountingActor
          /\ attempts' = [attempts EXCEPT ![k] = [@ EXCEPT ![n] = last]]
          /\ Put(c, [caller[c] EXCEPT !.ok = (last = "success"),
                       !.at = IF last = "transient" THEN "wait" ELSE "returned"])
       \/ ~AccountingActor /\ Fail(c) /\ UNCHANGED attempts
    /\ JobsUnchanged /\ UNCHANGED <<cache, rule, called, crashes>>

\* sleep_retry ends with the delay, the total deadline or the flag.
sleep_retry(c) ==
    /\ At(c, "wait")
    /\ \/ ~caller[c].flag /\ Put(c, [caller[c] EXCEPT !.at = "begin",
                                       !.ordinal = caller[c].ordinal + 1])
       \/ Fail(c)
    /\ RowsUnchanged /\ UNCHANGED <<called, crashes>>

\* The watcher polls the job; what ends it raises the flag.  While the job
\* runs it only heartbeats.
watch_owned_job(c) ==
    /\ caller[c].at \in Invocation /\ caller[c].watch = "active" /\ ~DbLocked
    /\ ~ActiveActor
    /\ Put(c, [caller[c] EXCEPT !.flag = TRUE,
                 !.watch = IF AccountingActor THEN "cancelled" ELSE "lost"])
    /\ RowsUnchanged /\ UNCHANGED <<called, crashes>>

\* The watcher cannot read the job, or its heartbeat is refused: to it the job
\* is lost.
watch_fails(c) ==
    /\ caller[c].at \in Invocation /\ caller[c].watch = "active" /\ ~DbLocked
    /\ crashes < MaxCrashes /\ crashes' = crashes + 1
    /\ Put(c, [caller[c] EXCEPT !.flag = TRUE, !.watch = "lost"])
    /\ RowsUnchanged /\ UNCHANGED called

\* The watcher is stopped and asked what it saw; what follows needs only the
\* outcome of the last attempt.
returned(c) ==
    /\ At(c, "returned")
    /\ IF caller[c].watch = "lost" THEN Return(c)
       ELSE Put(c, [NoCall EXCEPT !.at = "outcome", !.key = Key(c),
                                  !.last = caller[c].last, !.ok = caller[c].ok])
    /\ RowsUnchanged /\ UNCHANGED <<called, crashes>>

----------------------------------------------------------------------------
(* run_business_rule_synthesis_core after the invocation.                  *)

\* owned_job_outcome decides which of the three endings is taken; each takes
\* the lock again.
owned_job_outcome(c) ==
    /\ At(c, "outcome") /\ ~DbLocked
    /\ \/ ~AccountingActor /\ Return(c)
       \/ AccountingActor /\ ~ActiveActor /\ Go(c, "settle")
       \/ ActiveActor /\ Go(c, IF caller[c].ok THEN "finalize" ELSE "failure")
    /\ RowsUnchanged /\ UNCHANGED <<called, crashes>>

\* Mutant: the job is acknowledged, its reservation is not.
settle_cancelled_job_JobOnly(c) ==
    /\ At(c, "settle") /\ ~DbLocked
    /\ Go(c, "acknowledge")
    /\ RowsUnchanged /\ UNCHANGED <<called, crashes>>

\* Whatever the provider answered is discarded.
settle_cancelled_job(c) ==
    /\ At(c, "settle") /\ ~DbLocked
    /\ \/ SettleWithoutResponse(Key(c), "cancelled") /\ Go(c, "acknowledge")
       \/ /\ ~(AccountingActor /\ cache[Key(c)].status = "pending")
          /\ Return(c) /\ UNCHANGED cache
    /\ JobsUnchanged /\ UNCHANGED <<attempts, rule, called, crashes>>

settle_acknowledge(c) ==
    /\ At(c, "acknowledge")
    /\ \/ acknowledge_cancel(Job, Owner, 0)
       \/ job[Job].state # "cancelling" /\ JobsUnchanged
    /\ Return(c)
    /\ UNCHANGED <<cache, attempts, rule, called, crashes>>

\* Mutant: the response is stored whatever has become of the reservation.
finalize_synthesis_run_AnyStatus(c) ==
    /\ At(c, "finalize") /\ ~DbLocked
    /\ \/ ActiveActor /\ SetCache(Key(c), "ready") /\ Go(c, "catalog")
       \/ ~ActiveActor /\ Return(c) /\ UNCHANGED cache
    /\ JobsUnchanged /\ UNCHANGED <<attempts, rule, called, crashes>>

\* Mutant: the accounting mode, which admits a job that is being cancelled.
finalize_synthesis_run_Accounting(c) ==
    LET owned == AccountingActor /\ cache[Key(c)].status = "pending" IN
    /\ At(c, "finalize") /\ ~DbLocked
    /\ \/ owned /\ SetCache(Key(c), "ready") /\ Go(c, "catalog")
       \/ ~owned /\ Return(c) /\ UNCHANGED cache
    /\ JobsUnchanged /\ UNCHANGED <<attempts, rule, called, crashes>>

\* The attempt rows it stores again are those `finish` stored: a response
\* exists only after its attempt was recorded.
finalize_synthesis_run(c) ==
    LET owned == ActiveActor /\ cache[Key(c)].status = "pending" IN
    /\ At(c, "finalize") /\ ~DbLocked
    /\ \/ owned /\ SetCache(Key(c), "ready") /\ Go(c, "catalog")
       \/ ~owned /\ Return(c) /\ UNCHANGED cache
    /\ JobsUnchanged /\ UNCHANGED <<attempts, rule, called, crashes>>

\* The transaction is refused, or rolled back because the catalog does not
\* validate or the database is busy; the answer stays and is served again.
materialize(c) ==
    /\ At(c, "catalog")
    /\ \/ finalize_model_catalog(Key(c))
       \/ JobsUnchanged /\ UNCHANGED rule
    /\ Return(c)
    /\ UNCHANGED <<cache, attempts, called, crashes>>

\* Mutant: the status of the last attempt is written to the reservation.
finalize_synthesis_failure_Raw(c) ==
    /\ At(c, "failure") /\ ~DbLocked
    /\ \/ SettleWithoutResponse(Key(c), caller[c].last)
       \/ ~(AccountingActor /\ cache[Key(c)].status = "pending")
             /\ UNCHANGED cache
    /\ Return(c)
    /\ JobsUnchanged /\ UNCHANGED <<attempts, rule, called, crashes>>

\* finalize_synthesis_failure, or _without_response if no attempt was made.
finalize_synthesis_failure(c) ==
    LET status == IF caller[c].last = "cancelled" THEN "cancelled" ELSE "failed"
    IN
    /\ At(c, "failure") /\ ~DbLocked
    /\ \/ SettleWithoutResponse(Key(c), status)
       \/ ~(AccountingActor /\ cache[Key(c)].status = "pending")
             /\ UNCHANGED cache
    /\ Return(c)
    /\ JobsUnchanged /\ UNCHANGED <<attempts, rule, called, crashes>>

Call(c) ==
    \/ check_job(c) \/ persist_synthesis_exclusion(c)
    \/ reserve_synthesis_cache(c) \/ cached_synthesis_result(c)
    \/ settle_failed_reservation(c)
    \/ begin(c) \/ send(c) \/ abandon(c) \/ answer(c) \/ finish(c)
    \/ sleep_retry(c) \/ returned(c) \/ owned_job_outcome(c)
    \/ settle_cancelled_job(c) \/ settle_acknowledge(c)
    \/ finalize_synthesis_run(c) \/ materialize(c)
    \/ finalize_synthesis_failure(c)

----------------------------------------------------------------------------
(* The other commands on the job, the clock and the end of the process.    *)

SynthesisUnchanged == UNCHANGED <<cache, attempts, rule, called, caller, crashes>>

cancel_business_rule_synthesis ==
    ~DbLocked /\ request_cancel(Job, Owner, 0) /\ SynthesisUnchanged

\* The catalog of the templates alone, without any answer.
continue_business_rule_synthesis_without_model ==
    ~DbLocked /\ finalize_synthesis_catalog(Job, Owner, 0) /\ SynthesisUnchanged

\* `continue` runs on a connection of its own, so the lock of the application's
\* connection does not hold it off.
continue_overtakes ==
    /\ MayOvertake
    /\ \/ finalize_synthesis_catalog(Job, Owner, 0)
       \/ validate_generation_for_publication(Job, Owner, 0)
       \/ publish_generation(Job, Owner, 0)
       \/ complete_job(Job, Owner, 0)
       \/ acknowledge_cancel(Job, Owner, 0)
    /\ SynthesisUnchanged

\* Mutant: keys that rules refer to are deleted as well.
cleanup_business_rule_synthesis_All ==
    /\ ~DbLocked /\ HoldsLease(Job, Owner) /\ job[Job].stage = "cleanup"
    /\ \E deleted \in SUBSET {k \in Keys : cache[k].status # "absent"} \ {{}} :
          /\ cache' = [k \in Keys |-> IF k \in deleted THEN Row("absent")
                                                       ELSE cache[k]]
          /\ attempts' = [k \in Keys |->
                            IF k \in deleted THEN [n \in Ordinals |-> "none"]
                                             ELSE attempts[k]]
    /\ JobsUnchanged /\ UNCHANGED <<rule, called, caller, crashes>>

\* cleanup_synthesis_cache deletes the selected rows that no rule refers to;
\* their attempts go with them.
cleanup_business_rule_synthesis ==
    /\ ~DbLocked /\ HoldsLease(Job, Owner) /\ job[Job].stage = "cleanup"
    /\ \E deleted \in SUBSET {k \in Keys : cache[k].status # "absent"
                                             /\ rule[k] # "model"} \ {{}} :
          /\ cache' = [k \in Keys |-> IF k \in deleted THEN Row("absent")
                                                       ELSE cache[k]]
          /\ attempts' = [k \in Keys |->
                            IF k \in deleted THEN [n \in Ordinals |-> "none"]
                                             ELSE attempts[k]]
    /\ JobsUnchanged /\ UNCHANGED <<rule, called, caller, crashes>>

\* A caller that has made or taken over the reservation of its key.
Holds(c, k) ==
    /\ Key(c) = k
    /\ caller[c].at \notin {"idle", "check", "exclude", "reserve", "cached"}

\* RESERVATION_STALE_AFTER_SECONDS have passed since the reservation.
reservation_lapses ==
    /\ \E k \in Keys :
          /\ cache[k].status = "pending" /\ ~cache[k].lapsed
          /\ MaySleep \/ \A c \in Callers : ~Holds(c, k)
          /\ cache' = [cache EXCEPT ![k] = [@ EXCEPT !.lapsed = TRUE]]
    /\ JobsUnchanged /\ UNCHANGED <<attempts, rule, called, caller, crashes>>

crash ==
    /\ crashes < MaxCrashes
    /\ crashes' = crashes + 1
    /\ caller' = [c \in Callers |-> NoCall]
    /\ RowsUnchanged /\ UNCHANGED called

SynthesisNext ==
    \/ \E c \in Callers : run_business_rule_synthesis(c)
    \/ \E c \in Callers : Call(c)
    \/ \E c \in Callers : watch_owned_job(c) \/ watch_fails(c)
    \/ cancel_business_rule_synthesis
    \/ continue_business_rule_synthesis_without_model \/ continue_overtakes
    \/ cleanup_business_rule_synthesis \/ reservation_lapses \/ crash

SynthesisSpec == SynthesisInit /\ [][SynthesisNext]_synthesisVars

\* A command that is running goes on and its watcher polls: both are tasks of
\* the async runtime, and the timeout of an attempt bounds the provider.
FairSynthesisSpec ==
    /\ SynthesisSpec
    /\ \A c \in Callers : WF_synthesisVars(Call(c))
                            /\ WF_synthesisVars(watch_owned_job(c))

----------------------------------------------------------------------------
(* Properties.                                                             *)

\* However callers overlap, die or take reservations over, the provider is
\* never called twice under one ordinal, and no call escapes the accounting:
\* its row exists unless cleanup deleted the reservation.
OneCallPerAttempt ==
    \A k \in Keys, n \in Ordinals :
        /\ called[k][n] <= 1
        /\ called[k][n] = 1 /\ cache[k].status # "absent"
              => attempts[k][n] # "none"

\* A cached answer rests on an attempt that was made and recorded as a success.
\* (load_ready_synthesis_cache serves it to every later command.)
ReadyHasSuccess ==
    \A k \in Keys : cache[k].status = "ready" =>
        \E n \in Ordinals : attempts[k][n] = "success" /\ called[k][n] = 1

\* What the catalog says a model wrote is backed by the cached answer, for one
\* packet at most, and the job has left the stage by the same transaction, so
\* the validation receipt seals the text that was materialised.
CatalogBacked ==
    /\ \A k \in Keys : rule[k] = "model" => cache[k].status = "ready"
    /\ Cardinality({k \in Keys : rule[k] = "model"}) <= 1
    /\ (\E k \in Keys : rule[k] = "model") => job[Job].stage # "synthesize"

\* A settled reservation is final: no late caller and no taker-over changes it;
\* only cleanup deletes it.
SettledStays ==
    [][\A k \in Keys : cache[k].status \in Settled =>
          cache'[k].status \in {cache[k].status, "absent"}]_synthesisVars

\* Once the cancellation is recorded, no answer is stored or materialised, not
\* even one the provider has given before.
CancelWins ==
    [][job[Job].cancel =>
          \A k \in Keys :
              /\ cache'[k].status = "ready" => cache[k].status = "ready"
              /\ rule'[k] = rule[k]]_synthesisVars

\* Every command comes to an end, also when its reservation or job is lost.
CommandsReturn == \A c \in Callers : ~At(c, "idle") ~> At(c, "idle")

\* A cancellation that meets the command of the stage between its reservation and
\* the end of its invocation settles all three: the job, the reservation and the
\* attempts.  It is the one of cancel_business_rule_synthesis, which leaves the
\* acknowledgement to the command.  The panel's own cancel, which MayOvertake
\* adds, acknowledges at once: the command then finds its job lost and leaves
\* the reservation pending until it lapses.
CancelDuringCall ==
    \A c \in Callers, k \in Keys :
        caller[c].at \in Invocation /\ Key(c) = k
            /\ job[Job].state = "cancelling" /\ job[Job].stage = "synthesize"
        ~> /\ job[Job].state = "cancelled"
           /\ cache[k].status = "cancelled"
           /\ \A n \in Ordinals : attempts[k][n] # "pending"
=============================================================================
