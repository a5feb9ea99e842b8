---------------------------- MODULE VerifyDaemon ----------------------------
(***************************************************************************)
(* verifyd: the runs it accepts over IPC, cancellation and deadlines,      *)
(* source edits while a run executes, and the host that starts it and      *)
(* shuts it down, over the supervisors of WarmRuntime.                     *)
(*                                                                         *)
(* A run is a verify_changed request or a candidate dry run.  A step of a  *)
(* run goes from one await to the next.  The sources (changed paths,       *)
(* config, scenario manifest) are one version; hashes and change-set       *)
(* identities are equal when the versions are.  An edit of a watched file  *)
(* is reported to the watch at once.                                       *)
(***************************************************************************)
EXTENDS WarmRuntime

CONSTANTS
    Verifies, Dries,    \* the run ids of either request
    Host,               \* the daemon host, as a caller of start
    Versions, Original, \* contents of the sources, and the first of them
    MaxEdits            \* bound on source edits

ASSUME DaemonAssumption ==
    /\ Waiters = Verifies \cup Dries \cup {Host}
    /\ Verifies \cap Dries = {} /\ Host \notin Verifies \cup Dries
    /\ Original \in Versions /\ MaxEdits \in Nat

VARIABLES
    src,    \* the version of the sources on disk
    edits,  \* edits made
    run,    \* the active runs, and the results of those that ended
    host    \* VerificationDaemonHost

daemonVars == <<src, edits, run, host>>
vars == <<runtimeVars, daemonVars>>

Runs == Verifies \cup Dries
Steps == {"off", "reserve", "collect", "hash", "watch", "wait", "execute",
          "rewait", "after", "recollect", "finalize", "done"}
Watched == {"wait", "execute", "rewait", "after", "recollect"}
Outcomes == {"none", "passed", "regression", "no_confidence", "error"}

Run == [at : Steps, want : Versions, hash : Versions,
        ran : SUBSET (Versions \X Generations), gens : Generations \X Generations,
        dirty : BOOLEAN, limited : BOOLEAN, abort : {"no", "dropped", "requested"},
        outcome : Outcomes]
NoRun == [at |-> "off", want |-> Original, hash |-> Original, ran |-> {},
          gens |-> <<0, 0>>, dirty |-> FALSE, limited |-> FALSE, abort |-> "no",
          outcome |-> "none"]

DaemonTypeOK ==
    /\ RuntimeTypeOK
    /\ src \in Versions /\ edits \in 0 .. MaxEdits
    /\ run \in [Runs -> Run]
    /\ host \in {"off", "starting", "up", "drain", "differential", "runtime",
                 "released", "failed"}

DaemonInit ==
    /\ RuntimeInit
    /\ src = Original /\ edits = 0
    /\ run = [r \in Runs |-> NoRun]
    /\ host = "off"

Active(r) == run[r].at \notin {"off", "done"}
Aborted(r) == run[r].abort # "no"
Gens == <<server.gen, browser.gen>>

\* A limitation that affects confidence: a verify run goes on to the checks
\* after the run, whose result no longer matters, and a dry run ends.
Limited(r) ==
    IF r \in Verifies
    THEN [NoRun EXCEPT !.at = "after", !.abort = run[r].abort, !.limited = TRUE]
    ELSE [NoRun EXCEPT !.at = "done", !.outcome = "no_confidence"]

\* Run r changes to the record new; nothing but runs changes.
Becomes(r, new) ==
    /\ run' = [run EXCEPT ![r] = new]
    /\ UNCHANGED <<runtimeVars, src, edits, host>>

----------------------------------------------------------------------------
(* Requests *)

\* handle: a new run id, while the daemon is not shutting down.  The client
\* has collected the change set it sends.
submit(r) ==
    /\ run[r].at = "off" /\ host = "up"
    /\ Becomes(r, [run[r] EXCEPT !.at = "reserve",
                                 !.want = IF r \in Verifies THEN src ELSE @])

\* reserveRun throws while another run holds the reservation, and also when one
\* was left behind or the disk fails: handle ends with that error.  A run that
\* finalizes has renamed its reservation, and reserveRun looks for the two
\* names one after the other: it may throw or not.
reserveRun(r) ==
    /\ run[r].at = "reserve" /\ r \in Verifies
    /\ \E free \in BOOLEAN :
          /\ free => \A q \in Verifies \ {r} :
                        run[q].at \in {"off", "reserve", "finalize", "done"}
          /\ Becomes(r, IF free THEN [run[r] EXCEPT !.at = "collect"]
                        ELSE [NoRun EXCEPT !.at = "done", !.outcome = "error"])

\* A dry run has no reservation.  It ends when it was aborted before its
\* config and manifest are loaded, or when its plans do not fit them.
dryRunRefused(r) ==
    /\ run[r].at = "reserve" /\ r \in Dries
    /\ Becomes(r, Limited(r))

\* It has loaded them and joins the warm runtime.
dryRunCandidate(r) ==
    /\ run[r].at = "reserve" /\ r \in Dries /\ ~Aborted(r)
    /\ run' = [run EXCEPT ![r].at = "wait"]
    /\ ensureReady(r)
    /\ UNCHANGED <<src, edits, host>>

\* The report of a dry run does not say who aborted it.
Cancelled(r) ==
    [run[r] EXCEPT !.abort = IF r \in Verifies THEN "requested" ELSE "dropped"]

\* cancel: accepted while the run is active, otherwise without effect.
cancel(r) ==
    /\ Active(r)
    /\ Becomes(r, Cancelled(r))

\* The client disconnects, or the deadline of the batch passes: the signal
\* aborts, and no cancellation is recorded.
drop(r) ==
    /\ Active(r) /\ run[r].abort = "no"
    /\ Becomes(r, [run[r] EXCEPT !.abort = "dropped"])

\* Somebody edits the sources while a run is about them; open watches
\* report it.
edit(v) ==
    /\ v # src /\ edits < MaxEdits
    /\ \E r \in Verifies : run[r].at \notin {"off", "finalize", "done"}
    /\ src' = v /\ edits' = edits + 1
    /\ run' = [r \in Runs |->
                 [run[r] EXCEPT !.dirty = @ \/ (r \in Verifies /\ ~run[r].limited
                                                  /\ run[r].at \in Watched)]]
    /\ UNCHANGED <<runtimeVars, host>>

----------------------------------------------------------------------------
(* #verifyChanged and #dryRunCandidate *)

\* The change set is the one requested; config and manifest load.
collectChangeSet(r) ==
    /\ run[r].at = "collect"
    /\ Becomes(r, IF Aborted(r) \/ src # run[r].want THEN Limited(r)
                  ELSE [run[r] EXCEPT !.at = "hash"])

beforeHash(r) ==
    /\ run[r].at = "hash"
    /\ Becomes(r, IF Aborted(r) THEN Limited(r)
                  ELSE [run[r] EXCEPT !.at = "watch", !.hash = src])

\* The watch is open; the run was aborted, the config differs from the one
\* verifyd started with, or the selection is not complete.
watchSources(r) ==
    /\ run[r].at = "watch"
    /\ Becomes(r, Limited(r))

\* The watch is open and the selected scenarios need the warm runtime.
watchThenEnsure(r) ==
    /\ run[r].at = "watch" /\ ~Aborted(r)
    /\ run' = [run EXCEPT ![r].at = "wait"]
    /\ ensureReady(r)
    /\ UNCHANGED <<src, edits, host>>

Answered(r) == waits[r].on = {} \/ waits[r].bad
StopWaiting(r) ==
    /\ waits' = [waits EXCEPT ![r] = NoWait]
    /\ UNCHANGED <<server, procs, serverJob, browser, browserJob, pin, stopAt,
                   src, edits, host>>

runtimeReady(r) ==
    /\ run[r].at = "wait" /\ ~Aborted(r) /\ Answered(r)
    /\ run' = [run EXCEPT ![r] = IF waits[r].bad \/ ~Warm THEN Limited(r)
                                 ELSE [@ EXCEPT !.at = "execute", !.gens = Gens]]
    /\ StopWaiting(r)

\* raceAbort: the caller stops waiting, the transition goes on.
raceAbort(r) ==
    /\ run[r].at \in {"wait", "rewait"} /\ Aborted(r)
    /\ run' = [run EXCEPT ![r] = Limited(r)]
    /\ StopWaiting(r)

\* A scenario loads a page: it sees what the server serves now.  That a warm
\* server already serves the version on disk is an idealisation: nothing in
\* the code waits for its watcher to have caught up with an edit.
browse(r) ==
    /\ r \in Verifies /\ run[r].at = "execute" /\ server.owned
    /\ browser.owned /\ browser.gen = run[r].gens[2]
    /\ Becomes(r, [run[r] EXCEPT !.ran = @ \cup {<<src, server.gen>>}])

\* The batch ends; a verify run asks for the runtime again, also when it was
\* aborted meanwhile.
finishBatch(r, outcome) ==
    /\ run[r].at = "execute"
    /\ outcome = "passed" => ~Aborted(r) /\ (r \in Verifies => run[r].ran # {})
    /\ IF r \in Verifies
       THEN /\ run' = [run EXCEPT ![r] = [@ EXCEPT !.at = "rewait",
                                                  !.outcome = outcome]]
            /\ ensureReady(r) /\ UNCHANGED <<src, edits, host>>
       ELSE Becomes(r, [NoRun EXCEPT !.at = "done", !.outcome = outcome])

\* The runner throws, or cannot be created.
batchThrows(r) ==
    /\ run[r].at = "execute"
    /\ Becomes(r, Limited(r))

runtimeUnchanged(r) ==
    /\ run[r].at = "rewait" /\ ~Aborted(r) /\ Answered(r)
    /\ run' = [run EXCEPT ![r] = IF waits[r].bad \/ ~Warm \/ Gens # run[r].gens
                                 THEN Limited(r) ELSE [@ EXCEPT !.at = "after"]]
    /\ StopWaiting(r)

\* The result: passed only without staleness, cancellation or limitation.
\* It is made in one step, and no await separates it from closing the watch.
verdict_HashOnly(r, limited) ==
    IF limited \/ run[r].abort = "requested" \/ run[r].outcome # "passed"
    THEN [NoRun EXCEPT !.at = "finalize", !.abort = run[r].abort,
                       !.outcome = "no_confidence"]
    ELSE [run[r] EXCEPT !.at = "finalize"]
verdict(r, limited) ==
    IF limited \/ run[r].dirty \/ run[r].abort = "requested"
         \/ run[r].outcome # "passed"
    THEN [NoRun EXCEPT !.at = "finalize", !.abort = run[r].abort,
           !.outcome = IF limited \/ run[r].dirty \/ run[r].abort = "requested"
                       THEN "no_confidence" ELSE run[r].outcome]
    ELSE [run[r] EXCEPT !.at = "finalize"]

\* Config and manifest are loaded again and the sources hashed again.
afterHash(r) ==
    /\ run[r].at = "after"
    /\ Becomes(r, IF Aborted(r) THEN verdict(r, TRUE)
                  ELSE [run[r] EXCEPT !.at = "recollect",
                                      !.limited = @ \/ src # run[r].hash])

recollect_Unaborted(r) ==
    /\ run[r].at = "recollect"
    /\ Becomes(r, verdict(r, run[r].limited \/ src # run[r].want))
recollect(r) ==
    /\ run[r].at = "recollect"
    /\ Becomes(r, verdict(r, run[r].limited \/ Aborted(r) \/ src # run[r].want))

\* retention.finalize or abandonRun ends; the run leaves activeRuns.
finalize(r) ==
    /\ run[r].at = "finalize"
    /\ Becomes(r, IF run[r].outcome = "passed" THEN [run[r] EXCEPT !.at = "done"]
                  ELSE [NoRun EXCEPT !.at = "done", !.outcome = run[r].outcome])

----------------------------------------------------------------------------
(* VerificationDaemonHost *)

startHost ==
    /\ host = "off" /\ host' = "starting"
    /\ startRuntime(Host)
    /\ UNCHANGED <<src, edits, run>>

hostStarted ==
    /\ host = "starting" /\ waits[Host] = NoWait /\ host' = "up"
    /\ UNCHANGED <<runtimeVars, src, edits, run>>

\* A supervisor did not start, or verifyd was interrupted meanwhile.
startFails ==
    /\ host = "starting" /\ waits[Host].on = {} /\ host' = "runtime"
    /\ stopRuntime
    /\ UNCHANGED <<src, edits, run>>

\* A shutdown request or a signal: every active run is cancelled.
shutdown ==
    /\ host = "up" /\ host' = "drain"
    /\ run' = [r \in Runs |-> IF Active(r) THEN Cancelled(r) ELSE run[r]]
    /\ UNCHANGED <<runtimeVars, src, edits>>

drained ==
    /\ host = "drain" /\ \A r \in Runs : ~Active(r)
    /\ host' = "differential"
    /\ UNCHANGED <<runtimeVars, src, edits, run>>

\* The differential service has stopped and holds no checkout.
stopDifferential ==
    /\ host = "differential" /\ pin = 0 /\ host' = "runtime"
    /\ stopRuntime
    /\ UNCHANGED <<src, edits, run>>

\* The runtime has stopped: the socket closes and the lease is released.  Or
\* it has not: both are kept.
runtimeStopped ==
    /\ host = "runtime" /\ stopAt \in {"done", "failed"}
    /\ host' = IF stopAt = "done" THEN "released" ELSE "failed"
    /\ UNCHANGED <<runtimeVars, src, edits, run>>

\* graceMs pass: stop throws, what it awaited goes on.
graceElapsed ==
    /\ host \in {"drain", "differential", "runtime"} /\ host' = "failed"
    /\ UNCHANGED <<runtimeVars, src, edits, run>>

runStep(r) ==
    \/ reserveRun(r) \/ dryRunRefused(r) \/ dryRunCandidate(r)
    \/ collectChangeSet(r) \/ beforeHash(r)
    \/ watchSources(r) \/ watchThenEnsure(r) \/ runtimeReady(r) \/ raceAbort(r)
    \/ \E o \in {"passed", "regression"} : finishBatch(r, o)
    \/ batchThrows(r) \/ runtimeUnchanged(r) \/ afterHash(r) \/ recollect(r)
    \/ finalize(r)
hostStep ==
    \/ hostStarted \/ startFails \/ drained \/ stopDifferential
    \/ runtimeStopped \/ graceElapsed

DaemonNext ==
    \/ \E r \in Runs :
          submit(r) \/ cancel(r) \/ drop(r) \/ browse(r) \/ runStep(r)
    \/ \E v \in Versions : edit(v)
    \/ startHost \/ shutdown \/ hostStep
    \/ RuntimeStep /\ UNCHANGED daemonVars
    \/ host = "up" /\ checkout /\ UNCHANGED daemonVars
    \/ releaseCheckout /\ UNCHANGED daemonVars

DaemonSpec == DaemonInit /\ [][DaemonNext]_vars

----------------------------------------------------------------------------
(* Properties *)

\* A pass is about the sources that the result names and about one server:
\* every page the scenarios saw was of the hashed version and came from the
\* generation checked out before the run, also when an edit was taken back
\* or another run revived the server meanwhile.
PassedIsFresh ==
    \A r \in Verifies :
        run[r].outcome = "passed" /\ run[r].at \in {"finalize", "done"}
          => run[r].ran = {<<run[r].hash, run[r].gens[1]>>}

\* A run that is aborted before its result is made does not pass, whoever
\* aborted it; only an abort during retention comes too late.
AbortedNeverPasses ==
    [][\A r \in Verifies :
          run'[r].outcome = "passed" /\ run'[r].at = "finalize"
            => ~Aborted(r) \/ run[r].at = "finalize"]_vars

\* Once the host has released the repository, no app server and no Chromium
\* of its own is alive.
NoOrphan == host = "released" => procs = {} /\ ~browser.owned
=============================================================================
