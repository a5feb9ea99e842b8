------------------------ MODULE VerifyDaemonRunProofs ------------------------
(***************************************************************************)
(* What the verdict of a run rests on, for any number of runs, versions,   *)
(* edits and revivals.  A pass names one hash and one generation of the    *)
(* app server.  The pages were seen at the version the sources have as     *)
(* long as the watch is clean, and the second hash compares that version   *)
(* with the first hash; generations only grow, so a run that finds after   *)
(* its pages the generation it started with saw no other.                  *)
(***************************************************************************)
EXTENDS VerifyDaemonProofs

Early == {"off", "reserve", "collect", "hash", "watch", "wait"}

\* A record of a verify run, the version on disk and the generation that
\* serves: what its pages were.
Sound(x, version, gen) ==
    /\ x.at \in Early => x.ran = {} /\ x.outcome = "none"
    /\ x.at \in {"execute", "rewait"}
         => x.gens[1] <= gen /\ \A p \in x.ran : x.gens[1] <= p[2] /\ p[2] <= gen
    /\ x.at \in {"after", "recollect"} => \A p \in x.ran : p[2] = x.gens[1]
    /\ x.at \in {"execute", "rewait", "after"} /\ ~x.dirty /\ ~x.limited
         => \A p \in x.ran : p[1] = version
    /\ x.at = "recollect" /\ ~x.dirty /\ ~x.limited
         => \A p \in x.ran : p[1] = x.hash
    /\ x.at \in {"rewait", "after", "recollect"} /\ x.outcome = "passed"
         => x.ran # {}
    /\ x.at \in {"finalize", "done"} /\ x.outcome = "passed"
         => x.ran = {<<x.hash, x.gens[1]>>}

RunsOK ==
    /\ run \in [Runs -> Run]
    /\ src \in Versions
    /\ \A r \in Verifies : Sound(run[r], src, server.gen)

RunsInvariant == RuntimeInvariant /\ RunsOK

\* x can be the next record of run r.
Keeps(r, x) ==
    x \in Run /\ (r \in Verifies => Sound(x, src, server.gen))

----------------------------------------------------------------------------
\* Generations are counted from 0, and the first is never running.
LEMMA GenerationNumbers ==
    Generations \subseteq Nat /\ 0 \in Generations
  BY RuntimeAssumption DEF Generations

\* The counters of the supervisors are generations: recoveries are bounded.
LEMMA GenerationsInRange ==
    ASSUME RuntimeInvariant
    PROVE  server.gen \in Generations /\ browser.gen \in Generations
<1>1. MaxRecovery \in {0, 1}
  BY RuntimeAssumption
<1>2. /\ server.gen \in Nat /\ server.attempts \in 0 .. MaxRecovery
      /\ server.gen <= 1 + server.attempts
      /\ browser.gen \in Nat /\ browser.attempts \in 0 .. MaxRecovery
      /\ browser.gen <= 1 + browser.attempts
  BY DEF RuntimeInvariant, ServerInvariant, BrowserInvariant, SupervisorRow
<1> QED BY <1>1, <1>2 DEF Generations

\* The record that runs start from, and fall back to without a result.
LEMMA NoRunRow == NoRun \in Run
  BY DaemonAssumption, GenerationNumbers DEF NoRun, Run, Steps, Outcomes

\* A run that saw no page is sound unless it claims a pass.
LEMMA EmptySound ==
    ASSUME NEW x \in Run, NEW version, NEW gen \in Nat,
           x.ran = {}, x.outcome # "passed", x.at \notin {"execute", "rewait"},
           x.at \in Early => x.outcome = "none"
    PROVE  Sound(x, version, gen)
  BY DEF Sound

\* Limited sends a verify run to the checks after the run, and ends a dry run.
LEMMA LimitedKeeps ==
    ASSUME RunsInvariant, NEW r \in Runs
    PROVE  Keeps(r, Limited(r))
<1>1. run[r] \in Run /\ run[r].abort \in {"no", "dropped", "requested"}
  BY DEF RunsInvariant, RunsOK, Run
<1>2. Limited(r) \in Run
  BY <1>1, NoRunRow DEF Limited, Run, Steps, Outcomes
<1>3. Limited(r).at \in {"after", "done"} /\ Limited(r).ran = {}
        /\ Limited(r).outcome \in {"none", "no_confidence"}
  BY DEF Limited, NoRun
<1>4. server.gen \in Nat
  BY DEF RunsInvariant, RuntimeInvariant, ServerInvariant, SupervisorRow
<1> HIDE DEF Limited
<1> QED BY <1>2, <1>3, <1>4, EmptySound DEF Keeps, Early

\* A generation may grow under a run.
LEMMA SoundLater ==
    ASSUME NEW x \in Run, NEW version, NEW gen \in Nat, NEW later \in Nat,
           gen <= later, Sound(x, version, gen)
    PROVE  Sound(x, version, later)
<1>1. x.gens[1] \in Nat /\ \A p \in x.ran : p[2] \in Nat
  BY GenerationNumbers DEF Run
<1> QED BY <1>1 DEF Sound

\* Only a launch changes the generation of the app server.
LEMMA GenerationsGrow ==
    ASSUME RuntimeInvariant, [DaemonNext]_vars
    PROVE  server.gen \in Nat /\ server'.gen \in Nat /\ server.gen <= server'.gen
<1>1. server \in SupervisorRow /\ server' \in SupervisorRow
  BY StepInvariant DEF RuntimeInvariant, ServerInvariant
<1>2. server.gen \in Nat /\ server'.gen \in Nat
  BY <1>1 DEF SupervisorRow
<1>3. server'.gen = server.gen \/ server'.gen = server.gen + 1
  <2>1. ASSUME NEW r \in Runs,
               submit(r) \/ cancel(r) \/ drop(r) \/ browse(r) \/ runStep(r)
        PROVE  server'.gen = server.gen
    <3>1. CASE Quiet
      BY <3>1 DEF Quiet
    <3>2. CASE ensureReady(r)
      <4>1. server' = ensureServer.sup
        BY <3>2 DEF ensureReady
      <4> QED BY <1>1, <4>1 DEF ensureServer, recover, SupervisorRow
    <3> QED BY <2>1, <3>1, <3>2, RunSteps
  <2>2. CASE RuntimeStep
    <3>1. CASE launchServer
      BY <1>1, <3>1 DEF launchServer, SupervisorRow
    <3>2. CASE probeReadiness
      BY <1>1, <3>2 DEF probeReadiness, recover, SupervisorRow
    <3>3. CASE launchRefused \/ serverSettled \/ serverNotReady \/ transitionStopTimeout
      BY <1>1, <3>3 DEF launchRefused, serverSettled, serverNotReady,
           transitionStopTimeout, Failed, SupervisorRow
    <3>4. CASE \E g \in Generations : serverExits(g)
      <4>1. \E state : server' = [server EXCEPT !.owned = FALSE, !.state = state]
        BY <1>1, <3>4 DEF serverExits, Failed, SupervisorRow
      <4> QED BY <1>1, <4>1 DEF SupervisorRow
    <3>5. CASE browserClosed \/ browserCloseFails \/ runtimeStopTimeout
      BY <1>1, <3>5 DEF browserClosed, browserCloseFails, runtimeStopTimeout,
           StopServer, SupervisorRow
    <3>6. CASE launchBrowser \/ launchBrowserFails \/ browserDisconnected
      BY <3>6 DEF launchBrowser, launchBrowserFails, browserDisconnected
    <3> QED BY <2>2, <3>1, <3>2, <3>3, <3>4, <3>5, <3>6 DEF RuntimeStep
  <2>3. CASE startHost \/ shutdown \/ hostStep
    BY <1>1, <2>3 DEF startHost, startRuntime, shutdown, hostStep, hostStarted,
         startFails, drained, stopDifferential, runtimeStopped, graceElapsed,
         stopRuntime, StopServer, runtimeVars, SupervisorRow
  <2>4. CASE \E v \in Versions : edit(v)
    BY <2>4 DEF edit, runtimeVars
  <2>5. CASE checkout \/ releaseCheckout \/ UNCHANGED vars
    BY <2>5 DEF checkout, releaseCheckout, vars, runtimeVars
  <2> QED BY <2>1, <2>2, <2>3, <2>4, <2>5 DEF DaemonNext
<1> QED BY <1>2, <1>3

----------------------------------------------------------------------------
(* The steps of a run *)

\* What a step of run r does to the runs: r gets a sound record.
Advances(r) ==
    /\ src' = src
    /\ \E x : run' = [run EXCEPT ![r] = x] /\ Keeps(r, x)

\* What the invariant says of one run and of the counters it is compared with.
LEMMA RunFacts ==
    ASSUME RunsInvariant, NEW r \in Runs
    PROVE  /\ run[r] \in Run /\ src \in Versions
           /\ run[r].ran \in SUBSET (Versions \X Generations)
           /\ server.gen \in Nat /\ browser.gen \in Nat
           /\ server.gen \in Generations /\ browser.gen \in Generations
           /\ r \in Verifies => Sound(run[r], src, server.gen)
<1>1. run[r] \in Run /\ src \in Versions
        /\ (r \in Verifies => Sound(run[r], src, server.gen))
  BY DEF RunsInvariant, RunsOK
<1>2. server.gen \in Nat /\ browser.gen \in Nat
  BY DEF RunsInvariant, RuntimeInvariant, ServerInvariant, BrowserInvariant,
       SupervisorRow
<1>3. server.gen \in Generations /\ browser.gen \in Generations
  BY GenerationsInRange DEF RunsInvariant
<1> QED BY <1>1, <1>2, <1>3 DEF Run

\* Before the warm runtime is ready a run has seen nothing.
LEMMA EarlySteps ==
    ASSUME RunsInvariant, NEW r \in Runs,
           submit(r) \/ reserveRun(r) \/ dryRunCandidate(r) \/ collectChangeSet(r)
             \/ beforeHash(r) \/ watchSources(r) \/ dryRunRefused(r) \/ watchThenEnsure(r)
    PROVE  Advances(r)
<1> DEFINE old == run[r]
<1>1. /\ old \in Run /\ src \in Versions /\ server.gen \in Nat
      /\ r \in Verifies => Sound(old, src, server.gen)
  BY RunFacts
<1>2. ASSUME NEW at \in Early, NEW want \in Versions, NEW hash \in Versions,
             old.at \in Early
      PROVE  Keeps(r, [old EXCEPT !.at = at, !.want = want, !.hash = hash])
  <2> DEFINE x == [old EXCEPT !.at = at, !.want = want, !.hash = hash]
  <2>1. x \in Run /\ x.at = at /\ x.ran = old.ran /\ x.outcome = old.outcome
    BY <1>1, <1>2 DEF Run, Early, Steps
  <2> HIDE DEF x
  <2>2. r \in Verifies => x.ran = {} /\ x.outcome = "none"
    BY <1>1, <1>2, <2>1 DEF Sound
  <2>3. r \in Verifies => Sound(x, src, server.gen)
    BY <1>1, <1>2, <2>1, <2>2, EmptySound DEF Early
  <2> QED BY <2>1, <2>3 DEF Keeps, x
<1>3. Keeps(r, Limited(r))
  BY LimitedKeeps
<1>4. ASSUME NEW x, Becomes(r, x), Keeps(r, x)
      PROVE  Advances(r)
  BY <1>4 DEF Becomes, Advances
<1>5. old.want \in Versions /\ old.hash \in Versions
  BY <1>1 DEF Run
<1>6. ASSUME NEW at \in Early, old.at \in Early
      PROVE  Keeps(r, [old EXCEPT !.at = at])
  <2>1. [old EXCEPT !.at = at]
          = [old EXCEPT !.at = at, !.want = old.want, !.hash = old.hash]
    BY <1>1 DEF Run
  <2> QED BY <1>2, <1>5, <1>6, <2>1
<1>7. CASE submit(r)
  <2> DEFINE want == IF r \in Verifies THEN src ELSE old.want
  <2>1. old.at \in Early /\ want \in Versions
    BY <1>1, <1>5, <1>7 DEF submit, Early
  <2>2. Becomes(r, [old EXCEPT !.at = "reserve", !.want = want])
    BY <1>7 DEF submit
  <2>3. [old EXCEPT !.at = "reserve", !.want = want]
          = [old EXCEPT !.at = "reserve", !.want = want, !.hash = old.hash]
    BY <1>1 DEF Run
  <2> HIDE DEF want
  <2>4. Keeps(r, [old EXCEPT !.at = "reserve", !.want = want])
    BY <1>2, <1>5, <2>1, <2>3 DEF Early
  <2> QED BY <1>4, <2>2, <2>4
<1>8. CASE reserveRun(r)
  <2> DEFINE refused == [NoRun EXCEPT !.at = "done", !.outcome = "error"]
  <2>1. refused \in Run /\ refused.at = "done" /\ refused.ran = {}
          /\ refused.outcome = "error"
    BY NoRunRow DEF Run, NoRun, Steps, Outcomes
  <2>2. Keeps(r, refused)
    BY <1>1, <2>1, EmptySound DEF Keeps, Early
  <2>3. Keeps(r, [old EXCEPT !.at = "collect"])
    BY <1>6, <1>8 DEF reserveRun, Early
  <2>4. Becomes(r, [old EXCEPT !.at = "collect"]) \/ Becomes(r, refused)
    BY <1>8 DEF reserveRun
  <2> QED BY <1>4, <2>2, <2>3, <2>4
<1>9. CASE dryRunCandidate(r) \/ watchThenEnsure(r)
  <2>1. old.at \in Early
    BY <1>9 DEF dryRunCandidate, watchThenEnsure, Early
  <2>2. Keeps(r, [old EXCEPT !.at = "wait"])
    BY <1>6, <2>1 DEF Early
  <2>3. run' = [run EXCEPT ![r] = [old EXCEPT !.at = "wait"]] /\ src' = src
    BY <1>9 DEF dryRunCandidate, watchThenEnsure
  <2> QED BY <2>2, <2>3 DEF Advances
<1>10. CASE collectChangeSet(r)
  <2>1. Keeps(r, [old EXCEPT !.at = "hash"])
    BY <1>6, <1>10 DEF collectChangeSet, Early
  <2>2. Becomes(r, Limited(r)) \/ Becomes(r, [old EXCEPT !.at = "hash"])
    BY <1>10 DEF collectChangeSet
  <2> QED BY <1>3, <1>4, <2>1, <2>2
<1>11. CASE beforeHash(r)
  <2>1. [old EXCEPT !.at = "watch", !.hash = src]
          = [old EXCEPT !.at = "watch", !.want = old.want, !.hash = src]
    BY <1>1 DEF Run
  <2>2. Keeps(r, [old EXCEPT !.at = "watch", !.hash = src])
    BY <1>1, <1>2, <1>5, <1>11, <2>1 DEF beforeHash, Early
  <2>3. Becomes(r, Limited(r))
          \/ Becomes(r, [old EXCEPT !.at = "watch", !.hash = src])
    BY <1>11 DEF beforeHash
  <2> QED BY <1>3, <1>4, <2>2, <2>3
<1>12. CASE watchSources(r) \/ dryRunRefused(r)
  BY <1>3, <1>4, <1>12 DEF watchSources, dryRunRefused
<1> QED BY <1>7, <1>8, <1>9, <1>10, <1>11, <1>12

\* While its pages are seen, and until the runtime is found unchanged.
LEMMA BatchSteps ==
    ASSUME RunsInvariant, NEW r \in Runs,
           runtimeReady(r) \/ raceAbort(r) \/ browse(r) \/ batchThrows(r)
             \/ (\E o \in {"passed", "regression"} : finishBatch(r, o))
             \/ runtimeUnchanged(r)
    PROVE  Advances(r)
<1> DEFINE old == run[r]
<1>1. /\ old \in Run /\ src \in Versions
      /\ old.ran \in SUBSET (Versions \X Generations)
      /\ server.gen \in Nat /\ browser.gen \in Nat
      /\ server.gen \in Generations /\ browser.gen \in Generations
      /\ r \in Verifies => Sound(old, src, server.gen)
  BY RunFacts
<1>2. Keeps(r, Limited(r))
  BY LimitedKeeps
<1>3. ASSUME NEW x, Becomes(r, x), Keeps(r, x)
      PROVE  Advances(r)
  BY <1>3 DEF Becomes, Advances
<1>4. CASE runtimeReady(r)
  <2> DEFINE x == [old EXCEPT !.at = "execute", !.gens = Gens]
  <2>1. x \in Run /\ x.at = "execute" /\ x.ran = old.ran
          /\ x.gens[1] = server.gen
    BY <1>1 DEF Run, Steps, Gens
  <2>2. r \in Verifies => x.ran = {}
    BY <1>1, <1>4, <2>1 DEF runtimeReady, Sound, Early
  <2>3. src' = src /\ \/ run' = [run EXCEPT ![r] = x]
                       \/ run' = [run EXCEPT ![r] = Limited(r)]
    BY <1>4 DEF runtimeReady, StopWaiting
  <2> HIDE DEF x
  <2>4. r \in Verifies => Sound(x, src, server.gen)
    BY <1>1, <2>1, <2>2 DEF Sound, Early
  <2> QED BY <1>2, <2>1, <2>3, <2>4 DEF Keeps, Advances
<1>5. CASE raceAbort(r)
  BY <1>2, <1>5 DEF raceAbort, StopWaiting, Advances
<1>6. CASE browse(r)
  <2> DEFINE page == <<src, server.gen>>
             x == [old EXCEPT !.ran = @ \cup {page}]
  <2>1. page \in Versions \X Generations /\ page[1] = src /\ page[2] = server.gen
    BY <1>1
  <2>2. old.ran \cup {page} \in SUBSET (Versions \X Generations)
    BY <1>1, <2>1
  <2>3. x \in Run /\ x.at = old.at /\ x.ran = old.ran \cup {page}
          /\ x.gens = old.gens /\ x.dirty = old.dirty /\ x.limited = old.limited
    BY <1>1, <2>2 DEF Run
  <2>4. Becomes(r, x) /\ old.at = "execute" /\ r \in Verifies
    BY <1>6 DEF browse
  <2> HIDE DEF x, page
  <2>5. old.gens[1] <= server.gen
          /\ (\A p \in old.ran : old.gens[1] <= p[2] /\ p[2] <= server.gen)
          /\ (~old.dirty /\ ~old.limited => \A p \in old.ran : p[1] = src)
    BY <1>1, <2>4 DEF Sound
  <2>6. Sound(x, src, server.gen)
    BY <1>1, <2>1, <2>3, <2>4, <2>5 DEF Sound, Early
  <2> QED BY <1>3, <2>3, <2>4, <2>6 DEF Keeps
<1>7. CASE batchThrows(r)
  BY <1>2, <1>3, <1>7 DEF batchThrows
<1>8. CASE \E o \in {"passed", "regression"} : finishBatch(r, o)
  <2> PICK o \in {"passed", "regression"} : finishBatch(r, o)
    BY <1>8
  <2> DEFINE x == [old EXCEPT !.at = "rewait", !.outcome = o]
             over == [NoRun EXCEPT !.at = "done", !.outcome = o]
  <2>1. x \in Run /\ x.at = "rewait" /\ x.outcome = o /\ x.ran = old.ran
          /\ x.gens = old.gens /\ x.dirty = old.dirty /\ x.limited = old.limited
    BY <1>1 DEF Run, Steps, Outcomes
  <2>2. over \in Run
    BY NoRunRow DEF Run, Steps, Outcomes
  <2>3. old.at = "execute" /\ (o = "passed" /\ r \in Verifies => old.ran # {})
    BY DEF finishBatch
  <2>4. /\ src' = src
        /\ run' = [run EXCEPT ![r] = IF r \in Verifies THEN x ELSE over]
    BY DEF finishBatch, Becomes
  <2> HIDE DEF x, over
  <2>5. r \in Verifies => Sound(x, src, server.gen)
    BY <1>1, <2>1, <2>3 DEF Sound, Early
  <2>6. Keeps(r, IF r \in Verifies THEN x ELSE over)
    BY <2>1, <2>2, <2>5 DEF Keeps
  <2> QED BY <2>4, <2>6 DEF Advances
<1>9. CASE runtimeUnchanged(r)
  <2> DEFINE x == [old EXCEPT !.at = "after"]
  <2>1. x \in Run /\ x.at = "after" /\ x.outcome = old.outcome
          /\ x.ran = old.ran /\ x.gens = old.gens /\ x.dirty = old.dirty
          /\ x.limited = old.limited
    BY <1>1 DEF Run, Steps
  <2>2. /\ src' = src /\ old.at = "rewait"
        /\ \/ run' = [run EXCEPT ![r] = Limited(r)]
           \/ run' = [run EXCEPT ![r] = x] /\ old.gens[1] = server.gen
    <3>1. src' = src /\ old.at = "rewait"
      BY <1>9 DEF runtimeUnchanged, StopWaiting
    <3>2. CASE waits[r].bad \/ ~Warm \/ Gens # old.gens
      BY <1>9, <3>1, <3>2 DEF runtimeUnchanged
    <3>3. CASE ~(waits[r].bad \/ ~Warm \/ Gens # old.gens)
      <4>1. run' = [run EXCEPT ![r] = x]
        BY <1>9, <3>3 DEF runtimeUnchanged
      <4>2. old.gens[1] = server.gen
        BY <3>3 DEF Gens
      <4> QED BY <3>1, <4>1, <4>2
    <3> QED BY <3>2, <3>3
  <2>3. \A p \in old.ran : p[2] \in Nat
    BY <1>1, GenerationNumbers
  <2> HIDE DEF x
  <2>4. r \in Verifies /\ old.gens[1] = server.gen => Sound(x, src, server.gen)
    BY <1>1, <2>1, <2>2, <2>3 DEF Sound, Early
  <2> QED BY <1>2, <2>1, <2>2, <2>4 DEF Keeps, Advances
<1> QED BY <1>4, <1>5, <1>6, <1>7, <1>8, <1>9

\* The checks after the run, the verdict and the end.  A pass follows from a
\* clean watch, an unchanged hash and the pages seen.
LEMMA LastSteps ==
    ASSUME RunsInvariant, NEW r \in Runs,
           afterHash(r) \/ recollect(r) \/ finalize(r)
    PROVE  Advances(r)
<1> DEFINE old == run[r]
<1>1. /\ old \in Run /\ src \in Versions
      /\ old.ran \in SUBSET (Versions \X Generations)
      /\ server.gen \in Nat
      /\ r \in Verifies => Sound(old, src, server.gen)
  BY RunFacts
<1>2. ASSUME NEW x, Becomes(r, x), Keeps(r, x)
      PROVE  Advances(r)
  BY <1>2 DEF Becomes, Advances
<1>3. ASSUME NEW at \in {"finalize", "done"}, NEW abort \in {"no", "dropped", "requested"},
             NEW outcome \in Outcomes \ {"passed"}
      PROVE  Keeps(r, [NoRun EXCEPT !.at = at, !.abort = abort, !.outcome = outcome])
  <2> DEFINE x == [NoRun EXCEPT !.at = at, !.abort = abort, !.outcome = outcome]
  <2>1. x \in Run
    BY NoRunRow DEF Run, Steps
  <2>2. x.at = at /\ x.ran = {} /\ x.outcome = outcome
    BY DEF NoRun
  <2> HIDE DEF x
  <2>3. Sound(x, src, server.gen)
    BY <1>1, <2>1, <2>2, EmptySound DEF Early
  <2> QED BY <2>1, <2>3 DEF Keeps, x
<1>4. old.abort \in {"no", "dropped", "requested"} /\ old.outcome \in Outcomes
        /\ old.limited \in BOOLEAN /\ old.dirty \in BOOLEAN
  BY <1>1 DEF Run
<1>5. ASSUME NEW limited \in BOOLEAN,
             ~limited /\ ~old.dirty /\ old.outcome = "passed" /\ r \in Verifies
               => old.at = "recollect" /\ ~old.limited
      PROVE  Keeps(r, verdict(r, limited))
  <2>1. CASE limited \/ old.dirty \/ old.abort = "requested" \/ old.outcome # "passed"
    <3> DEFINE outcome == IF limited \/ old.dirty \/ old.abort = "requested"
                          THEN "no_confidence" ELSE old.outcome
    <3>1. outcome \in Outcomes \ {"passed"}
      BY <1>4, <2>1 DEF Outcomes
    <3>2. verdict(r, limited)
            = [NoRun EXCEPT !.at = "finalize", !.abort = old.abort, !.outcome = outcome]
      BY <2>1 DEF verdict
    <3> HIDE DEF outcome
    <3>3. Keeps(r, [NoRun EXCEPT !.at = "finalize", !.abort = old.abort,
                                 !.outcome = outcome])
      BY <1>3, <1>4, <3>1
    <3> QED BY <3>2, <3>3
  <2>2. CASE ~(limited \/ old.dirty \/ old.abort = "requested" \/ old.outcome # "passed")
    <3> DEFINE x == [old EXCEPT !.at = "finalize"]
    <3>1. x \in Run /\ x.at = "finalize" /\ x.ran = old.ran
            /\ x.hash = old.hash /\ x.gens = old.gens
      BY <1>1 DEF Run, Steps
    <3>2. verdict(r, limited) = x
      BY <2>2 DEF verdict
    <3> HIDE DEF x
    <3>3. ASSUME r \in Verifies
          PROVE  old.ran # {} /\ \A p \in old.ran : p[1] = old.hash /\ p[2] = old.gens[1]
      BY <1>1, <1>5, <2>2, <3>3 DEF Sound
    <3>4. \A p \in old.ran : p = <<p[1], p[2]>>
      BY <1>1
    <3>5. r \in Verifies => x.ran = {<<x.hash, x.gens[1]>>}
      BY <3>1, <3>3, <3>4
    <3>6. r \in Verifies => Sound(x, src, server.gen)
      BY <3>1, <3>5 DEF Sound, Early
    <3> QED BY <3>1, <3>2, <3>6 DEF Keeps
  <2> QED BY <2>1, <2>2
<1>6. CASE afterHash(r)
  <2> DEFINE hidden == old.limited \/ src # old.hash
             x == [old EXCEPT !.at = "recollect", !.limited = hidden]
  <2>1. hidden \in BOOLEAN
    BY <1>4
  <2>2. Becomes(r, verdict(r, TRUE)) \/ Becomes(r, x)
    BY <1>6 DEF afterHash
  <2>3. old.at = "after" /\ (~hidden => ~old.limited /\ src = old.hash)
    BY <1>6 DEF afterHash
  <2> HIDE DEF hidden
  <2>4. x \in Run /\ x.at = "recollect" /\ x.ran = old.ran /\ x.gens = old.gens
          /\ x.hash = old.hash /\ x.dirty = old.dirty /\ x.limited = hidden
          /\ x.outcome = old.outcome
    BY <1>1, <2>1 DEF Run, Steps
  <2> HIDE DEF x
  <2>5. r \in Verifies => Sound(x, src, server.gen)
    BY <1>1, <2>3, <2>4 DEF Sound, Early
  <2> QED BY <1>2, <1>5, <2>2, <2>4, <2>5 DEF Keeps
<1>7. CASE recollect(r)
  <2> DEFINE limited == old.limited \/ Aborted(r) \/ src # old.want
  <2>1. limited \in BOOLEAN /\ (~limited => ~old.limited)
    BY <1>4 DEF Aborted
  <2>2. old.at = "recollect" /\ Becomes(r, verdict(r, limited))
    BY <1>7 DEF recollect
  <2> HIDE DEF limited
  <2> QED BY <1>2, <1>5, <2>1, <2>2
<1>8. CASE finalize(r)
  <2> DEFINE x == [old EXCEPT !.at = "done"]
  <2>1. x \in Run /\ x.at = "done" /\ x.ran = old.ran /\ x.outcome = old.outcome
          /\ x.hash = old.hash /\ x.gens = old.gens
    BY <1>1 DEF Run, Steps
  <2>2. old.at = "finalize"
    BY <1>8 DEF finalize
  <2>3. CASE old.outcome = "passed"
    <3>1. Becomes(r, x)
      BY <1>8, <2>3 DEF finalize
    <3> HIDE DEF x
    <3>2. r \in Verifies => Sound(x, src, server.gen)
      BY <1>1, <2>1, <2>2 DEF Sound, Early
    <3> QED BY <1>2, <2>1, <3>1, <3>2 DEF Keeps
  <2>4. CASE old.outcome # "passed"
    <3> DEFINE y == [NoRun EXCEPT !.at = "done", !.outcome = old.outcome]
    <3>1. Becomes(r, y)
      BY <1>8, <2>4 DEF finalize
    <3>2. y = [NoRun EXCEPT !.at = "done", !.abort = "no", !.outcome = old.outcome]
      <4>1. NoRun.abort = "no"
        BY DEF NoRun
      <4> QED BY <4>1, NoRunRow DEF Run
    <3>3. Keeps(r, [NoRun EXCEPT !.at = "done", !.abort = "no",
                                 !.outcome = old.outcome])
      BY <1>3, <1>4, <2>4
    <3> HIDE DEF y
    <3> QED BY <1>2, <3>1, <3>2, <3>3
  <2> QED BY <2>3, <2>4
<1> QED BY <1>6, <1>7, <1>8

\* A cancellation is only recorded.
LEMMA AbortKeeps ==
    ASSUME RunsInvariant, NEW r \in Runs, NEW abort \in {"dropped", "requested"}
    PROVE  Keeps(r, [run[r] EXCEPT !.abort = abort])
<1> DEFINE old == run[r]
           x == [old EXCEPT !.abort = abort]
<1>1. /\ old \in Run /\ src \in Versions /\ server.gen \in Nat
      /\ r \in Verifies => Sound(old, src, server.gen)
  BY RunFacts
<1>2. x \in Run /\ x.at = old.at /\ x.ran = old.ran /\ x.gens = old.gens
        /\ x.hash = old.hash /\ x.dirty = old.dirty /\ x.limited = old.limited
        /\ x.outcome = old.outcome
  BY <1>1 DEF Run
<1> HIDE DEF x
<1>3. r \in Verifies => Sound(x, src, server.gen)
  BY <1>1, <1>2 DEF Sound, Early
<1> QED BY <1>2, <1>3 DEF Keeps, x

\* Every step of a run gives it a sound record.
LEMMA RunAdvances ==
    ASSUME RunsInvariant, NEW r \in Runs,
           submit(r) \/ cancel(r) \/ drop(r) \/ browse(r) \/ runStep(r)
    PROVE  Advances(r)
<1>1. CASE cancel(r) \/ drop(r)
  <2>1. PICK abort \in {"dropped", "requested"} :
          Becomes(r, [run[r] EXCEPT !.abort = abort])
    BY <1>1 DEF cancel, drop, Cancelled
  <2> QED BY <2>1, AbortKeeps DEF Becomes, Advances
<1>2. CASE submit(r) \/ reserveRun(r) \/ dryRunCandidate(r) \/ collectChangeSet(r)
             \/ beforeHash(r) \/ watchSources(r) \/ dryRunRefused(r) \/ watchThenEnsure(r)
  BY <1>2, EarlySteps
<1>3. CASE runtimeReady(r) \/ raceAbort(r) \/ browse(r) \/ batchThrows(r)
             \/ (\E o \in {"passed", "regression"} : finishBatch(r, o))
             \/ runtimeUnchanged(r)
  BY <1>3, BatchSteps
<1>4. CASE afterHash(r) \/ recollect(r) \/ finalize(r)
  BY <1>4, LastSteps
<1> QED BY <1>1, <1>2, <1>3, <1>4 DEF runStep

\* An edit changes the version under every run: those that have seen pages
\* have a watch open, or have given up already.
LEMMA EditKeeps ==
    ASSUME RunsInvariant, NEW v \in Versions, edit(v), NEW r \in Runs
    PROVE  run'[r] \in Run /\ (r \in Verifies => Sound(run'[r], v, server.gen))
<1> DEFINE old == run[r]
           mark == old.dirty \/ (r \in Verifies /\ ~old.limited /\ old.at \in Watched)
           x == [old EXCEPT !.dirty = mark]
<1>1. /\ old \in Run /\ src \in Versions /\ server.gen \in Nat
      /\ r \in Verifies => Sound(old, src, server.gen)
  BY RunFacts
<1>2. run'[r] = x
  BY DEF edit
<1>3. mark \in BOOLEAN
  BY <1>1 DEF Run
<1>4. (r \in Verifies /\ ~mark /\ ~old.limited => old.at \notin Watched)
        /\ (~mark => ~old.dirty)
  OBVIOUS
<1> HIDE DEF mark
<1>5. x \in Run /\ x.at = old.at /\ x.ran = old.ran /\ x.gens = old.gens
        /\ x.hash = old.hash /\ x.dirty = mark /\ x.limited = old.limited
        /\ x.outcome = old.outcome
  BY <1>1, <1>3 DEF Run
<1> HIDE DEF x
<1>6. r \in Verifies => Sound(x, v, server.gen)
  BY <1>1, <1>4, <1>5 DEF Sound, Early, Watched
<1> QED BY <1>2, <1>5, <1>6

----------------------------------------------------------------------------
(* The invariant, and what follows *)

\* No run has started.
LEMMA InitRuns == DaemonInit => RunsInvariant
<1> SUFFICES ASSUME DaemonInit PROVE RunsInvariant
  OBVIOUS
<1>1. run = [r \in Runs |-> NoRun] /\ src = Original
  BY DEF DaemonInit
<1>2. RuntimeInvariant /\ server.gen \in Nat
  BY InitInvariant DEF RuntimeInvariant, ServerInvariant, SupervisorRow
<1>3. \A r \in Verifies : Sound(NoRun, src, server.gen)
  <2>1. NoRun.at = "off" /\ NoRun.ran = {} /\ NoRun.outcome = "none"
    BY DEF NoRun
  <2> QED BY <1>2, <2>1, NoRunRow, EmptySound DEF Early
<1>4. RunsOK
  BY <1>1, <1>3, NoRunRow, DaemonAssumption DEF RunsOK, Runs
<1> QED BY <1>2, <1>4 DEF RunsInvariant

\* Every step of the daemon keeps the records sound.
LEMMA StepRuns ==
    ASSUME RunsInvariant, [DaemonNext]_vars
    PROVE  RunsInvariant'
<1>1. RuntimeInvariant' /\ server.gen \in Nat /\ server'.gen \in Nat
        /\ server.gen <= server'.gen
  BY StepInvariant, GenerationsGrow DEF RunsInvariant
<1>2. run \in [Runs -> Run] /\ src \in Versions
        /\ \A r \in Verifies : r \in Runs /\ Sound(run[r], src, server.gen)
  BY DEF RunsInvariant, RunsOK, Runs
<1>3. SUFFICES /\ run' \in [Runs -> Run] /\ src' \in Versions
               /\ \A r \in Verifies : Sound(run'[r], src', server.gen)
  <2>1. \A r \in Verifies : r \in Runs
    BY DEF Runs
  <2>2. ASSUME run' \in [Runs -> Run],
               NEW r \in Verifies, Sound(run'[r], src', server.gen)
        PROVE  Sound(run'[r], src', server'.gen)
    <3>1. run'[r] \in Run
      BY <2>1, <2>2
    <3> DEFINE x == run'[r]
               version == src'
               later == server'.gen
               gen == server.gen
    <3>2. x \in Run /\ Sound(x, version, gen) /\ gen \in Nat /\ later \in Nat
            /\ gen <= later
      BY <1>1, <2>2, <3>1
    <3> HIDE DEF x, version, later, gen
    <3>3. Sound(x, version, later)
      BY <3>2, SoundLater
    <3> QED BY <3>3 DEF x, version, later
  <2> QED BY <1>1, <2>2 DEF RunsInvariant, RunsOK
<1>4. CASE \E r \in Runs :
             submit(r) \/ cancel(r) \/ drop(r) \/ browse(r) \/ runStep(r)
  <2>1. PICK r \in Runs : Advances(r)
    BY <1>4, RunAdvances
  <2>2. PICK x : src' = src /\ run' = [run EXCEPT ![r] = x] /\ Keeps(r, x)
    BY <2>1 DEF Advances
  <2> QED BY <1>2, <2>2 DEF Keeps
<1>5. CASE \E v \in Versions : edit(v)
  <2>1. PICK v \in Versions : edit(v)
    BY <1>5
  <2>2. src' = v /\ DOMAIN run' = Runs /\ run' = [r \in Runs |-> run'[r]]
    BY <2>1 DEF edit
  <2>3. \A r \in Runs : run'[r] \in Run
                          /\ (r \in Verifies => Sound(run'[r], v, server.gen))
    BY <2>1, EditKeeps
  <2> QED BY <1>2, <2>2, <2>3
<1>6. CASE shutdown
  <2>1. src' = src /\ run' = [r \in Runs |-> IF Active(r) THEN Cancelled(r) ELSE run[r]]
    BY <1>6 DEF shutdown
  <2>2. \A r \in Runs : Keeps(r, Cancelled(r)) /\ Keeps(r, run[r])
    <3> TAKE r \in Runs
    <3>1. Keeps(r, Cancelled(r))
      BY AbortKeeps DEF Cancelled
    <3>2. Keeps(r, run[r])
      BY RunFacts DEF Keeps
    <3> QED BY <3>1, <3>2
  <2>3. \A r \in Runs : Keeps(r, run'[r])
    BY <2>1, <2>2
  <2> HIDE DEF Keeps
  <2>4. run' \in [Runs -> Run]
    BY <2>1, <2>3 DEF Keeps
  <2> QED BY <1>2, <2>1, <2>3, <2>4 DEF Keeps
<1>7. CASE UNCHANGED <<run, src>>
  BY <1>2, <1>7
<1>8. UNCHANGED <<run, src>>
        \/ shutdown \/ (\E v \in Versions : edit(v))
        \/ \E r \in Runs :
              submit(r) \/ cancel(r) \/ drop(r) \/ browse(r) \/ runStep(r)
  <2>1. CASE startHost \/ hostStep
    BY <2>1 DEF startHost, hostStep, hostStarted, startFails, drained,
         stopDifferential, runtimeStopped, graceElapsed
  <2>2. CASE UNCHANGED daemonVars
    BY <2>2 DEF daemonVars
  <2>3. CASE UNCHANGED vars
    BY <2>3 DEF vars, daemonVars
  <2> QED BY <2>1, <2>2, <2>3 DEF DaemonNext
<1> QED BY <1>4, <1>5, <1>6, <1>7, <1>8

\* In every behaviour of verifyd the record of each verify run tells the
\* truth about the pages that its scenarios saw.
THEOREM RunsCorrect == DaemonSpec => []RunsInvariant
<1> QED BY InitRuns, StepRuns, PTL DEF DaemonSpec

\* However many edits, other runs and recoveries of the app server overlap a
\* run, a result it reports as passed is about the one version it hashed and
\* the one generation it checked out.
THEOREM PassedIsFreshCorrect == DaemonSpec => []PassedIsFresh
<1>1. RunsInvariant => PassedIsFresh
  BY DEF RunsInvariant, RunsOK, Sound, PassedIsFresh
<1> QED BY <1>1, RunsCorrect, PTL

----------------------------------------------------------------------------
(* Aborts *)

\* A verify run gets a passing result only while nobody has aborted it.
LEMMA VerdictStep ==
    ASSUME RunsInvariant, NEW r \in Verifies, NEW q \in Runs,
           submit(q) \/ cancel(q) \/ drop(q) \/ browse(q) \/ runStep(q),
           run'[r].outcome = "passed", run'[r].at = "finalize", Aborted(r)
    PROVE  run[r].at = "finalize"
<1>1. r \in Runs /\ run \in [Runs -> Run]
  BY DEF Runs, RunsInvariant, RunsOK
<1>2. run[r] \in Run /\ NoRun \in Run
  BY <1>1, NoRunRow
<1> DEFINE old == run[r]
<1>3. CASE q # r
  <2>1. PICK x : run' = [run EXCEPT ![q] = x]
    BY RunAdvances DEF Advances
  <2> QED BY <1>1, <1>3, <2>1
<1>4. CASE q = r
  <2>1. PICK x : run' = [run EXCEPT ![r] = x]
    BY <1>4, RunAdvances DEF Advances
  <2>2. run'[r] = x
    BY <1>1, <2>1
  <2>3. Limited(r).at # "finalize"
    BY <1>2 DEF Limited, NoRun, Run
  <2>4. CASE cancel(r) \/ drop(r) \/ browse(r)
    <3>1. run'[r].at = run[r].at
      BY <1>1, <1>2, <2>4 DEF cancel, drop, browse, Becomes, Cancelled, Run
    <3> QED BY <3>1
  <2>5. CASE submit(r) \/ reserveRun(r) \/ dryRunCandidate(r) \/ watchThenEnsure(r)
    <3> DEFINE want == IF r \in Verifies THEN src ELSE old.want
               refused == [NoRun EXCEPT !.at = "done", !.outcome = "error"]
    <3>1. \/ run' = [run EXCEPT ![r] = [old EXCEPT !.at = "reserve", !.want = want]]
          \/ run' = [run EXCEPT ![r] = [old EXCEPT !.at = "collect"]]
          \/ run' = [run EXCEPT ![r] = refused]
          \/ run' = [run EXCEPT ![r] = [old EXCEPT !.at = "wait"]]
      BY <2>5 DEF submit, reserveRun, dryRunCandidate, watchThenEnsure, Becomes
    <3> HIDE DEF want
    <3>2. [old EXCEPT !.at = "reserve", !.want = want].at = "reserve"
            /\ [old EXCEPT !.at = "collect"].at = "collect"
            /\ refused.at = "done" /\ [old EXCEPT !.at = "wait"].at = "wait"
      BY <1>2 DEF Run
    <3> HIDE DEF refused
    <3> QED BY <1>1, <3>1, <3>2
  <2>6. CASE collectChangeSet(r) \/ beforeHash(r) \/ watchSources(r) \/ dryRunRefused(r) \/ batchThrows(r)
               \/ raceAbort(r)
    <3>1. \/ run' = [run EXCEPT ![r] = Limited(r)]
          \/ run' = [run EXCEPT ![r] = [old EXCEPT !.at = "hash"]]
          \/ run' = [run EXCEPT ![r] = [old EXCEPT !.at = "watch", !.hash = src]]
      BY <2>6 DEF collectChangeSet, beforeHash, watchSources, dryRunRefused, batchThrows,
           raceAbort, Becomes
    <3>2. [old EXCEPT !.at = "hash"].at = "hash"
            /\ [old EXCEPT !.at = "watch", !.hash = src].at = "watch"
      BY <1>2 DEF Run
    <3> QED BY <1>1, <2>3, <3>1, <3>2
  <2>7. CASE runtimeReady(r) \/ runtimeUnchanged(r)
    BY <2>7 DEF runtimeReady, runtimeUnchanged
  <2>8. CASE \E o \in {"passed", "regression"} : finishBatch(r, o)
    <3>1. PICK o \in {"passed", "regression"} :
            run' = [run EXCEPT ![r] = [old EXCEPT !.at = "rewait", !.outcome = o]]
      BY <2>8 DEF finishBatch
    <3> QED BY <1>1, <1>2, <3>1 DEF Run
  <2>9. CASE afterHash(r) \/ recollect(r)
    <3>1. run' = [run EXCEPT ![r] = verdict(r, TRUE)]
      BY <2>9 DEF afterHash, recollect, Becomes
    <3>2. verdict(r, TRUE).outcome = "no_confidence"
      BY <1>2 DEF verdict, NoRun, Run
    <3> QED BY <1>1, <3>1, <3>2
  <2>10. CASE finalize(r)
    BY <2>10 DEF finalize
  <2> QED BY <1>4, <2>4, <2>5, <2>6, <2>7, <2>8, <2>9, <2>10 DEF runStep
<1> QED BY <1>3, <1>4

\* The result of an aborted run is never made a pass.
LEMMA AbortedStep ==
    ASSUME RunsInvariant, [DaemonNext]_vars, NEW r \in Verifies,
           run'[r].outcome = "passed", run'[r].at = "finalize"
    PROVE  ~Aborted(r) \/ run[r].at = "finalize"
<1>1. r \in Runs /\ run[r] \in Run
  BY DEF Runs, RunsInvariant, RunsOK
<1>2. CASE \E q \in Runs :
             submit(q) \/ cancel(q) \/ drop(q) \/ browse(q) \/ runStep(q)
  BY <1>2, VerdictStep
<1>3. CASE shutdown \/ \E v \in Versions : edit(v)
  <2>1. run'[r].at = run[r].at
    BY <1>1, <1>3 DEF shutdown, edit, Cancelled, Run
  <2> QED BY <2>1
<1>4. CASE UNCHANGED run
  BY <1>4
<1>5. CASE startHost \/ hostStep
  BY <1>4, <1>5 DEF startHost, hostStep, hostStarted, startFails, drained,
       stopDifferential, runtimeStopped, graceElapsed
<1>6. CASE UNCHANGED daemonVars \/ UNCHANGED vars
  BY <1>4, <1>6 DEF vars, daemonVars
<1> QED BY <1>2, <1>3, <1>5, <1>6 DEF DaemonNext

\* Whoever aborts a verify run before its result is made (its client, the
\* deadline of the batch, a cancellation or a shutdown), the run does not pass.
THEOREM AbortedNeverPassesCorrect == DaemonSpec => AbortedNeverPasses
<1>1. RunsInvariant /\ [DaemonNext]_vars
        => [\A r \in Verifies :
              run'[r].outcome = "passed" /\ run'[r].at = "finalize"
                => ~Aborted(r) \/ run[r].at = "finalize"]_vars
  BY AbortedStep
<1> QED BY <1>1, RunsCorrect, PTL DEF DaemonSpec, AbortedNeverPasses

----------------------------------------------------------------------------
(* The types of the whole state *)

\* Where a stop, the host and the edits are, and what each caller awaits: no
\* other part of the state tells them.
RestOK ==
    /\ waits \in [Waiters -> Waiting]
    /\ stopAt \in {"none", "browser", "server", "done", "failed"}
    /\ edits \in 0 .. MaxEdits
    /\ host \in {"off", "starting", "up", "drain", "differential", "runtime",
                 "released", "failed"}

\* A caller of the runtime, new waits of its own.
Awaits(w, wait) == wait \in Waiting /\ waits' = [waits EXCEPT ![w] = wait]

\* Settling a transition takes it off whatever its callers await.
LEMMA SettleKeeps ==
    ASSUME RestOK, NEW part, NEW ok \in BOOLEAN, Settle(part, ok)
    PROVE  waits' \in [Waiters -> Waiting]
<1>1. \A w \in Waiters : waits[w] \in Waiting
  BY DEF RestOK
<1>2. ASSUME NEW w \in Waiters
      PROVE  [on |-> waits[w].on \ {part}, bad |-> waits[w].bad \/ ~ok] \in Waiting
  <2>1. waits[w].on \in SUBSET Parts /\ waits[w].bad \in BOOLEAN
    BY <1>1 DEF Waiting
  <2>2. waits[w].on \ {part} \in SUBSET Parts /\ (waits[w].bad \/ ~ok) \in BOOLEAN
    BY <2>1
  <2> QED BY <2>2 DEF Waiting
<1> QED BY <1>1, <1>2 DEF Settle

\* ensureReady leaves its caller awaiting the transitions in flight.
LEMMA EnsureAwaits ==
    ASSUME NEW w, ensureReady(w)
    PROVE  (\E wait : Awaits(w, wait)) /\ UNCHANGED stopAt
<1> DEFINE on == (IF ensureServer.job # "idle" THEN {"server"} ELSE {})
                   \cup (IF ensureBrowser.job THEN {"browser"} ELSE {})
           bad == ensureServer.job = "idle"
                    \/ (~ensureBrowser.job /\ ensureBrowser.sup.state # "ready")
           wait == [on |-> on, bad |-> bad]
<1>1. on \in SUBSET Parts
  BY DEF Parts
<1>2. bad \in BOOLEAN
  OBVIOUS
<1>3. waits' = [waits EXCEPT ![w] = wait] /\ UNCHANGED stopAt
  BY DEF ensureReady
<1> HIDE DEF on, bad
<1>4. wait \in Waiting
  BY <1>1, <1>2 DEF Waiting
<1> QED BY <1>3, <1>4 DEF Awaits

\* A step of a run changes no more of it than what the run awaits.
LEMMA RunAwaits ==
    ASSUME NEW r \in Runs,
           submit(r) \/ cancel(r) \/ drop(r) \/ browse(r) \/ runStep(r)
    PROVE  /\ UNCHANGED waits \/ \E wait : Awaits(r, wait)
           /\ UNCHANGED <<stopAt, edits, host>>
<1>1. NoWait \in Waiting
  BY DEF NoWait, Waiting
<1>2. CASE submit(r) \/ cancel(r) \/ drop(r) \/ browse(r) \/ reserveRun(r)
            \/ collectChangeSet(r) \/ beforeHash(r) \/ watchSources(r) \/ dryRunRefused(r)
            \/ batchThrows(r) \/ afterHash(r) \/ recollect(r) \/ finalize(r)
  BY <1>2 DEF submit, cancel, drop, browse, reserveRun, collectChangeSet,
       beforeHash, watchSources, dryRunRefused, batchThrows, afterHash, recollect, finalize,
       Becomes, runtimeVars
<1>3. CASE dryRunCandidate(r) \/ watchThenEnsure(r)
  BY <1>3, EnsureAwaits DEF dryRunCandidate, watchThenEnsure
<1>4. CASE runtimeReady(r) \/ raceAbort(r) \/ runtimeUnchanged(r)
  BY <1>1, <1>4 DEF runtimeReady, raceAbort, runtimeUnchanged, StopWaiting, Awaits
<1>5. CASE \E o \in {"passed", "regression"} : finishBatch(r, o)
  BY <1>5, EnsureAwaits DEF finishBatch, Becomes, runtimeVars
<1> QED BY <1>2, <1>3, <1>4, <1>5 DEF runStep

\* A step of the supervisors settles a transition or touches no wait, and
\* moves a stop to its next place.
LEMMA RuntimeRest ==
    ASSUME RestOK, RuntimeStep
    PROVE  /\ waits' \in [Waiters -> Waiting]
           /\ stopAt' \in {"none", "browser", "server", "done", "failed"}
<1>1. UNCHANGED waits \/ \E part : Settle(part, TRUE) \/ Settle(part, FALSE)
  BY DEF RuntimeStep, probeReadiness, launchServer, launchRefused,
     serverSettled, serverNotReady, transitionStopTimeout, serverExits,
     browserClosed, browserCloseFails, runtimeStopTimeout, launchBrowser,
     launchBrowserFails, browserDisconnected
<1>2. waits' \in [Waiters -> Waiting]
  BY <1>1, SettleKeeps DEF RestOK
<1>3. stopAt' \in {stopAt, "server", "done", "failed"}
  BY DEF RuntimeStep, probeReadiness, launchServer, launchRefused,
     serverSettled, serverNotReady, transitionStopTimeout, serverExits,
     browserClosed, browserCloseFails, runtimeStopTimeout, launchBrowser,
     launchBrowserFails, browserDisconnected, StopServer
<1> QED BY <1>2, <1>3 DEF RestOK

\* The host starts once with both parts awaited, and stops the runtime.
LEMMA HostRest ==
    ASSUME RestOK, startHost \/ shutdown \/ hostStep
    PROVE  RestOK'
<1>1. CASE startHost
  <2>1. [on |-> Parts, bad |-> FALSE] \in Waiting
    BY DEF Waiting
  <2>2. waits' = [waits EXCEPT ![Host] = [on |-> Parts, bad |-> FALSE]]
          /\ host' = "starting" /\ UNCHANGED <<stopAt, edits>>
    BY <1>1 DEF startHost, startRuntime
  <2> QED BY <2>1, <2>2 DEF RestOK
<1>2. CASE shutdown \/ hostStarted \/ drained \/ runtimeStopped \/ graceElapsed
  BY <1>2 DEF shutdown, hostStarted, drained, runtimeStopped, graceElapsed,
       runtimeVars, RestOK
<1>3. CASE startFails \/ stopDifferential
  <2>1. host' = "runtime" /\ UNCHANGED <<waits, edits>>
          /\ stopAt' \in {"browser", "server", "done"}
    BY <1>3 DEF startFails, stopDifferential, stopRuntime, StopServer
  <2> QED BY <2>1 DEF RestOK
<1> QED BY <1>1, <1>2, <1>3 DEF hostStep

\* Every step of the daemon keeps the rest within its types.
LEMMA StepRest ==
    ASSUME RestOK, [DaemonNext]_vars
    PROVE  RestOK'
<1>1. CASE \E r \in Runs :
             submit(r) \/ cancel(r) \/ drop(r) \/ browse(r) \/ runStep(r)
  <2>1. PICK r \in Runs : UNCHANGED waits \/ \E wait : Awaits(r, wait)
    BY <1>1, RunAwaits
  <2>2. UNCHANGED <<stopAt, edits, host>>
    BY <1>1, RunAwaits
  <2> QED BY <2>1, <2>2 DEF Awaits, RestOK
<1>2. CASE \E v \in Versions : edit(v)
  <2>1. edits < MaxEdits /\ edits' = edits + 1 /\ UNCHANGED <<waits, stopAt, host>>
    BY <1>2 DEF edit, runtimeVars
  <2> QED BY <2>1, DaemonAssumption DEF RestOK
<1>3. CASE startHost \/ shutdown \/ hostStep
  BY <1>3, HostRest
<1>4. CASE RuntimeStep /\ UNCHANGED daemonVars
  BY <1>4, RuntimeRest DEF daemonVars, RestOK
<1>5. CASE (checkout \/ releaseCheckout) /\ UNCHANGED daemonVars
  BY <1>5 DEF checkout, releaseCheckout, daemonVars, RestOK
<1>6. CASE UNCHANGED vars
  BY <1>6 DEF vars, runtimeVars, daemonVars, RestOK
<1> QED BY <1>1, <1>2, <1>3, <1>4, <1>5, <1>6 DEF DaemonNext

\* In every behaviour of verifyd each part of its state has its type.  That
\* generations stay within what a start and the recoveries can launch, the
\* pinned one and those that pages were seen from included, is the bound on
\* recoveries again: it needs the supervisors' invariant.
THEOREM DaemonTypeCorrect == DaemonSpec => []DaemonTypeOK
<1>1. DaemonInit => RestOK
  BY DaemonAssumption DEF DaemonInit, RuntimeInit, RestOK, NoWait, Waiting, Parts
<1>2. ASSUME RunsInvariant, RestOK
      PROVE  DaemonTypeOK
  <2>1. /\ server \in SupervisorRow /\ browser \in SupervisorRow
        /\ server.gen \in Generations /\ browser.gen \in Generations
    BY <1>2, GenerationsInRange DEF RunsInvariant, RuntimeInvariant,
       ServerInvariant, BrowserInvariant
  <2>2. ASSUME NEW s \in SupervisorRow, s.gen \in Generations
        PROVE  s \in [state : States, owned : BOOLEAN, gen : Generations,
                      attempts : 0 .. MaxRecovery]
    BY <2>2 DEF SupervisorRow
  <2>3. procs \subseteq Generations \ {0} /\ serverJob \in ServerJobs
    BY <1>2, <2>1 DEF RunsInvariant, RuntimeInvariant, ServerInvariant
  <2>4. browserJob \in BOOLEAN /\ pin \in Generations
    BY <1>2, <2>1, GenerationNumbers DEF RunsInvariant, RuntimeInvariant,
       BrowserInvariant
  <2>5. RuntimeTypeOK
    BY <1>2, <2>1, <2>2, <2>3, <2>4 DEF RuntimeTypeOK, RestOK
  <2> QED BY <1>2, <2>5 DEF DaemonTypeOK, RestOK, RunsInvariant, RunsOK
<1> QED BY <1>1, <1>2, StepRest, RunsCorrect, PTL DEF DaemonSpec
=============================================================================
