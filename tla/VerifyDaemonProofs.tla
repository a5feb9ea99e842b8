-------------------------- MODULE VerifyDaemonProofs --------------------------
(***************************************************************************)
(* What verifyd's supervisors keep in every behaviour of the daemon, for   *)
(* any number of runs, versions and edits.  The runtime is changed only by *)
(* its own steps, by ensureReady, by the host's start and stop and by a    *)
(* checkout; each of them keeps the invariant of the app server and the    *)
(* one of Chromium.  start() needs a third part: before the host starts,   *)
(* nothing has touched the runtime.                                        *)
(***************************************************************************)
EXTENDS VerifyDaemon, TLAPS

SupervisorRow == [state : States, owned : BOOLEAN, gen : Nat,
                  attempts : 0 .. MaxRecovery]

\* The only process is the child; a launch is on its way only while there is
\* none, and a recovery has been paid for before it launches.
ServerInvariant ==
    /\ server \in SupervisorRow
    /\ serverJob \in ServerJobs
    /\ procs = IF server.owned THEN {server.gen} ELSE {}
    /\ serverJob = "listen" => ~server.owned
    /\ server.state = "ready" => server.owned
    /\ server.owned => server.gen # 0
    /\ server.gen <= 1 + server.attempts
    /\ serverJob \in {"recover_stop", "listen"} => server.gen <= server.attempts

\* The same of Chromium, whose recovery is refused during a checkout.
BrowserInvariant ==
    /\ browser \in SupervisorRow
    /\ browserJob \in BOOLEAN
    /\ pin \in Nat
    /\ browser.state = "ready" <=> browser.owned
    /\ browserJob => ~browser.owned
    /\ browser.gen <= 1 + browser.attempts
    /\ browserJob => browser.gen <= browser.attempts
    /\ pin # 0 => browser.gen = pin /\ ~browserJob

Untouched ==
    /\ ~server.owned /\ server.gen = 0 /\ serverJob = "idle"
    /\ ~browser.owned /\ browser.gen = 0 /\ ~browserJob
    /\ pin = 0 /\ stopAt = "none"
    /\ \A r \in Runs : run[r].at = "off"

RuntimeInvariant ==
    /\ ServerInvariant
    /\ BrowserInvariant
    /\ host = "off" => Untouched

----------------------------------------------------------------------------
\* A recovery of the app server is refused, or is counted before it launches.
LEMMA RecoverServer ==
    ASSUME ServerInvariant, NEW s,
           s = server \/ s = [server EXCEPT !.state = "unhealthy"],
           server' = recover(s).sup, serverJob' = recover(s).job,
           UNCHANGED procs
    PROVE  ServerInvariant'
<1>1. MaxRecovery \in {0, 1}
  BY RuntimeAssumption
<1>2. /\ s \in SupervisorRow /\ s.owned = server.owned /\ s.gen = server.gen
      /\ s.attempts = server.attempts /\ (s.state = "ready" => s.owned)
  BY DEF ServerInvariant, SupervisorRow, States
<1>3. CASE s.state = "locked" \/ s.attempts >= MaxRecovery
  <2>1. server' = [s EXCEPT !.state = "locked"] /\ serverJob' = "idle"
    BY <1>3 DEF recover
  <2> QED BY <2>1, <1>2 DEF ServerInvariant, SupervisorRow, States, ServerJobs
<1>4. CASE ~(s.state = "locked" \/ s.attempts >= MaxRecovery)
  <2>1. /\ server' = [s EXCEPT !.attempts = @ + 1]
        /\ serverJob' = IF s.owned THEN "recover_stop" ELSE "listen"
    BY <1>4 DEF recover
  <2>2. s.attempts + 1 \in 0 .. MaxRecovery
    BY <1>1, <1>2, <1>4 DEF SupervisorRow
  <2>3. /\ server' \in SupervisorRow /\ server'.owned = server.owned
        /\ server'.gen = server.gen /\ server'.state = s.state
        /\ server'.attempts = server.attempts + 1
    BY <2>1, <2>2, <1>2 DEF SupervisorRow
  <2>4. server'.gen <= 1 + server'.attempts /\ server'.gen <= server'.attempts
    BY <2>3 DEF ServerInvariant, SupervisorRow
  <2> QED BY <2>1, <2>3, <2>4, <1>2 DEF ServerInvariant, ServerJobs
<1> QED BY <1>3, <1>4

\* The part of the app server in ensureReady: it joins a transition, probes,
\* or recovers.
LEMMA EnsureServer ==
    ASSUME ServerInvariant, server' = ensureServer.sup,
           serverJob' = ensureServer.job, UNCHANGED procs
    PROVE  ServerInvariant'
<1>1. CASE serverJob # "idle"
  BY <1>1 DEF ensureServer, ServerInvariant
<1>2. CASE serverJob = "idle" /\ server.state = "ready" /\ server.owned
  BY <1>2 DEF ensureServer, ServerInvariant, ServerJobs
<1>3. CASE serverJob = "idle" /\ ~(server.state = "ready" /\ server.owned)
  <2>1. server' = recover(server).sup /\ serverJob' = recover(server).job
    BY <1>3 DEF ensureServer
  <2> QED BY <2>1, RecoverServer
<1> QED BY <1>1, <1>2, <1>3

\* The part of Chromium: it joins, has nothing to do, is refused during a
\* checkout or after its attempts, or launches.
LEMMA EnsureBrowser ==
    ASSUME BrowserInvariant, browser' = ensureBrowser.sup,
           browserJob' = ensureBrowser.job, UNCHANGED pin
    PROVE  BrowserInvariant'
<1>1. MaxRecovery \in {0, 1}
  BY RuntimeAssumption
<1>2. CASE browserJob \/ (browser.state = "ready" /\ browser.owned)
  BY <1>2 DEF ensureBrowser, BrowserInvariant
<1>3. CASE ~(browserJob \/ (browser.state = "ready" /\ browser.owned))
  <2>1. /\ ~browserJob /\ ~browser.owned /\ browser.state # "ready"
        /\ browser' = recoverBrowser(browser).sup
        /\ browserJob' = recoverBrowser(browser).job
    BY <1>3 DEF ensureBrowser, BrowserInvariant
  <2>2. CASE pin # 0
    BY <2>1, <2>2 DEF recoverBrowser, BrowserInvariant
  <2>3. CASE pin = 0 /\ (browser.state = "locked" \/ browser.attempts >= MaxRecovery)
    <3>1. browser' = [browser EXCEPT !.state = "locked"] /\ browserJob' = FALSE
      BY <2>1, <2>3 DEF recoverBrowser
    <3> QED BY <3>1, <2>1, <2>3 DEF BrowserInvariant, SupervisorRow, States
  <2>4. CASE pin = 0 /\ ~(browser.state = "locked" \/ browser.attempts >= MaxRecovery)
    <3>1. /\ browser' = [browser EXCEPT !.attempts = @ + 1, !.state = "recovering"]
          /\ browserJob' = TRUE
      BY <2>1, <2>4 DEF recoverBrowser
    <3>2. browser.attempts + 1 \in 0 .. MaxRecovery
      BY <1>1, <2>4 DEF BrowserInvariant, SupervisorRow
    <3>3. /\ browser' \in SupervisorRow /\ browser'.state = "recovering"
          /\ ~browser'.owned /\ browser'.gen = browser.gen
          /\ browser'.attempts = browser.attempts + 1
      BY <3>1, <3>2, <2>1 DEF BrowserInvariant, SupervisorRow, States
    <3>4. browser'.gen <= 1 + browser'.attempts /\ browser'.gen <= browser'.attempts
      BY <3>3 DEF BrowserInvariant, SupervisorRow
    <3> QED BY <3>1, <3>3, <3>4, <2>4 DEF BrowserInvariant
  <2> QED BY <2>2, <2>3, <2>4
<1> QED BY <1>2, <1>3

\* What callers of ensureReady may do to the runtime.
LEMMA EnsureReady ==
    ASSUME ServerInvariant, BrowserInvariant, NEW w, ensureReady(w)
    PROVE  ServerInvariant' /\ BrowserInvariant'
<1>1. /\ server' = ensureServer.sup /\ serverJob' = ensureServer.job
      /\ browser' = ensureBrowser.sup /\ browserJob' = ensureBrowser.job
      /\ UNCHANGED <<procs, pin>>
  BY DEF ensureReady
<1> QED BY <1>1, EnsureServer, EnsureBrowser

\* Changing the state of the app server to anything but ready, and its
\* transition to one that launches nothing.
LEMMA ServerState ==
    ASSUME ServerInvariant, NEW state \in States \ {"ready"},
           server' = [server EXCEPT !.state = state],
           serverJob' \in ServerJobs,
           serverJob' \in {"recover_stop", "listen"} => serverJob' = serverJob,
           UNCHANGED procs
    PROVE  ServerInvariant'
<1>1. /\ server' \in SupervisorRow /\ server'.owned = server.owned
      /\ server'.gen = server.gen /\ server'.state = state
      /\ server'.attempts = server.attempts
  BY DEF ServerInvariant, SupervisorRow
<1> QED BY <1>1 DEF ServerInvariant

\* The exit of the child: no process is left, whoever awaited it.
LEMMA ServerExit ==
    ASSUME ServerInvariant, NEW g \in Generations, serverExits(g)
    PROVE  ServerInvariant'
<1>1. server.owned /\ g = server.gen /\ procs' = {}
  BY DEF serverExits, ServerInvariant
<1>2. /\ server' \in SupervisorRow /\ ~server'.owned /\ server'.gen = server.gen
      /\ server'.attempts = server.attempts /\ server'.state # "ready"
  <2>1. \E state \in States \ {"ready"} :
           server' = [server EXCEPT !.owned = FALSE, !.state = state]
    <3>1. CASE serverJob = "launch_stop"
      BY <3>1 DEF serverExits, Failed, ServerInvariant, SupervisorRow, States
    <3>2. CASE serverJob # "launch_stop" /\ (serverJob = "recover_stop" \/ stopAt = "server")
      BY <3>2 DEF serverExits, ServerInvariant, SupervisorRow, States
    <3>3. CASE ~(serverJob = "launch_stop" \/ serverJob = "recover_stop" \/ stopAt = "server")
      BY <3>3 DEF serverExits, Unexpected, ServerInvariant, SupervisorRow, States
    <3> QED BY <3>1, <3>2, <3>3
  <2> QED BY <2>1 DEF ServerInvariant, SupervisorRow
<1>3. serverJob' = IF serverJob = "recover_stop" THEN "listen"
                   ELSE IF serverJob = "launch_stop" THEN "idle" ELSE serverJob
  BY DEF serverExits
<1>4. serverJob' \in ServerJobs
  BY <1>3 DEF ServerInvariant, ServerJobs
<1>5. serverJob' \in {"recover_stop", "listen"} => server'.gen <= server'.attempts
  BY <1>2, <1>3 DEF ServerInvariant
<1> QED BY <1>1, <1>2, <1>4, <1>5 DEF ServerInvariant

\* A launch finds no process and leaves one, the child.
LEMMA ServerLaunch ==
    ASSUME ServerInvariant, launchServer
    PROVE  ServerInvariant'
<1>1. ~server.owned /\ procs = {} /\ server.gen <= server.attempts
  BY DEF launchServer, ServerInvariant
<1>2. server.gen \in Nat /\ server.attempts \in 0 .. MaxRecovery
  BY DEF ServerInvariant, SupervisorRow
<1>3. /\ server' \in SupervisorRow /\ server'.owned /\ server'.gen = server.gen + 1
      /\ server'.attempts = server.attempts
  <2>1. \E state \in States :
           server' = [server EXCEPT !.state = state, !.owned = TRUE,
                                    !.gen = server.gen + 1]
    BY DEF launchServer, States
  <2>2. server.gen + 1 \in Nat
    BY <1>2
  <2> QED BY <2>1, <2>2 DEF ServerInvariant, SupervisorRow
<1>4. procs' = {server'.gen} /\ serverJob' = "settle"
  BY <1>1, <1>3 DEF launchServer
<1>5. server'.gen <= 1 + server'.attempts /\ server'.gen # 0
  BY <1>1, <1>2, <1>3
<1> QED BY <1>3, <1>4, <1>5 DEF ServerInvariant, ServerJobs

\* The steps of the app server's transition, and of a stop of the runtime
\* that concern the app server.
LEMMA ServerSteps ==
    ASSUME ServerInvariant,
           \/ probeReadiness \/ launchServer \/ launchRefused
           \/ serverSettled \/ serverNotReady \/ transitionStopTimeout
           \/ runtimeStopTimeout
           \/ \E g \in Generations : serverExits(g)
    PROVE  ServerInvariant'
<1>1. CASE probeReadiness
  <2>1. CASE serverJob' = "idle" /\ UNCHANGED server
    BY <1>1, <2>1 DEF probeReadiness, ServerInvariant, ServerJobs
  <2>2. CASE LET r == recover([server EXCEPT !.state = "unhealthy"])
             IN server' = r.sup /\ serverJob' = r.job
    <3>1. UNCHANGED procs
      BY <1>1 DEF probeReadiness
    <3> QED BY <2>2, <3>1, RecoverServer
  <2> QED BY <1>1, <2>1, <2>2 DEF probeReadiness
<1>2. CASE launchServer
  BY <1>2, ServerLaunch
<1>3. CASE launchRefused
  <2>1. \E state \in States \ {"ready"} : server' = [server EXCEPT !.state = state]
    BY <1>3 DEF launchRefused, Failed, States
  <2> QED BY <1>3, <2>1, ServerState DEF launchRefused, ServerJobs
<1>4. CASE serverSettled
  <2>1. /\ server' \in SupervisorRow /\ server'.owned /\ server.owned
        /\ server'.gen = server.gen /\ server'.attempts = server.attempts
    BY <1>4 DEF serverSettled, ServerInvariant, SupervisorRow, States
  <2> QED BY <1>4, <2>1 DEF serverSettled, ServerInvariant, ServerJobs
<1>5. CASE serverNotReady
  <2>1. CASE server.owned
    BY <1>5, <2>1 DEF serverNotReady, ServerInvariant, ServerJobs
  <2>2. CASE ~server.owned
    <3>1. \E state \in States \ {"ready"} : server' = [server EXCEPT !.state = state]
      BY <1>5, <2>2 DEF serverNotReady, Failed, States
    <3> QED BY <1>5, <2>2, <3>1, ServerState DEF serverNotReady, ServerJobs
  <2> QED BY <2>1, <2>2
<1>6. CASE transitionStopTimeout
  <2>1. \E state \in States \ {"ready"} : server' = [server EXCEPT !.state = state]
    BY <1>6 DEF transitionStopTimeout, Failed, States
  <2> QED BY <1>6, <2>1, ServerState DEF transitionStopTimeout, ServerJobs
<1>7. CASE runtimeStopTimeout
  BY <1>7, ServerState DEF runtimeStopTimeout, ServerInvariant, States
<1>8. CASE \E g \in Generations : serverExits(g)
  BY <1>8, ServerExit
<1> QED BY <1>1, <1>2, <1>3, <1>4, <1>5, <1>6, <1>7, <1>8

\* stop() of the app server waits for an exit or finds no child.
LEMMA ServerStop ==
    ASSUME ServerInvariant, UNCHANGED <<serverJob, procs>>,
           StopServer \/ UNCHANGED server
    PROVE  ServerInvariant'
<1>1. CASE UNCHANGED server
  BY <1>1 DEF ServerInvariant
<1>2. CASE StopServer
  <2>1. CASE UNCHANGED server
    BY <2>1, <1>1
  <2>2. CASE server' = [server EXCEPT !.state = "stopped"]
    BY <2>2, ServerState DEF ServerInvariant, States
  <2> QED BY <1>2, <2>1, <2>2 DEF StopServer
<1> QED BY <1>1, <1>2

\* A Chromium that is gone or closed, or was not launched.
LEMMA BrowserGone ==
    ASSUME BrowserInvariant, NEW state \in States \ {"ready"},
           browser' = [browser EXCEPT !.owned = FALSE, !.state = state],
           browserJob' \in BOOLEAN, browserJob' => browserJob, UNCHANGED pin
    PROVE  BrowserInvariant'
<1>1. /\ browser' \in SupervisorRow /\ ~browser'.owned /\ browser'.state = state
      /\ browser'.gen = browser.gen /\ browser'.attempts = browser.attempts
  BY DEF BrowserInvariant, SupervisorRow
<1> QED BY <1>1 DEF BrowserInvariant

\* launchBrowser ends a transition that no checkout can overlap.
LEMMA BrowserLaunched ==
    ASSUME BrowserInvariant, launchBrowser
    PROVE  BrowserInvariant'
<1>1. browserJob /\ pin = 0 /\ browser.gen <= browser.attempts /\ pin' = 0
  BY DEF launchBrowser, BrowserInvariant
<1>2. browser.gen \in Nat /\ browser.attempts \in 0 .. MaxRecovery
  BY DEF BrowserInvariant, SupervisorRow
<1>3. /\ browser' \in SupervisorRow /\ browser'.owned /\ browser'.state = "ready"
      /\ browser'.gen = browser.gen + 1 /\ browser'.attempts = browser.attempts
  <2>1. browser' = [browser EXCEPT !.state = "ready", !.owned = TRUE,
                                    !.gen = browser.gen + 1]
    BY DEF launchBrowser
  <2>2. browser.gen + 1 \in Nat
    BY <1>2
  <2> QED BY <2>1, <2>2 DEF BrowserInvariant, SupervisorRow, States
<1>4. browser'.gen <= 1 + browser'.attempts
  BY <1>1, <1>2, <1>3
<1>5. browserJob' = FALSE
  BY DEF launchBrowser
<1> QED BY <1>1, <1>3, <1>4, <1>5 DEF BrowserInvariant

\* The steps of Chromium and of the stop of the runtime that concern it.
LEMMA BrowserSteps ==
    ASSUME BrowserInvariant,
           \/ browserClosed \/ browserCloseFails
           \/ launchBrowser \/ launchBrowserFails \/ browserDisconnected
    PROVE  BrowserInvariant'
<1>1. CASE browserClosed
  BY <1>1, BrowserGone DEF browserClosed, BrowserInvariant, SupervisorRow, States
<1>2. CASE browserCloseFails
  <2>1. browser' = browser
    BY <1>2 DEF browserCloseFails, BrowserInvariant, SupervisorRow
  <2> QED BY <1>2, <2>1 DEF browserCloseFails, BrowserInvariant
<1>3. CASE launchBrowser
  BY <1>3, BrowserLaunched
<1>4. CASE launchBrowserFails
  <2>1. ~browser.owned
    BY <1>4 DEF launchBrowserFails, BrowserInvariant
  <2>2. PICK state \in States \ {"ready"} :
           browser' = [browser EXCEPT !.state = state]
    BY <1>4 DEF launchBrowserFails, Failed, States
  <2>3. /\ browser' \in SupervisorRow /\ ~browser'.owned /\ browser'.state # "ready"
        /\ browser'.gen = browser.gen /\ browser'.attempts = browser.attempts
    BY <2>1, <2>2 DEF BrowserInvariant, SupervisorRow
  <2>4. browserJob' = FALSE /\ UNCHANGED pin
    BY <1>4 DEF launchBrowserFails
  <2> QED BY <2>3, <2>4 DEF BrowserInvariant
<1>5. CASE browserDisconnected
  <2> DEFINE st == IF stopAt = "browser" THEN "stopped" ELSE Unexpected(browser)
  <2>1. st \in States \ {"ready"}
    BY DEF Unexpected, States
  <2>2. browser' = [browser EXCEPT !.owned = FALSE, !.state = st]
    BY <1>5 DEF browserDisconnected
  <2>3. UNCHANGED <<browserJob, pin>>
    BY <1>5 DEF browserDisconnected
  <2> HIDE DEF st
  <2> QED BY <2>1, <2>2, <2>3, BrowserGone DEF BrowserInvariant
<1> QED BY <1>1, <1>2, <1>3, <1>4, <1>5

----------------------------------------------------------------------------
\* A step of the runtime touches one of its two parts.
LEMMA RuntimeSteps ==
    ASSUME ServerInvariant, BrowserInvariant, RuntimeStep
    PROVE  ServerInvariant' /\ BrowserInvariant'
<1>1. ASSUME UNCHANGED <<browser, browserJob, pin>> PROVE BrowserInvariant'
  BY <1>1 DEF BrowserInvariant
<1>2. ASSUME UNCHANGED <<server, serverJob, procs>> PROVE ServerInvariant'
  BY <1>2 DEF ServerInvariant
<1>3. CASE \/ probeReadiness \/ launchServer \/ launchRefused
           \/ serverSettled \/ serverNotReady \/ transitionStopTimeout
           \/ runtimeStopTimeout
           \/ \E g \in Generations : serverExits(g)
  <2>1. UNCHANGED <<browser, browserJob, pin>>
    BY <1>3 DEF probeReadiness, launchServer, launchRefused, serverSettled,
         serverNotReady, transitionStopTimeout, runtimeStopTimeout, serverExits
  <2> QED BY <1>1, <1>3, <2>1, ServerSteps
<1>4. CASE browserClosed
  <2>1. ServerInvariant'
    BY <1>4, ServerStop DEF browserClosed
  <2> QED BY <1>4, <2>1, BrowserSteps
<1>5. CASE browserCloseFails \/ launchBrowser \/ launchBrowserFails
             \/ browserDisconnected
  <2>1. UNCHANGED <<server, serverJob, procs>>
    BY <1>5 DEF browserCloseFails, launchBrowser, launchBrowserFails,
         browserDisconnected
  <2> QED BY <1>2, <1>5, <2>1, BrowserSteps
<1> QED BY <1>3, <1>4, <1>5 DEF RuntimeStep

\* Nothing happens to the runtime before the host starts it.
LEMMA UntouchedRests ==
    ASSUME ServerInvariant, Untouched
    PROVE  ~RuntimeStep /\ ~releaseCheckout
<1>1. procs = {}
  BY DEF ServerInvariant, Untouched
<1> QED BY <1>1 DEF Untouched, RuntimeStep, releaseCheckout, probeReadiness,
     launchServer, launchRefused, serverSettled, serverNotReady,
     transitionStopTimeout, runtimeStopTimeout, serverExits, browserClosed,
     browserCloseFails, launchBrowser, launchBrowserFails, browserDisconnected

\* start() launches both parts for the first time.
LEMMA StartRuntime ==
    ASSUME ServerInvariant, BrowserInvariant, Untouched, NEW w, startRuntime(w)
    PROVE  ServerInvariant' /\ BrowserInvariant'
<1>1. ServerInvariant'
  <2>1. UNCHANGED <<server, procs>> /\ serverJob' = "listen"
    BY DEF startRuntime
  <2>2. server.gen <= server.attempts
    BY DEF ServerInvariant, SupervisorRow, Untouched
  <2> QED BY <2>1, <2>2 DEF ServerInvariant, ServerJobs, Untouched
<1>2. BrowserInvariant'
  <2>1. /\ browser' = [browser EXCEPT !.state = "starting"]
        /\ browserJob' = TRUE /\ pin' = 0
    BY DEF startRuntime, Untouched
  <2>2. /\ browser' \in SupervisorRow /\ ~browser'.owned /\ browser'.gen = 0
        /\ browser'.attempts = browser.attempts /\ browser'.state = "starting"
    BY <2>1 DEF BrowserInvariant, SupervisorRow, States, Untouched
  <2>3. browser'.gen <= browser'.attempts /\ browser'.gen <= 1 + browser'.attempts
    BY <2>2 DEF SupervisorRow
  <2> QED BY <2>1, <2>2, <2>3 DEF BrowserInvariant
<1> QED BY <1>1, <1>2

\* The stop of the runtime, and the checkout of a differential run.
LEMMA StopRuntime ==
    ASSUME ServerInvariant, BrowserInvariant, stopRuntime
    PROVE  ServerInvariant' /\ BrowserInvariant'
<1>1. CASE browser.owned
  BY <1>1 DEF stopRuntime, ServerInvariant, BrowserInvariant
<1>2. CASE ~browser.owned
  <2>1. browser' = [browser EXCEPT !.state = "stopped"] /\ StopServer
        /\ UNCHANGED <<procs, serverJob, browserJob, pin>>
    BY <1>2 DEF stopRuntime
  <2>2. /\ browser' \in SupervisorRow /\ ~browser'.owned
        /\ browser'.state = "stopped"
        /\ browser'.gen = browser.gen /\ browser'.attempts = browser.attempts
    BY <1>2, <2>1 DEF BrowserInvariant, SupervisorRow, States
  <2>3. BrowserInvariant'
    BY <2>1, <2>2 DEF BrowserInvariant
  <2> QED BY <2>1, <2>3, ServerStop
<1> QED BY <1>1, <1>2

\* A checkout pins a browser that no transition is about to replace.
LEMMA Checkout ==
    ASSUME ServerInvariant, BrowserInvariant, checkout \/ releaseCheckout
    PROVE  ServerInvariant' /\ BrowserInvariant'
<1>1. ServerInvariant'
  BY DEF checkout, releaseCheckout, ServerInvariant
<1>2. BrowserInvariant'
  <2>1. CASE checkout
    <3>1. browser.gen \in Nat /\ ~browserJob
      BY <2>1 DEF checkout, BrowserInvariant, SupervisorRow
    <3> QED BY <2>1, <3>1 DEF checkout, BrowserInvariant
  <2>2. CASE releaseCheckout
    BY <2>2 DEF releaseCheckout, BrowserInvariant
  <2> QED BY <2>1, <2>2
<1> QED BY <1>1, <1>2

----------------------------------------------------------------------------
(* The daemon *)

\* Supervisors start with no process and no transition.
LEMMA InitInvariant == DaemonInit => RuntimeInvariant
<1> SUFFICES ASSUME DaemonInit PROVE RuntimeInvariant
  OBVIOUS
<1>1. MaxRecovery \in {0, 1}
  BY RuntimeAssumption
<1>2. Supervisor \in SupervisorRow
  BY <1>1 DEF Supervisor, SupervisorRow, States
<1>3. ServerInvariant
  BY <1>2 DEF DaemonInit, RuntimeInit, ServerInvariant, Supervisor, ServerJobs
<1>4. BrowserInvariant
  <2>1. /\ browser.state = "stopped" /\ browser.owned = FALSE
        /\ browser.gen = 0 /\ browser.attempts = 0
    BY DEF DaemonInit, RuntimeInit, Supervisor
  <2>2. browser \in SupervisorRow /\ browserJob = FALSE /\ pin = 0
    BY <1>2 DEF DaemonInit, RuntimeInit
  <2>3. browser.state # "ready" /\ ~browser.owned
    BY <2>1
  <2>4. 0 <= 1 + browser.attempts
    BY <2>1
  <2> QED BY <2>1, <2>2, <2>3, <2>4 DEF BrowserInvariant
<1>5. Untouched
  BY DEF DaemonInit, RuntimeInit, Untouched, Supervisor, NoRun
<1> QED BY <1>3, <1>4, <1>5 DEF RuntimeInvariant

\* The steps of the daemon that leave both supervisors alone.
Quiet == UNCHANGED <<server, procs, serverJob, browser, browserJob, pin>>

\* Such a step keeps what is known of both.
LEMMA QuietKeeps ==
    ASSUME ServerInvariant, BrowserInvariant, Quiet
    PROVE  ServerInvariant' /\ BrowserInvariant'
BY DEF Quiet, ServerInvariant, BrowserInvariant

\* A run touches the runtime only through ensureReady.
LEMMA RunSteps ==
    ASSUME NEW r \in Runs,
           submit(r) \/ cancel(r) \/ drop(r) \/ browse(r) \/ runStep(r)
    PROVE  /\ Quiet \/ ensureReady(r)
           /\ host # "off" \/ run[r].at # "off"
<1>1. CASE submit(r) \/ cancel(r) \/ drop(r) \/ browse(r) \/ reserveRun(r)
            \/ collectChangeSet(r) \/ beforeHash(r) \/ watchSources(r) \/ dryRunRefused(r)
            \/ batchThrows(r) \/ afterHash(r) \/ recollect(r) \/ finalize(r)
  BY <1>1 DEF submit, cancel, drop, browse, reserveRun, collectChangeSet,
       beforeHash, watchSources, dryRunRefused, batchThrows, afterHash, recollect, finalize,
       Becomes, runtimeVars, Quiet, Active
<1>2. CASE dryRunCandidate(r) \/ watchThenEnsure(r)
  BY <1>2 DEF dryRunCandidate, watchThenEnsure
<1>3. CASE runtimeReady(r) \/ raceAbort(r) \/ runtimeUnchanged(r)
  BY <1>3 DEF runtimeReady, raceAbort, runtimeUnchanged, StopWaiting, Quiet
<1>4. CASE \E o \in {"passed", "regression"} : finishBatch(r, o)
  BY <1>4 DEF finishBatch, Becomes, runtimeVars, Quiet
<1> QED BY <1>1, <1>2, <1>3, <1>4 DEF runStep

\* Before the host starts, the only step is its start.
LEMMA OffStarts ==
    ASSUME RuntimeInvariant, host = "off", DaemonNext
    PROVE  startHost
<1>1. Untouched /\ ServerInvariant
  BY DEF RuntimeInvariant
<1>2. ~RuntimeStep /\ ~releaseCheckout
  BY <1>1, UntouchedRests
<1>3. \A r \in Runs :
        ~(submit(r) \/ cancel(r) \/ drop(r) \/ browse(r) \/ runStep(r))
  BY <1>1, RunSteps DEF Untouched
<1>4. \A v \in Versions : ~edit(v)
  BY <1>1 DEF edit, Untouched, Runs
<1>5. ~shutdown /\ ~hostStep
  BY DEF shutdown, hostStep, hostStarted, startFails, drained, stopDifferential,
       runtimeStopped, graceElapsed
<1> QED BY <1>2, <1>3, <1>4, <1>5 DEF DaemonNext

\* No step returns the host to its beginning.
LEMMA NeverOffAgain ==
    ASSUME DaemonNext, host # "off"
    PROVE  host' # "off"
<1>1. CASE \E r \in Runs :
             submit(r) \/ cancel(r) \/ drop(r) \/ browse(r) \/ runStep(r)
  <2> PICK r \in Runs :
             submit(r) \/ cancel(r) \/ drop(r) \/ browse(r) \/ runStep(r)
    BY <1>1
  <2>1. UNCHANGED host
    BY DEF submit, cancel, drop, browse, runStep, reserveRun, dryRunCandidate,
         collectChangeSet, beforeHash, watchSources, dryRunRefused, watchThenEnsure,
         runtimeReady, raceAbort, finishBatch, batchThrows, runtimeUnchanged,
         afterHash, recollect, finalize, Becomes, StopWaiting
  <2> QED BY <2>1
<1>2. CASE startHost \/ shutdown \/ hostStep
  BY <1>2 DEF startHost, shutdown, hostStep, hostStarted, startFails, drained,
       stopDifferential, runtimeStopped, graceElapsed
<1>3. CASE \E v \in Versions : edit(v)
  BY <1>3 DEF edit
<1>4. CASE UNCHANGED daemonVars
  BY <1>4 DEF daemonVars
<1> QED BY <1>1, <1>2, <1>3, <1>4 DEF DaemonNext

\* Every step of the daemon keeps the two supervisors' invariants.
LEMMA DaemonStep ==
    ASSUME RuntimeInvariant, DaemonNext
    PROVE  ServerInvariant' /\ BrowserInvariant'
<1> USE DEF RuntimeInvariant
<1>1. CASE \E r \in Runs :
             submit(r) \/ cancel(r) \/ drop(r) \/ browse(r) \/ runStep(r)
  <2> PICK r \in Runs :
             submit(r) \/ cancel(r) \/ drop(r) \/ browse(r) \/ runStep(r)
    BY <1>1
  <2>1. Quiet \/ ensureReady(r)
    BY RunSteps
  <2> QED BY <2>1, QuietKeeps, EnsureReady
<1>2. CASE startHost
  <2>1. Untouched /\ startRuntime(Host)
    BY <1>2 DEF startHost
  <2> QED BY <2>1, StartRuntime
<1>3. CASE shutdown \/ hostStarted \/ drained \/ runtimeStopped \/ graceElapsed
  <2>1. Quiet
    BY <1>3 DEF shutdown, hostStarted, drained, runtimeStopped, graceElapsed,
         runtimeVars, Quiet
  <2> QED BY <2>1, QuietKeeps
<1>4. CASE startFails \/ stopDifferential
  BY <1>4, StopRuntime DEF startFails, stopDifferential
<1>5. CASE \E v \in Versions : edit(v)
  <2>1. Quiet
    BY <1>5 DEF edit, runtimeVars, Quiet
  <2> QED BY <2>1, QuietKeeps
<1>6. CASE RuntimeStep
  BY <1>6, RuntimeSteps
<1>7. CASE checkout \/ releaseCheckout
  BY <1>7, Checkout
<1> QED BY <1>1, <1>2, <1>3, <1>4, <1>5, <1>6, <1>7 DEF DaemonNext, hostStep

\* The invariant is inductive.
LEMMA StepInvariant ==
    ASSUME RuntimeInvariant, [DaemonNext]_vars
    PROVE  RuntimeInvariant'
<1>1. CASE UNCHANGED vars
  BY <1>1 DEF vars, runtimeVars, daemonVars, RuntimeInvariant, ServerInvariant,
       BrowserInvariant, Untouched
<1>2. CASE DaemonNext
  <2>1. host' # "off"
    <3>1. CASE host = "off"
      BY <1>2, <3>1, OffStarts DEF startHost
    <3>2. CASE host # "off"
      BY <1>2, <3>2, NeverOffAgain
    <3> QED BY <3>1, <3>2
  <2> QED BY <1>2, <2>1, DaemonStep DEF RuntimeInvariant
<1> QED BY <1>1, <1>2

\* In every behaviour of verifyd its two supervisors agree with the processes
\* they own.
THEOREM RuntimeCorrect == DaemonSpec => []RuntimeInvariant
<1> QED BY InitInvariant, StepInvariant, PTL DEF DaemonSpec

----------------------------------------------------------------------------
(* What follows *)

\* Through any number of runs, recoveries, stops that time out and shutdowns,
\* the only app server process alive is the child that AppServerSupervisor
\* owns: none is spawned over another and none is forgotten.
THEOREM ServerOwnedCorrect == DaemonSpec => []ServerOwned
<1>1. RuntimeInvariant => ServerOwned
  BY DEF RuntimeInvariant, ServerInvariant, ServerOwned
<1> QED BY <1>1, RuntimeCorrect, PTL

\* Whatever transition or stop wrote it last, "ready" speaks of a child that
\* lives and of a connected Chromium.
THEOREM ReadyIsOwnedCorrect == DaemonSpec => []ReadyIsOwned
<1>1. RuntimeInvariant => ReadyIsOwned
  BY DEF RuntimeInvariant, ServerInvariant, BrowserInvariant, ReadyIsOwned
<1> QED BY <1>1, RuntimeCorrect, PTL

\* However many runs ask for the runtime, app server and Chromium are launched
\* once at the start and once more per recovery attempt.
THEOREM RecoveryBoundedCorrect == DaemonSpec => []RecoveryBounded
<1>1. RuntimeInvariant => RecoveryBounded
  BY DEF RuntimeInvariant, ServerInvariant, BrowserInvariant, RecoveryBounded
<1> QED BY <1>1, RuntimeCorrect, PTL

\* While a differential run holds its checkout, no run's ensureReady replaces
\* the Chromium that it pinned.
THEOREM CheckoutPinnedCorrect == DaemonSpec => []CheckoutPinned
<1>1. RuntimeInvariant => CheckoutPinned
  BY DEF RuntimeInvariant, BrowserInvariant, CheckoutPinned
<1> QED BY <1>1, RuntimeCorrect, PTL
=============================================================================
