----------------------------- MODULE WarmRuntime -----------------------------
(***************************************************************************)
(* The supervisors of verifyd's app server and Chromium, and the warm      *)
(* runtime that starts, revives and stops the two together.                *)
(*                                                                         *)
(* Each supervisor runs at most one transition at a time; callers of       *)
(* ensureReady join the one in flight.  A transition's awaits are the      *)
(* values of serverJob and browserJob: everything happens between them.    *)
(* stop() is not a transition and does not wait for one.  The exit event   *)
(* of a process and the promises it settles are one step of the event loop.*)
(*                                                                         *)
(* Processes of the app server are named by the generation that launched   *)
(* them.  restart() has no caller and is left out, and with it             *)
(* everStarted: the daemon calls start() once, before any ensureReady().   *)
(* intentionallyStopping holds while a stop() awaits an exit.              *)
(***************************************************************************)
EXTENDS Naturals, FiniteSets

CONSTANTS
    Waiters,      \* callers of start and ensureReady
    MaxRecovery   \* maxRecoveryAttempts, 0 or 1

ASSUME RuntimeAssumption == IsFiniteSet(Waiters) /\ MaxRecovery \in {0, 1}

VARIABLES
    server,     \* AppServerSupervisor
    procs,      \* generations of the app server's processes that live
    serverJob,  \* what its transition in flight awaits
    browser,    \* WarmChromiumSupervisor
    browserJob, \* whether its transition in flight awaits launchBrowser
    pin,        \* generation of the differential checkout, 0 for none
    waits,      \* per caller: transitions it awaits, whether one failed
    stopAt      \* where WarmRuntimeSupervisor.stop is

runtimeVars ==
    <<server, procs, serverJob, browser, browserJob, pin, waits, stopAt>>

States ==
    {"stopped", "starting", "ready", "unhealthy", "recovering", "locked"}
Parts == {"server", "browser"}
Generations == 0 .. MaxRecovery + 1
ServerJobs == {"idle", "probe", "recover_stop", "listen", "settle",
               "launch_stop"}
Waiting == [on : SUBSET Parts, bad : BOOLEAN]
NoWait == [on |-> {}, bad |-> FALSE]

RuntimeTypeOK ==
    /\ server \in [state : States, owned : BOOLEAN, gen : Generations,
                   attempts : 0 .. MaxRecovery]
    /\ procs \subseteq Generations \ {0}
    /\ serverJob \in ServerJobs
    /\ browser \in [state : States, owned : BOOLEAN, gen : Generations,
                    attempts : 0 .. MaxRecovery]
    /\ browserJob \in BOOLEAN
    /\ pin \in Generations
    /\ waits \in [Waiters -> Waiting]
    /\ stopAt \in {"none", "browser", "server", "done", "failed"}

Supervisor == [state |-> "stopped", owned |-> FALSE, gen |-> 0,
               attempts |-> 0]

RuntimeInit ==
    /\ server = Supervisor /\ procs = {} /\ serverJob = "idle"
    /\ browser = Supervisor /\ browserJob = FALSE
    /\ pin = 0
    /\ waits = [w \in Waiters |-> NoWait]
    /\ stopAt = "none"

\* WarmRuntimeSupervisor.health: an owned browser is a connected one.
Warm == server.state = "ready" /\ browser.state = "ready" /\ browser.owned

\* The promise of the transition settles for everyone who joined it.
Settle(part, ok) ==
    waits' = [w \in Waiters |->
                IF part \in waits[w].on
                THEN [on |-> waits[w].on \ {part}, bad |-> waits[w].bad \/ ~ok]
                ELSE waits[w]]

\* The end of recover(): a failure locks the supervisor.
Failed(s, state) ==
    [s EXCEPT !.state = IF s.attempts > 0 THEN "locked" ELSE state]

\* The state after an exit or a disconnect that nobody asked for.
Unexpected(s) == IF s.attempts >= MaxRecovery THEN "locked" ELSE "unhealthy"

----------------------------------------------------------------------------
(* start and ensureReady up to their first await *)

recover_Unbounded(s) ==
    [sup |-> s, job |-> IF s.owned THEN "recover_stop" ELSE "listen"]

\* AppServerSupervisor.recover: stops a child it still owns, then launches.
recover(s) ==
    IF s.state = "locked" \/ s.attempts >= MaxRecovery
    THEN [sup |-> [s EXCEPT !.state = "locked"], job |-> "idle"]
    ELSE [sup |-> [s EXCEPT !.attempts = @ + 1],
          job |-> IF s.owned THEN "recover_stop" ELSE "listen"]

ensureServer ==
    IF serverJob # "idle" THEN [sup |-> server, job |-> serverJob]
    ELSE IF server.state = "ready" /\ server.owned
         THEN [sup |-> server, job |-> "probe"]
         ELSE recover(server)

recoverBrowser_Retries(b) ==
    IF pin # 0 THEN [sup |-> b, job |-> FALSE]
    ELSE [sup |-> [b EXCEPT !.attempts = @ + 1, !.state = "recovering"],
          job |-> TRUE]
recoverBrowser_Unpinned(b) ==
    IF b.state = "locked" \/ b.attempts >= MaxRecovery
    THEN [sup |-> [b EXCEPT !.state = "locked"], job |-> FALSE]
    ELSE [sup |-> [b EXCEPT !.attempts = @ + 1, !.state = "recovering"],
          job |-> TRUE]

\* WarmChromiumSupervisor.recover refuses while a checkout is held.
recoverBrowser(b) ==
    IF pin # 0 THEN [sup |-> b, job |-> FALSE]
    ELSE IF b.state = "locked" \/ b.attempts >= MaxRecovery
    THEN [sup |-> [b EXCEPT !.state = "locked"], job |-> FALSE]
    ELSE [sup |-> [b EXCEPT !.attempts = @ + 1, !.state = "recovering"],
          job |-> TRUE]

ensureBrowser ==
    IF browserJob \/ (browser.state = "ready" /\ browser.owned)
    THEN [sup |-> browser, job |-> browserJob]
    ELSE recoverBrowser(browser)

\* The two supervisors are called in one step; a refusal settles at once.
ensureReady(w) ==
    LET s == ensureServer
        b == ensureBrowser
        on == (IF s.job # "idle" THEN {"server"} ELSE {})
                \cup (IF b.job THEN {"browser"} ELSE {})
    IN /\ server' = s.sup /\ serverJob' = s.job
       /\ browser' = b.sup /\ browserJob' = b.job
       /\ waits' = [waits EXCEPT ![w] =
                     [on |-> on,
                      bad |-> s.job = "idle"
                                \/ (~b.job /\ b.sup.state # "ready")]]
       /\ UNCHANGED <<procs, pin, stopAt>>

\* The daemon's only start(): both supervisors launch for the first time.
startRuntime(w) ==
    /\ serverJob' = "listen" /\ browserJob' = TRUE
    /\ browser' = [browser EXCEPT !.state = "starting"]
    /\ waits' = [waits EXCEPT ![w] = [on |-> Parts, bad |-> FALSE]]
    /\ UNCHANGED <<server, procs, pin, stopAt>>

----------------------------------------------------------------------------
(* The app server's transition *)

\* probeReadiness of a server taken for ready; the answer may be older than
\* the server's exit.
probeReadiness ==
    /\ serverJob = "probe" /\ UNCHANGED <<procs, browser, browserJob, pin, stopAt>>
    /\ \/ /\ Settle("server", TRUE)
          /\ serverJob' = "idle" /\ UNCHANGED server
       \/ LET r == recover([server EXCEPT !.state = "unhealthy"])
          IN /\ server' = r.sup /\ serverJob' = r.job
             /\ IF r.job = "idle" THEN Settle("server", FALSE)
                                  ELSE UNCHANGED waits

\* probeListener finds the port free and the process is spawned.
launchServer ==
    /\ serverJob = "listen" /\ serverJob' = "settle"
    /\ server' = [server EXCEPT
                    !.state = IF server.attempts > 0 THEN "recovering"
                                                     ELSE "starting",
                    !.owned = TRUE, !.gen = @ + 1]
    /\ procs' = procs \cup {server.gen + 1}
    /\ UNCHANGED <<browser, browserJob, pin, waits, stopAt>>

\* A foreign listener, or a command that cannot be spawned.
launchRefused ==
    /\ serverJob = "listen" /\ serverJob' = "idle"
    /\ server' = Failed(server, "unhealthy") /\ Settle("server", FALSE)
    /\ UNCHANGED <<procs, browser, browserJob, pin, stopAt>>

serverSettled_Unchecked ==
    /\ serverJob = "settle"
    /\ server' = [server EXCEPT !.state = "ready"]
    /\ serverJob' = "idle" /\ Settle("server", TRUE)
    /\ UNCHANGED <<procs, browser, browserJob, pin, stopAt>>

\* waitUntilSettled returns and the child is still the one launched.
serverSettled ==
    /\ serverJob = "settle" /\ server.owned
    /\ server' = [server EXCEPT !.state = "ready"]
    /\ serverJob' = "idle" /\ Settle("server", TRUE)
    /\ UNCHANGED <<procs, browser, browserJob, pin, stopAt>>

\* The child is gone, or did not settle in startupTimeoutMs and is stopped.
serverNotReady ==
    /\ serverJob = "settle" /\ UNCHANGED <<procs, browser, browserJob, pin, stopAt>>
    /\ IF server.owned
       THEN serverJob' = "launch_stop" /\ UNCHANGED <<server, waits>>
       ELSE /\ serverJob' = "idle" /\ Settle("server", FALSE)
            /\ server' = Failed(server, "stopped")

----------------------------------------------------------------------------
(* Exits, and stop() *)

\* The exit event: the handler of attachChild, then whoever awaits the exit
\* in stop(): the transition, which goes on to launch or to fail, and the
\* runtime's own stop.
serverExits(g) ==
    /\ g \in procs /\ procs' = procs \ {g}
    /\ LET gone == [server EXCEPT !.owned = FALSE]
       IN server' =
            IF serverJob = "launch_stop" THEN Failed(gone, "stopped")
            ELSE IF serverJob = "recover_stop" \/ stopAt = "server"
                 THEN [gone EXCEPT !.state = "stopped"]
                 ELSE [gone EXCEPT !.state = Unexpected(server)]
    /\ serverJob' = CASE serverJob = "recover_stop" -> "listen"
                      [] serverJob = "launch_stop" -> "idle"
                      [] OTHER -> serverJob
    /\ IF serverJob = "launch_stop" THEN Settle("server", FALSE)
                                    ELSE UNCHANGED waits
    /\ stopAt' = IF stopAt = "server" THEN "done" ELSE stopAt
    /\ UNCHANGED <<browser, browserJob, pin>>

\* Neither SIGTERM nor SIGKILL brings the exit in time: the transition fails
\* with shutdown_timeout, the process stays owned.
transitionStopTimeout_Forgets ==
    /\ serverJob \in {"recover_stop", "launch_stop"}
    /\ serverJob' = "idle" /\ Settle("server", FALSE)
    /\ server' = Failed([server EXCEPT !.owned = FALSE], "unhealthy")
    /\ UNCHANGED <<procs, browser, browserJob, pin, stopAt>>
transitionStopTimeout ==
    /\ serverJob \in {"recover_stop", "launch_stop"}
    /\ serverJob' = "idle" /\ Settle("server", FALSE)
    /\ server' = Failed(server, "unhealthy")
    /\ UNCHANGED <<procs, browser, browserJob, pin, stopAt>>

\* AppServerSupervisor.stop, called by the runtime's stop.
StopServer ==
    IF server.owned
    THEN stopAt' = "server" /\ UNCHANGED server
    ELSE server' = [server EXCEPT !.state = "stopped"] /\ stopAt' = "done"

\* WarmRuntimeSupervisor.stop: the browser first.
stopRuntime ==
    /\ stopAt = "none"
    /\ IF browser.owned
       THEN stopAt' = "browser" /\ UNCHANGED <<browser, server>>
       ELSE /\ browser' = [browser EXCEPT !.state = "stopped"]
            /\ StopServer
    /\ UNCHANGED <<procs, serverJob, browserJob, pin, waits>>

\* What is owned now is what was closed: a stop that found Chromium owned runs
\* with no run left to launch another one.
browserClosed ==
    /\ stopAt = "browser"
    /\ browser' = [browser EXCEPT !.state = "stopped", !.owned = FALSE]
    /\ StopServer
    /\ UNCHANGED <<procs, serverJob, browserJob, pin, waits>>

\* close() fails, or succeeds and leaves the browser connected.
browserCloseFails ==
    /\ stopAt = "browser" /\ stopAt' = "failed"
    /\ browser' = [browser EXCEPT !.state = IF browser.owned THEN "ready" ELSE @]
    /\ UNCHANGED <<server, procs, serverJob, browserJob, pin, waits>>

runtimeStopTimeout ==
    /\ stopAt = "server" /\ stopAt' = "failed"
    /\ server' = [server EXCEPT !.state = "unhealthy"]
    /\ UNCHANGED <<procs, serverJob, browser, browserJob, pin, waits>>

----------------------------------------------------------------------------
(* Chromium *)

\* launchBrowser resolves, whatever has happened since it was called.
launchBrowser ==
    /\ browserJob /\ browserJob' = FALSE
    /\ browser' = [browser EXCEPT !.state = "ready", !.owned = TRUE,
                                  !.gen = @ + 1]
    /\ Settle("browser", TRUE)
    /\ UNCHANGED <<server, procs, serverJob, pin, stopAt>>

launchBrowserFails ==
    /\ browserJob /\ browserJob' = FALSE
    /\ browser' = Failed(browser, "unhealthy")
    /\ Settle("browser", FALSE)
    /\ UNCHANGED <<server, procs, serverJob, pin, stopAt>>

browserDisconnected ==
    /\ browser.owned
    /\ browser' = [browser EXCEPT !.owned = FALSE,
                     !.state = IF stopAt = "browser" THEN "stopped"
                               ELSE Unexpected(browser)]
    /\ UNCHANGED <<server, procs, serverJob, browserJob, pin, waits, stopAt>>

\* currentBrowser and checkout, for one differential run at a time.
checkout ==
    /\ pin = 0 /\ browser.state = "ready" /\ browser.owned
    /\ pin' = browser.gen
    /\ UNCHANGED <<server, procs, serverJob, browser, browserJob, waits, stopAt>>

releaseCheckout ==
    /\ pin # 0 /\ pin' = 0
    /\ UNCHANGED <<server, procs, serverJob, browser, browserJob, waits, stopAt>>

RuntimeStep ==
    \/ probeReadiness \/ launchServer \/ launchRefused
    \/ serverSettled \/ serverNotReady \/ transitionStopTimeout
    \/ \E g \in Generations : serverExits(g)
    \/ browserClosed \/ browserCloseFails \/ runtimeStopTimeout
    \/ launchBrowser \/ launchBrowserFails \/ browserDisconnected

----------------------------------------------------------------------------
(* Properties *)

\* verifyd never loses track of a process it started: at every moment the
\* only app server process alive is the child it owns, through recoveries,
\* stops that time out and stops that overlap a transition.
ServerOwned == procs \subseteq (IF server.owned THEN {server.gen} ELSE {})

\* "ready" is never a stale answer: the child it speaks of lives and the
\* browser is connected, whatever transition or stop wrote the state last.
ReadyIsOwned ==
    /\ server.state = "ready" => server.owned /\ server.gen \in procs
    /\ browser.state = "ready" => browser.owned

\* A server or browser that keeps dying is launched once more at most per
\* recovery attempt, however many callers ask for it.
RecoveryBounded ==
    /\ server.gen <= 1 + server.attempts
    /\ browser.gen <= 1 + browser.attempts

\* While a differential run holds its checkout, no other caller's recovery
\* replaces the browser generation that it pinned.
CheckoutPinned == pin # 0 => browser.gen = pin
=============================================================================
