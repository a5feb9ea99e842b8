--------------------------- MODULE VerifySingleton ---------------------------
(***************************************************************************)
(* The lease file and the socket file by which one verifyd process at a    *)
(* time owns a repository: acquireVerifySingleton, what the daemon host    *)
(* does between acquisition and release, and releaseVerifySingleton.       *)
(*                                                                         *)
(* Every system call on the two paths is a step, since other processes run *)
(* between any two of them.  A process has one owner token and one pid     *)
(* with one start identity, so the process itself stands for all three.    *)
(* The lease is created exclusively and written afterwards: in between it  *)
(* is a file that does not parse.  Ownership and mode checks of the files  *)
(* and of the runtime directory are left out: every process is of the same *)
(* user.                                                                   *)
(***************************************************************************)
EXTENDS Naturals, FiniteSets

CONSTANTS
    Procs,          \* verifyd processes, each started at most once
    MaxAttempts,    \* rounds of the acquisition loop, 3 in the code
    RacingRecovery, \* whether several processes may meet an abandoned lease
    NoProc

ASSUME SingletonAssumption ==
    /\ IsFiniteSet(Procs) /\ NoProc \notin Procs
    /\ MaxAttempts \in Nat \ {0}
    /\ RacingRecovery \in BOOLEAN

VARIABLES
    lease,  \* the file at leasePath: who created it, whether it is written,
            \* whether it is older than PARTIAL_LEASE_GRACE_MS
    sock,   \* the socket file at socketPath, by the process that bound it
    at,     \* the next step of each process
    saw,    \* `existing`: the owner read from the lease
    tries   \* `attempt`

singletonVars == <<lease, sock, at, saw, tries>>

\* Steps of acquireVerifySingleton, of the host, and of
\* releaseVerifySingleton.
Acquire == {"create", "write", "read", "age", "malformed_socket",
            "malformed_unlink", "inspect", "probe", "recheck",
            "stale_socket", "stale_read", "stale_unlink"}
Host == {"acquired", "serving", "stuck"}
Release == {"release_read", "release_socket", "release_reread",
            "release_unlink"}

LeaseFile == [owner : Procs \cup {NoProc}, written : BOOLEAN, old : BOOLEAN]
NoFile == [owner |-> NoProc, written |-> FALSE, old |-> FALSE]

SingletonTypeOK ==
    /\ lease \in LeaseFile
    /\ lease.owner = NoProc => lease = NoFile
    /\ sock \in Procs \cup {NoProc}
    /\ at \in [Procs -> {"off", "exited", "crashed"}
                           \cup Acquire \cup Host \cup Release]
    /\ saw \in [Procs -> Procs \cup {NoProc}]
    /\ tries \in [Procs -> 0 .. MaxAttempts]

SingletonInit ==
    /\ lease = NoFile /\ sock = NoProc
    /\ at = [p \in Procs |-> "off"]
    /\ saw = [p \in Procs |-> NoProc]
    /\ tries = [p \in Procs |-> 0]

Alive(p) == at[p] \notin {"off", "exited", "crashed"}
Acquiring == {p \in Procs : at[p] \in Acquire}
Owns(p) == at[p] \in Host

\* Several processes are acquiring while the lease belongs to a dead one.
Contended ==
    /\ lease.owner # NoProc /\ ~Alive(lease.owner)
    /\ Cardinality(Acquiring) > 1

Goto(p, step) == at' = [at EXCEPT ![p] = step]

\* readExistingLease: nothing for a missing file and for one that does not
\* parse.
Readable == lease.owner # NoProc /\ lease.written

----------------------------------------------------------------------------
(* acquireVerifySingleton *)

start(p) ==
    /\ at[p] = "off" /\ Goto(p, "create")
    /\ UNCHANGED <<lease, sock, saw, tries>>
    /\ RacingRecovery \/ ~Contended'

\* open(O_CREAT | O_EXCL)
createLease(p) ==
    /\ at[p] = "create"
    /\ IF lease.owner = NoProc
       THEN /\ lease' = [owner |-> p, written |-> FALSE, old |-> FALSE]
            /\ Goto(p, "write")
       ELSE Goto(p, "read") /\ UNCHANGED lease
    /\ UNCHANGED <<sock, saw, tries>>

\* writeFile, sync, close: they reach the file this process has open, also
\* when the path no longer leads to it.
writeLease(p) ==
    /\ at[p] = "write" /\ Goto(p, "acquired")
    /\ lease' = IF lease.owner = p THEN [lease EXCEPT !.written = TRUE]
                                   ELSE lease
    /\ UNCHANGED <<sock, saw, tries>>

readExistingLease(p) ==
    /\ at[p] = "read"
    /\ IF Readable
       THEN saw' = [saw EXCEPT ![p] = lease.owner] /\ Goto(p, "inspect")
       ELSE Goto(p, "age") /\ UNCHANGED saw
    /\ UNCHANGED <<lease, sock, tries>>

\* fileAge is 0 for a file that is gone by now.
fileAge_NoGrace(p) ==
    /\ at[p] = "age" /\ UNCHANGED <<lease, sock, saw, tries>>
    /\ IF lease.owner # NoProc THEN Goto(p, "malformed_socket")
                               ELSE Goto(p, "exited")
fileAge(p) ==
    /\ at[p] = "age" /\ UNCHANGED <<lease, sock, saw, tries>>
    /\ IF lease.owner # NoProc /\ lease.old THEN Goto(p, "malformed_socket")
                                            ELSE Goto(p, "exited")

\* `continue`, or the error after the last round.
NextAttempt(p) ==
    /\ tries' = [tries EXCEPT ![p] = @ + 1]
    /\ Goto(p, IF tries[p] + 1 < MaxAttempts THEN "create" ELSE "exited")

\* recoverMalformedLease, in two steps: the lease is unlinked whatever it
\* holds by then.
recoverMalformedSocket(p) ==
    /\ at[p] = "malformed_socket" /\ Goto(p, "malformed_unlink")
    /\ sock' = NoProc
    /\ UNCHANGED <<lease, saw, tries>>

recoverMalformedLease(p) ==
    /\ at[p] = "malformed_unlink"
    /\ lease' = NoFile /\ NextAttempt(p)
    /\ UNCHANGED <<sock, saw>>

\* The recorded process lives under the recorded start identity.
inspectOwner_Trusting(p) ==
    /\ at[p] = "inspect" /\ UNCHANGED <<lease, sock, saw, tries>>
    /\ Goto(p, "probe")
inspectOwner(p) ==
    /\ at[p] = "inspect" /\ UNCHANGED <<lease, sock, saw, tries>>
    /\ Goto(p, IF Alive(saw[p]) THEN "exited" ELSE "probe")

isSocketResponsive_Exists(p) ==
    /\ at[p] = "probe" /\ UNCHANGED <<lease, sock, saw, tries>>
    /\ Goto(p, IF sock # NoProc THEN "exited" ELSE "recheck")
isSocketResponsive(p) ==
    /\ at[p] = "probe" /\ UNCHANGED <<lease, sock, saw, tries>>
    /\ Goto(p, IF sock # NoProc /\ at[sock] = "serving" THEN "exited"
                                                        ELSE "recheck")

\* recoverOwnedStaleLease: read, remove the socket, read again, unlink.
recoverOwnedStaleLease(p) ==
    /\ at[p] = "recheck"
    /\ IF Readable /\ lease.owner = saw[p]
       THEN Goto(p, "stale_socket") /\ UNCHANGED tries
       ELSE NextAttempt(p)
    /\ UNCHANGED <<lease, sock, saw>>

removeStaleSocket_Skipped(p) ==
    /\ at[p] = "stale_socket" /\ Goto(p, "stale_read")
    /\ UNCHANGED <<lease, sock, saw, tries>>
\* removeOwnedSocket: a missing socket ends both of its calls, lstat and unlink,
\* alike, so it acts when the unlink does, or when lstat finds nothing.
removeStaleSocket(p) ==
    /\ at[p] = "stale_socket" /\ Goto(p, "stale_read")
    /\ sock' = NoProc
    /\ UNCHANGED <<lease, saw, tries>>

removeIfOwned(p) ==
    /\ at[p] = "stale_read"
    /\ IF Readable /\ lease.owner = saw[p]
       THEN Goto(p, "stale_unlink") /\ UNCHANGED tries
       ELSE NextAttempt(p)
    /\ UNCHANGED <<lease, sock, saw>>

unlinkStale_Emptied(p) ==
    /\ at[p] = "stale_unlink"
    /\ lease' = [lease EXCEPT !.owner = NoProc] /\ NextAttempt(p)
    /\ UNCHANGED <<sock, saw>>
unlinkStale(p) ==
    /\ at[p] = "stale_unlink"
    /\ lease' = NoFile /\ NextAttempt(p)
    /\ UNCHANGED <<sock, saw>>

----------------------------------------------------------------------------
(* VerificationDaemonHost, and releaseVerifySingleton *)

\* The runtime is warm and the server listens; binding fails on any file at
\* the path.
listenVerifyIpcServer(p) ==
    /\ at[p] = "acquired"
    /\ IF sock = NoProc THEN sock' = p /\ Goto(p, "serving")
                        ELSE Goto(p, "release_read") /\ UNCHANGED sock
    /\ UNCHANGED <<lease, saw, tries>>

\* The runtime does not start: the lease is released, or kept when the
\* daemon cannot be stopped either.
startFails(p) ==
    /\ at[p] = "acquired"
    /\ Goto(p, "release_read") \/ Goto(p, "stuck")
    /\ UNCHANGED <<lease, sock, saw, tries>>

\* Closing a server unlinks the path it was bound to.
stop(p) ==
    /\ at[p] = "serving" /\ Goto(p, "release_read")
    /\ sock' = NoProc
    /\ UNCHANGED <<lease, saw, tries>>

\* releaseVerifySingleton: read, remove the socket, read again, unlink.
releaseRead(p) ==
    /\ at[p] = "release_read"
    /\ Goto(p, IF Readable /\ lease.owner = p THEN "release_socket"
                                              ELSE "exited")
    /\ UNCHANGED <<lease, sock, saw, tries>>

releaseSocket(p) ==
    /\ at[p] = "release_socket" /\ Goto(p, "release_reread")
    /\ sock' = NoProc
    /\ UNCHANGED <<lease, saw, tries>>

releaseReread(p) ==
    /\ at[p] = "release_reread"
    /\ Goto(p, IF Readable /\ lease.owner = p THEN "release_unlink"
                                              ELSE "exited")
    /\ UNCHANGED <<lease, sock, saw, tries>>

releaseUnlink(p) ==
    /\ at[p] = "release_unlink" /\ Goto(p, "exited")
    /\ lease' = NoFile
    /\ UNCHANGED <<sock, saw, tries>>

----------------------------------------------------------------------------
(* The environment *)

\* PARTIAL_LEASE_GRACE_MS pass over a lease that is not written: its creator
\* is dead, since a living one is assumed to write it within that time.
ageLease ==
    /\ lease.owner # NoProc /\ ~lease.written /\ ~lease.old
    /\ ~Alive(lease.owner)
    /\ lease' = [lease EXCEPT !.old = TRUE]
    /\ UNCHANGED <<sock, at, saw, tries>>

\* A process is killed at any point; its files stay.
crash(p) ==
    /\ Alive(p) /\ Goto(p, "crashed")
    /\ UNCHANGED <<lease, sock, saw, tries>>
    /\ RacingRecovery \/ ~Contended'

acquireStep(p) ==
    \/ createLease(p) \/ writeLease(p) \/ readExistingLease(p) \/ fileAge(p)
    \/ recoverMalformedSocket(p) \/ recoverMalformedLease(p)
    \/ inspectOwner(p) \/ isSocketResponsive(p) \/ recoverOwnedStaleLease(p)
    \/ removeStaleSocket(p) \/ removeIfOwned(p) \/ unlinkStale(p)
releaseStep(p) ==
    \/ releaseRead(p) \/ releaseSocket(p)
    \/ releaseReread(p) \/ releaseUnlink(p)

SingletonNext ==
    \/ ageLease
    \/ \E p \in Procs :
          \/ start(p) \/ acquireStep(p)
          \/ listenVerifyIpcServer(p) \/ startFails(p) \/ stop(p)
          \/ releaseStep(p) \/ crash(p)

SingletonSpec == SingletonInit /\ [][SingletonNext]_singletonVars

\* A process that is not killed goes on with what it has begun; nobody has to
\* start or to stop a daemon.
FairSingletonSpec ==
    /\ SingletonSpec
    /\ \A p \in Procs : WF_singletonVars(acquireStep(p) \/ releaseStep(p))

----------------------------------------------------------------------------
(* Properties *)

\* A process that acquireVerifySingleton returned to, and that has not begun
\* to release, is the one the complete lease file names: no recovery and no
\* late write of another process takes its place.
OwnerHoldsLease ==
    \A p \in Procs : Owns(p) => lease.owner = p /\ lease.written

\* At most one daemon hosts the repository.
OneOwner == \A p, q \in Procs : Owns(p) /\ Owns(q) => p = q

\* A socket file always belongs to the process that the lease names, so
\* recovering the lease finds every socket left behind and the next owner
\* finds the path free.
SocketNamesOwner == sock # NoProc => lease.owner = sock /\ lease.written

\* The lease of a living process is removed by that process alone, in the
\* last step of releaseVerifySingleton, also while others try to acquire it.
LiveLeaseKept ==
    [][\A p \in Procs :
          lease.owner = p /\ Alive(p) /\ lease'.owner # p
            => at[p] = "release_unlink" /\ at'[p] = "exited"]_singletonVars

\* Whatever its predecessors left behind when they were killed, the only
\* process around gets the lease within its three rounds, unless it meets a
\* lease that was created a moment ago and not written.
StaleLeaseRecovered ==
    \A p \in Procs :
        (/\ at[p] = "create" /\ tries[p] + 1 < MaxAttempts
         /\ \A q \in Procs \ {p} : at[q] \in {"exited", "crashed"}
         /\ lease.owner = NoProc \/ lease.written \/ lease.old)
          ~> (Owns(p) \/ at[p] = "crashed")
=============================================================================
