------------------------ MODULE VerifySingletonProofs ------------------------
(***************************************************************************)
(* Who may hold and who may remove the lease of a repository, for any      *)
(* number of verifyd processes and of rounds.                              *)
(*                                                                         *)
(* The types hold in every behaviour.  The rest needs that no two          *)
(* processes meet one abandoned lease (~RacingRecovery): then a process    *)
(* that found the owner dead is the only one acquiring, so what it read is *)
(* still true when it unlinks.                                             *)
(***************************************************************************)
EXTENDS VerifySingleton, FiniteSetTheorems, TLAPS

\* A process that still acquires has a round left.
RoundsLeft ==
    \A p \in Procs : at[p] \in Acquire \cup {"off"} => tries[p] < MaxAttempts

TypeInvariant == SingletonTypeOK /\ RoundsLeft

\* An abandoned lease is met by one process at most.
Uncontended ==
    lease.owner # NoProc /\ ~Alive(lease.owner)
      => \A p, q \in Procs : at[p] \in Acquire /\ at[q] \in Acquire => p = q

\* The file at leasePath belongs to whoever believes so, and only a lease
\* whose creator died before writing it grows old.
LeaseHeld ==
    /\ \A p \in Procs :
          /\ at[p] = "write" => lease.owner = p /\ ~lease.written
          /\ at[p] \in Host \cup Release => lease.owner = p /\ lease.written
          /\ lease.owner = p
               => at[p] \in {"write", "exited", "crashed"} \cup Host \cup Release
    /\ lease.old => ~lease.written /\ ~Alive(lease.owner)

\* What a recovering process has found out is still so.
Findings ==
    \A p \in Procs :
        /\ at[p] \in {"malformed_socket", "malformed_unlink"} => lease.old
        /\ at[p] = "inspect" => saw[p] \in Procs /\ at[saw[p]] # "off"
        /\ at[p] \in {"probe", "recheck", "stale_socket", "stale_read",
                      "stale_unlink"}
             => saw[p] \in Procs /\ at[saw[p]] \in {"exited", "crashed"}
        /\ at[p] \in {"stale_socket", "stale_read", "stale_unlink"}
             => lease.owner = saw[p]

\* Whoever is about to unlink the lease has removed the socket before.
SocketGone ==
    /\ sock # NoProc => lease.owner = sock /\ lease.written
    /\ \A p \in Procs :
          at[p] \in {"stale_read", "stale_unlink", "release_reread",
                     "release_unlink"} => sock = NoProc

SingletonInvariant ==
    TypeInvariant /\ Uncontended /\ LeaseHeld /\ Findings /\ SocketGone

----------------------------------------------------------------------------
(* The types of the files, the steps and the rounds *)

\* At the start there are no files, and no process runs.
LEMMA InitType ==
    ASSUME SingletonInit
    PROVE  TypeInvariant
  BY SingletonAssumption
     DEF SingletonInit, TypeInvariant, SingletonTypeOK, RoundsLeft, LeaseFile,
         NoFile, Acquire

\* Every step keeps the types, whoever else is acquiring.
LEMMA StepType ==
    ASSUME TypeInvariant, [SingletonNext]_singletonVars
    PROVE  TypeInvariant'
<1> USE SingletonAssumption
    DEF TypeInvariant, SingletonTypeOK, RoundsLeft, LeaseFile, NoFile, Goto,
        Acquire, Host, Release
<1>1. CASE ageLease
  BY <1>1 DEF ageLease
<1>2. ASSUME NEW p \in Procs, start(p)
      PROVE  TypeInvariant'
  BY <1>2 DEF start
<1>3. ASSUME NEW p \in Procs, acquireStep(p)
      PROVE  TypeInvariant'
  <2>1. CASE createLease(p) \/ writeLease(p)
    <3>1. lease' \in LeaseFile /\ (lease'.owner = NoProc => lease' = NoFile)
      <4>1. CASE lease' = lease
        BY <4>1
      <4>2. CASE lease' = [owner |-> p, written |-> FALSE, old |-> FALSE]
        BY <4>2
      <4>3. CASE lease.owner = p /\ lease' = [lease EXCEPT !.written = TRUE]
        BY <4>3
      <4> QED BY <2>1, <4>1, <4>2, <4>3 DEF createLease, writeLease
    <3>2. \E step \in {"write", "read", "acquired"} : Goto(p, step)
      BY <2>1 DEF createLease, writeLease
    <3>3. UNCHANGED <<sock, saw, tries>> /\ at[p] \in Acquire
      BY <2>1 DEF createLease, writeLease
    <3> HIDE DEF LeaseFile, NoFile
    <3> QED BY <3>1, <3>2, <3>3
  <2>2. CASE readExistingLease(p)
    BY <2>2 DEF readExistingLease, Readable
  <2>3. CASE fileAge(p) \/ recoverMalformedSocket(p) \/ inspectOwner(p)
             \/ isSocketResponsive(p) \/ removeStaleSocket(p)
    BY <2>3 DEF fileAge, recoverMalformedSocket, inspectOwner,
         isSocketResponsive, removeStaleSocket
  <2>4. CASE recoverMalformedLease(p) \/ unlinkStale(p)
    <3>1. lease' = NoFile /\ NextAttempt(p) /\ UNCHANGED <<sock, saw>>
      BY <2>4 DEF recoverMalformedLease, unlinkStale
    <3>2. at[p] \in Acquire
      BY <2>4 DEF recoverMalformedLease, unlinkStale
    <3> QED BY <3>1, <3>2 DEF NextAttempt
  <2>5. CASE recoverOwnedStaleLease(p) \/ removeIfOwned(p)
    BY <2>5 DEF recoverOwnedStaleLease, removeIfOwned, NextAttempt
  <2> QED BY <1>3, <2>1, <2>2, <2>3, <2>4, <2>5 DEF acquireStep
<1>4. ASSUME NEW p \in Procs,
             listenVerifyIpcServer(p) \/ startFails(p) \/ stop(p)
      PROVE  TypeInvariant'
  BY <1>4 DEF listenVerifyIpcServer, startFails, stop
<1>5. ASSUME NEW p \in Procs, releaseStep(p)
      PROVE  TypeInvariant'
  <2>1. lease' \in {lease, NoFile} /\ sock' \in {sock, NoProc}
    BY <1>5 DEF releaseStep, releaseRead, releaseSocket, releaseReread, releaseUnlink
  <2>2. \E step \in {"release_socket", "release_reread", "release_unlink", "exited"} :
            Goto(p, step)
    BY <1>5 DEF releaseStep, releaseRead, releaseSocket, releaseReread, releaseUnlink
  <2>3. UNCHANGED <<saw, tries>>
    BY <1>5 DEF releaseStep, releaseRead, releaseSocket, releaseReread, releaseUnlink
  <2>4. at[p] \in Release /\ NoFile \in LeaseFile
    BY <1>5 DEF releaseStep, releaseRead, releaseSocket, releaseReread, releaseUnlink
  <2> HIDE DEF LeaseFile, NoFile
  <2> QED BY <2>1, <2>2, <2>3, <2>4
<1>6. ASSUME NEW p \in Procs, crash(p)
      PROVE  TypeInvariant'
  BY <1>6 DEF crash
<1>7. CASE UNCHANGED singletonVars
  BY <1>7 DEF singletonVars
<1> QED BY <1>1, <1>2, <1>3, <1>4, <1>5, <1>6, <1>7 DEF SingletonNext

\* The lease file is whole or absent, and no process begins a round beyond the
\* last one of the acquisition loop.
THEOREM SingletonTypeCorrect == SingletonSpec => []SingletonTypeOK
<1>1. SingletonInit => TypeInvariant
  BY InitType
<1>2. TypeInvariant /\ [SingletonNext]_singletonVars => TypeInvariant'
  BY StepType
<1>3. TypeInvariant => SingletonTypeOK
  BY DEF TypeInvariant
<1> QED BY <1>1, <1>2, <1>3, PTL DEF SingletonSpec

----------------------------------------------------------------------------
(* Ownership, when processes do not race for an abandoned lease *)

\* A set of at most one process.
LEMMA AtMostOne ==
    ASSUME NEW S \in SUBSET Procs, ~(Cardinality(S) > 1)
    PROVE  \A p, q \in S : p = q
<1>1. IsFiniteSet(S)
  BY SingletonAssumption, FS_Subset
<1>2. Cardinality(S) \in Nat
  BY <1>1, FS_CardinalityType
<1>3. Cardinality(S) = 0 \/ Cardinality(S) = 1
  BY <1>2
<1>4. CASE Cardinality(S) = 0
  BY <1>1, <1>4, FS_EmptySet
<1>5. CASE Cardinality(S) = 1
  BY <1>1, <1>5, FS_Singleton
<1> QED BY <1>3, <1>4, <1>5

\* What the environment leaves out: a process that starts to acquire, or
\* dies, does not make two of them meet an abandoned lease.
LEMMA NotContended ==
    ASSUME ~Contended'
    PROVE  Uncontended'
<1>1. Acquiring' \in SUBSET Procs
  BY DEF Acquiring
<1>2. ASSUME ~(Cardinality(Acquiring') > 1)
      PROVE  \A p, q \in Acquiring' : p = q
  BY <1>1, <1>2, AtMostOne
<1> QED BY <1>2 DEF Uncontended, Contended, Acquiring

\* At the start there are no files.
LEMMA InitOwnership ==
    ASSUME SingletonInit
    PROVE  SingletonInvariant
  BY InitType, SingletonAssumption
     DEF SingletonInit, SingletonInvariant, Uncontended, LeaseHeld, Findings,
         SocketGone, NoFile, Acquire, Host, Release

\* A process that recovers a lease has found its owner dead and is the only
\* one acquiring; a process that releases finds its own token in the lease,
\* which nobody recovers while it lives.  So no step takes the files of a
\* living process away.
LEMMA StepOwnership ==
    ASSUME SingletonInvariant, ~RacingRecovery, [SingletonNext]_singletonVars
    PROVE  SingletonInvariant'
<1>0. TypeInvariant'
  BY StepType DEF SingletonInvariant
<1> USE SingletonAssumption
    DEF SingletonInvariant, TypeInvariant, SingletonTypeOK, Uncontended,
        LeaseHeld, Findings, SocketGone, NoFile, Goto, Alive, LeaseFile,
        Acquire, Host, Release
<1>1. CASE ageLease
  BY <1>0, <1>1 DEF ageLease
<1>2. ASSUME NEW p \in Procs, start(p) \/ crash(p)
      PROVE  SingletonInvariant'
  <2>1. Uncontended'
    <3> HIDE DEF Uncontended
    <3> QED BY <1>2, NotContended DEF start, crash
  <2>2. LeaseHeld' /\ Findings' /\ SocketGone'
    BY <1>2 DEF start, crash
  <2> QED BY <1>0, <2>1, <2>2
<1>3. CASE UNCHANGED singletonVars
  <2>1. Uncontended'
    BY <1>3 DEF singletonVars
  <2>2. LeaseHeld' /\ Findings' /\ SocketGone'
    BY <1>3 DEF singletonVars
  <2> QED BY <1>0, <2>1, <2>2
<1>4. ASSUME NEW p \in Procs, createLease(p)
      PROVE  SingletonInvariant'
  BY <1>0, <1>4 DEF createLease
<1>5. ASSUME NEW p \in Procs, writeLease(p)
      PROVE  SingletonInvariant'
  BY <1>0, <1>5 DEF writeLease
<1>6. ASSUME NEW p \in Procs, readExistingLease(p)
      PROVE  SingletonInvariant'
  BY <1>0, <1>6 DEF readExistingLease, Readable
<1>7. ASSUME NEW p \in Procs, fileAge(p)
      PROVE  SingletonInvariant'
  BY <1>0, <1>7 DEF fileAge
<1>8. ASSUME NEW p \in Procs, recoverMalformedSocket(p)
      PROVE  SingletonInvariant'
  BY <1>0, <1>8 DEF recoverMalformedSocket
<1>9. ASSUME NEW p \in Procs, recoverMalformedLease(p)
      PROVE  SingletonInvariant'
  BY <1>0, <1>9 DEF recoverMalformedLease, NextAttempt
<1>10. ASSUME NEW p \in Procs, inspectOwner(p)
      PROVE  SingletonInvariant'
  BY <1>0, <1>10 DEF inspectOwner
<1>11. ASSUME NEW p \in Procs, isSocketResponsive(p)
      PROVE  SingletonInvariant'
  BY <1>0, <1>11 DEF isSocketResponsive
<1>12. ASSUME NEW p \in Procs, recoverOwnedStaleLease(p)
      PROVE  SingletonInvariant'
  BY <1>0, <1>12 DEF recoverOwnedStaleLease, Readable, NextAttempt
<1>13. ASSUME NEW p \in Procs, removeStaleSocket(p)
      PROVE  SingletonInvariant'
  BY <1>0, <1>13 DEF removeStaleSocket
<1>14. ASSUME NEW p \in Procs, removeIfOwned(p)
      PROVE  SingletonInvariant'
  BY <1>0, <1>14 DEF removeIfOwned, Readable, NextAttempt
<1>15. ASSUME NEW p \in Procs, unlinkStale(p)
      PROVE  SingletonInvariant'
  BY <1>0, <1>15 DEF unlinkStale, NextAttempt
<1>16. ASSUME NEW p \in Procs, listenVerifyIpcServer(p)
      PROVE  SingletonInvariant'
  BY <1>0, <1>16 DEF listenVerifyIpcServer
<1>17. ASSUME NEW p \in Procs, startFails(p)
      PROVE  SingletonInvariant'
  BY <1>0, <1>17 DEF startFails
<1>18. ASSUME NEW p \in Procs, stop(p)
      PROVE  SingletonInvariant'
  BY <1>0, <1>18 DEF stop
<1>19. ASSUME NEW p \in Procs, releaseRead(p)
      PROVE  SingletonInvariant'
  BY <1>0, <1>19 DEF releaseRead, Readable
<1>20. ASSUME NEW p \in Procs, releaseSocket(p)
      PROVE  SingletonInvariant'
  BY <1>0, <1>20 DEF releaseSocket
<1>21. ASSUME NEW p \in Procs, releaseReread(p)
      PROVE  SingletonInvariant'
  BY <1>0, <1>21 DEF releaseReread, Readable
<1>22. ASSUME NEW p \in Procs, releaseUnlink(p)
      PROVE  SingletonInvariant'
  BY <1>0, <1>22 DEF releaseUnlink
<1> HIDE DEF SingletonInvariant
<1> QED
  BY <1>1, <1>2, <1>3, <1>4, <1>5, <1>6, <1>7, <1>8, <1>9, <1>10, <1>11, <1>12,
     <1>13, <1>14, <1>15, <1>16, <1>17, <1>18, <1>19, <1>20, <1>21, <1>22
  DEF SingletonNext, acquireStep, releaseStep

\* The removal of a lease: whose it was, and by which step.
LEMMA RemovalsOfLease ==
    ASSUME SingletonInvariant, ~RacingRecovery, [SingletonNext]_singletonVars,
           NEW p \in Procs, lease.owner = p, Alive(p), lease'.owner # p
    PROVE  at[p] = "release_unlink" /\ at'[p] = "exited"
<1> USE SingletonAssumption
    DEF SingletonInvariant, TypeInvariant, SingletonTypeOK, Uncontended,
        LeaseHeld, Findings, NoFile, Goto, Alive, LeaseFile, Acquire, Host,
        Release
<1>1. ASSUME NEW q \in Procs, recoverMalformedLease(q)
      PROVE  FALSE
  BY <1>1 DEF recoverMalformedLease
<1>2. ASSUME NEW q \in Procs, unlinkStale(q)
      PROVE  FALSE
  BY <1>2 DEF unlinkStale
<1>3. ASSUME NEW q \in Procs, createLease(q) \/ writeLease(q)
      PROVE  FALSE
  BY <1>3 DEF createLease, writeLease
<1>4. ASSUME NEW q \in Procs, releaseUnlink(q)
      PROVE  q = p
  BY <1>4 DEF releaseUnlink
<1>5. lease'.owner # lease.owner
  OBVIOUS
<1>6. \E q \in Procs : releaseUnlink(q)
  <2>1. ~ageLease
    BY <1>5 DEF ageLease
  <2> HIDE DEF SingletonInvariant
  <2> QED
    BY <1>1, <1>2, <1>3, <1>5, <2>1
    DEF SingletonNext, singletonVars, start, acquireStep, readExistingLease,
        fileAge, recoverMalformedSocket, inspectOwner, isSocketResponsive,
        recoverOwnedStaleLease, removeStaleSocket, removeIfOwned,
        listenVerifyIpcServer, startFails, stop, releaseStep, releaseRead,
        releaseSocket, releaseReread, crash
<1> QED BY <1>4, <1>6 DEF releaseUnlink

\* The invariant holds in every behaviour in which processes do not race for
\* an abandoned lease.
LEMMA Ownership ==
    ASSUME ~RacingRecovery
    PROVE  SingletonSpec => []SingletonInvariant
<1>1. SingletonInit => SingletonInvariant
  BY InitOwnership
<1>2. SingletonInvariant /\ [SingletonNext]_singletonVars => SingletonInvariant'
  BY StepOwnership
<1> QED BY <1>1, <1>2, PTL DEF SingletonSpec

\* A process that acquireVerifySingleton returned to is the one the complete
\* lease names, as long as it hosts the daemon.
THEOREM OwnershipKept ==
    ASSUME ~RacingRecovery
    PROVE  SingletonSpec => []OwnerHoldsLease
<1>1. SingletonInvariant => OwnerHoldsLease
  BY DEF SingletonInvariant, LeaseHeld, OwnerHoldsLease, Owns
<1> QED BY <1>1, Ownership, PTL

\* Two processes never host a daemon for the same repository.
THEOREM OwnerUnique ==
    ASSUME ~RacingRecovery
    PROVE  SingletonSpec => []OneOwner
<1>1. OwnerHoldsLease => OneOwner
  BY DEF OwnerHoldsLease, OneOwner
<1> QED BY <1>1, OwnershipKept, PTL

\* A socket file is left behind only together with the lease of its process.
THEOREM SocketOwned ==
    ASSUME ~RacingRecovery
    PROVE  SingletonSpec => []SocketNamesOwner
<1>1. SingletonInvariant => SocketNamesOwner
  BY DEF SingletonInvariant, SocketGone, SocketNamesOwner
<1> QED BY <1>1, Ownership, PTL

\* Recovery never removes the lease of a living process: it goes in the last
\* step of its own release.
THEOREM LiveLeaseSafe ==
    ASSUME ~RacingRecovery
    PROVE  SingletonSpec => LiveLeaseKept
<1>1. SingletonInvariant /\ [SingletonNext]_singletonVars =>
        [\A p \in Procs :
           lease.owner = p /\ Alive(p) /\ lease'.owner # p
             => at[p] = "release_unlink" /\ at'[p] = "exited"]_singletonVars
  BY RemovalsOfLease
<1> QED BY <1>1, Ownership, PTL DEF SingletonSpec, LiveLeaseKept
=============================================================================
