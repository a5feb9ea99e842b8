--------------------- MODULE ArchaeologySynthesisProofs ---------------------
(***************************************************************************)
(* Proofs about model synthesis, for any number of concurrent commands,    *)
(* packets and attempts, with or without sleep of the machine, commands    *)
(* that overtake and ends of the process.                                  *)
(*                                                                         *)
(* No lock covers a call, so the argument is about the durable rows: while *)
(* the job is in the synthesize stage, whoever is between the insertion of *)
(* an attempt row and its settlement finds that row still pending, and no  *)
(* other command can be there for the same key and ordinal.  The stage is  *)
(* left once and never entered again; cleanup, the only step that deletes  *)
(* rows, comes after it and takes the reservation along with its attempts. *)
(***************************************************************************)
EXTENDS ArchaeologySynthesis, ArchaeologyJobsProofs, FiniteSetTheorems

InStage == job[Job].stage = "synthesize"

\* Between the insertion of an attempt row and its settlement.
Busy == {"call", "sent", "finish"}

\* The steps at which the limit on attempts is still to be applied.
Limited == {"check", "exclude", "reserve", "cached", "settle_failed"}
              \cup Invocation

\* What a caller's own row says, whatever the tables hold.
RowOK(r) ==
    /\ r \in CallerRow
    /\ r.at # "idle" \/ r.ok => r.key \in Keys
    /\ r.at = "exclude" => r.key \notin Eligible
    /\ r.at \notin {"idle", "check", "exclude"} => r.key \in Eligible
    /\ r.at \in Limited => r.max \in Ordinals
    /\ r.at \in Invocation => r.ordinal \in 1 .. r.max
    /\ r.at = "wait" => r.ordinal < r.max
    /\ r.at = "finish" =>
          r.last # "none" /\ (r.last = "transient" => r.ordinal < r.max)
    /\ r.at = "finalize" => r.ok

HasSuccess(k) ==
    \E n \in Ordinals : attempts[k][n] = "success" /\ called[k][n] = 1

\* How a caller's row agrees with the attempts and with the provider's count.
CallOK(r) ==
    /\ r.at = "call" => called[r.key][r.ordinal] = 0
    /\ r.at = "sent" \/ (r.at = "finish" /\ r.last = "success")
          => called[r.key][r.ordinal] = 1
    /\ r.at \in Busy /\ InStage => attempts[r.key][r.ordinal] = "pending"
    /\ r.at = "call" /\ cache[r.key].status # "absent"
          => attempts[r.key][r.ordinal] # "none"
    /\ r.ok /\ InStage => HasSuccess(r.key)

Clash(r, s) ==
    /\ r.at \in Busy /\ s.at \in Busy
    /\ r.key = s.key /\ r.ordinal = s.ordinal

\* No two commands attend to the same attempt.
Distinct == \A c, d \in Callers : c # d => ~Clash(caller[c], caller[d])

\* A call that was made has its row while its reservation can be served.
Accounted ==
    \A k \in Keys, n \in Ordinals :
        /\ called[k][n] \in {0, 1}
        /\ called[k][n] = 1 /\ (InStage \/ cache[k].status # "absent")
              => attempts[k][n] # "none"

\* A key with protected evidence is never reserved.
Barred == \A k \in Keys \ Eligible : cache[k].status \in {"absent", "excluded"}

CallersOK == \A c \in Callers : RowOK(caller[c]) /\ CallOK(caller[c])

SynthesisInvariant ==
    /\ SynthesisTypeOK /\ CallersOK /\ Distinct /\ Accounted
    /\ ReadyHasSuccess /\ CatalogBacked /\ Barred

----------------------------------------------------------------------------
(* The job store underneath.                                               *)

\* The job, the generation and the owner of the commands exist.
LEMMA Chosen ==
    Job \in Jobs /\ Gen \in Gens /\ Owner \in Owners /\ 0 \in Time
BY SynthesisAssumption, JobsAssumption DEF Job, Gen, Owner, Time

\* A transaction of the job store that does not enter the synthesize stage.
StoreMove == [Next]_vars /\ (InStage' => InStage)

\* No row of the job store changes.
LEMMA StoreStill ==
    ASSUME JobsUnchanged
    PROVE  StoreMove
BY DEF JobsUnchanged, StoreMove, vars, InStage

\* The transactions that move the job while commands synthesize are
\* transactions of the job store, and none of them enters the stage.
LEMMA StoreMoves ==
    ASSUME TypeOK,
           \/ request_cancel(Job, Owner, 0)
           \/ finalize_synthesis_catalog(Job, Owner, 0)
           \/ validate_generation_for_publication(Job, Owner, 0)
           \/ publish_generation(Job, Owner, 0)
           \/ complete_job(Job, Owner, 0)
           \/ acknowledge_cancel(Job, Owner, 0)
    PROVE  StoreMove
<1>1. Next
  BY Chosen DEF Next
<1>2. job[Job] \in JobRow
  BY Chosen DEF TypeOK
<1>3. ASSUME NEW s, NEW j \in Jobs, j = Job, job' = [job EXCEPT ![j] = s],
             s.stage = job[j].stage \/ s.stage # "synthesize"
      PROVE  InStage' => InStage
  BY <1>3 DEF InStage, TypeOK
<1>4. CASE request_cancel(Job, Owner, 0)
  <2> DEFINE s == [job[Job] EXCEPT !.state = "cancelling", !.cancel = TRUE,
                                   !.updated = 0]
  <2>1. s.stage = job[Job].stage
    BY <1>2 DEF JobRow
  <2>2. job' = [job EXCEPT ![Job] = s]
    BY <1>4 DEF request_cancel
  <2> HIDE DEF s
  <2> QED BY <1>1, <1>3, <2>1, <2>2, Chosen DEF StoreMove
<1>5. CASE finalize_synthesis_catalog(Job, Owner, 0)
  <2> DEFINE s == [job[Job] EXCEPT !.stage = "validate", !.updated = 0,
                                   !.receipt = NoReceipt]
  <2>1. s.stage = "validate"
    BY <1>2 DEF JobRow
  <2>2. job' = [job EXCEPT ![Job] = s]
    BY <1>5 DEF finalize_synthesis_catalog, Build
  <2> HIDE DEF s
  <2> QED BY <1>1, <1>3, <2>1, <2>2, Chosen DEF StoreMove
<1>6. CASE validate_generation_for_publication(Job, Owner, 0)
  <2> DEFINE s == [job[Job] EXCEPT !.stage = "publish", !.updated = 0,
                                   !.receipt = gen[job[Job].gen].data]
  <2>1. s.stage = "publish"
    BY <1>2 DEF JobRow
  <2>2. job' = [job EXCEPT ![Job] = s]
    BY <1>6 DEF validate_generation_for_publication
  <2> HIDE DEF s
  <2> QED BY <1>1, <1>3, <2>1, <2>2, Chosen DEF StoreMove
<1>7. CASE publish_generation(Job, Owner, 0)
  <2> DEFINE s == [job[Job] EXCEPT !.stage = "cleanup", !.updated = 0]
  <2>1. s.stage = "cleanup"
    BY <1>2 DEF JobRow
  <2>2. job' = [job EXCEPT ![Job] = s]
    BY <1>7 DEF publish_generation
  <2> HIDE DEF s
  <2> QED BY <1>1, <1>3, <2>1, <2>2, Chosen DEF StoreMove
<1>8. CASE complete_job(Job, Owner, 0)
  <2> DEFINE s == [job[Job] EXCEPT !.state = "completed", !.stage = "idle",
                                   !.updated = 0]
  <2>1. s.stage = "idle"
    BY <1>2 DEF JobRow
  <2>2. job' = [job EXCEPT ![Job] = s]
    BY <1>8 DEF complete_job
  <2> HIDE DEF s
  <2> QED BY <1>1, <1>3, <2>1, <2>2, Chosen DEF StoreMove
<1>9. CASE acknowledge_cancel(Job, Owner, 0)
  <2> DEFINE s == [job[Job] EXCEPT !.state = "cancelled", !.stage = "idle",
                                   !.updated = 0]
  <2>1. s.stage = "idle"
    BY <1>2 DEF JobRow
  <2>2. job' = [job EXCEPT ![Job] = s]
    BY <1>9 DEF acknowledge_cancel, finish_job
  <2> HIDE DEF s
  <2> QED BY <1>1, <1>3, <2>1, <2>2, Chosen DEF StoreMove
<1> QED BY <1>4, <1>5, <1>6, <1>7, <1>8, <1>9

\* Materialising the catalog leaves the stage.
LEMMA CatalogLeaves ==
    ASSUME TypeOK, finalize_synthesis_catalog(Job, Owner, 0)
    PROVE  InStage /\ ~InStage'
<1>1. job[Job] \in JobRow
  BY Chosen DEF TypeOK
<1> DEFINE s == [job[Job] EXCEPT !.stage = "validate", !.updated = 0,
                                 !.receipt = NoReceipt]
<1>2. s.stage = "validate"
  BY <1>1 DEF JobRow
<1>3. job' = [job EXCEPT ![Job] = s]
  BY DEF finalize_synthesis_catalog, Build
<1> HIDE DEF s
<1>4. job'[Job].stage = "validate"
  BY <1>2, <1>3, Chosen DEF TypeOK
<1>5. job[Job].stage = "synthesize"
  BY DEF finalize_synthesis_catalog, Build, OwnsStage
<1> QED BY <1>4, <1>5 DEF InStage

----------------------------------------------------------------------------
(* What a step may do to the reservations and to the rules.                *)

CacheMove ==
    /\ cache' \in [Keys -> CacheRow]
    /\ \A k \in Keys :
          /\ cache[k].status = "absent" /\ cache'[k].status # "absent" => InStage
          /\ cache'[k].status = "ready"
               => cache[k].status = "ready" \/ HasSuccess(k)
          /\ rule[k] = "model" => cache'[k].status = "ready"
          /\ k \notin Eligible => cache'[k].status \in {"absent", "excluded"}

RuleMove ==
    \/ rule' = rule
    \/ /\ InStage /\ ~InStage' /\ cache' = cache
       /\ \E k \in Keys : /\ cache[k].status = "ready"
                          /\ rule' = [rule EXCEPT ![k] = "model"]

\* No reservation changes.
LEMMA CacheStill ==
    ASSUME SynthesisInvariant, UNCHANGED cache
    PROVE  CacheMove
BY DEF SynthesisInvariant, SynthesisTypeOK, CacheMove, CatalogBacked, Barred

\* The statuses a command writes to a reservation.
LEMMA Rows ==
    ASSUME NEW s \in {"pending"} \cup Settled
    PROVE  Row(s) \in CacheRow /\ Row(s).status = s
BY DEF Row, CacheRow

\* A reservation that is not ready is written by a command.
LEMMA CacheWrite ==
    ASSUME SynthesisInvariant, NEW k \in Keys, NEW s \in {"pending"} \cup Settled,
           SetCache(k, s), cache[k].status # "ready",
           cache[k].status = "absent" => InStage,
           s = "ready" => HasSuccess(k),
           k \notin Eligible => s = "excluded"
    PROVE  CacheMove
<1>1. cache \in [Keys -> CacheRow] /\ CatalogBacked /\ Barred
  BY DEF SynthesisInvariant, SynthesisTypeOK
<1>2. Row(s) \in CacheRow /\ Row(s).status = s
  BY Rows
<1>3. cache' \in [Keys -> CacheRow]
  BY <1>1, <1>2 DEF SetCache
<1>4. rule[k] # "model"
  BY <1>1 DEF CatalogBacked
<1>5. cache'[k].status = s /\ \A i \in Keys \ {k} : cache'[i] = cache[i]
  BY <1>1, <1>2 DEF SetCache
<1> HIDE DEF SetCache
<1> QED BY <1>1, <1>3, <1>4, <1>5 DEF CacheMove, CatalogBacked, Barred

\* A rule written by a model is the only one, and the stage is over.
LEMMA CatalogStep ==
    ASSUME SynthesisInvariant, StoreMove, CacheMove, RuleMove
    PROVE  CatalogBacked' /\ rule' \in [Keys -> {"deterministic", "model"}]
<1>1. CatalogBacked /\ rule \in [Keys -> {"deterministic", "model"}]
  BY DEF SynthesisInvariant, SynthesisTypeOK
<1>2. CASE rule' = rule
  <2>1. \A k \in Keys : rule'[k] = "model" => cache'[k].status = "ready"
    BY <1>2 DEF CacheMove
  <2>2. (\E k \in Keys : rule'[k] = "model") => ~InStage'
    BY <1>1, <1>2 DEF CatalogBacked, StoreMove, InStage
  <2> QED BY <1>1, <1>2, <2>1, <2>2 DEF CatalogBacked, InStage
<1>3. ASSUME InStage, ~InStage', cache' = cache, NEW k \in Keys,
             cache[k].status = "ready", rule' = [rule EXCEPT ![k] = "model"]
      PROVE  CatalogBacked' /\ rule' \in [Keys -> {"deterministic", "model"}]
  <2>1. \A i \in Keys : rule[i] # "model"
    BY <1>1, <1>3 DEF CatalogBacked, InStage
  <2>2. {i \in Keys : rule'[i] = "model"} = {k}
    BY <1>1, <1>3, <2>1
  <2>3. Cardinality({i \in Keys : rule'[i] = "model"}) <= 1
    BY <2>2, FS_Singleton
  <2>4. \A i \in Keys : rule'[i] = "model" => cache'[i].status = "ready"
    BY <1>3, <2>2
  <2> QED BY <1>1, <1>3, <2>3, <2>4 DEF CatalogBacked, InStage
<1> QED BY <1>2, <1>3 DEF RuleMove

\* A step that writes no attempt and makes no call keeps what the tables say.
LEMMA TablesKept ==
    ASSUME SynthesisInvariant, StoreMove, CacheMove, RuleMove,
           UNCHANGED <<attempts, called>>
    PROVE  /\ Accounted' /\ ReadyHasSuccess' /\ CatalogBacked' /\ Barred'
           /\ TypeOK' /\ cache' \in [Keys -> CacheRow]
           /\ attempts' \in [Keys -> [Ordinals -> Outcomes \cup {"none", "pending"}]]
           /\ rule' \in [Keys -> {"deterministic", "model"}]
           /\ called' \in [Keys -> [Ordinals -> Nat]]
<1>1. TypeOK'
  BY TypeOKStep DEF SynthesisInvariant, SynthesisTypeOK, StoreMove
<1>2. Accounted'
  <2> SUFFICES ASSUME NEW k \in Keys, NEW n \in Ordinals
               PROVE  /\ called'[k][n] \in {0, 1}
                      /\ called'[k][n] = 1 /\ (InStage' \/ cache'[k].status # "absent")
                            => attempts'[k][n] # "none"
    BY DEF Accounted
  <2> QED BY DEF SynthesisInvariant, Accounted, StoreMove, CacheMove
<1>3. ReadyHasSuccess'
  BY DEF SynthesisInvariant, ReadyHasSuccess, CacheMove, HasSuccess
<1>4. Barred'
  BY DEF Barred, CacheMove
<1> QED BY <1>1, <1>2, <1>3, <1>4, CatalogStep
        DEF SynthesisInvariant, SynthesisTypeOK, CacheMove

\* Such a step also keeps what a caller's row says of the tables.
LEMMA CallKept ==
    ASSUME StoreMove, CacheMove, UNCHANGED <<attempts, called>>,
           NEW r, RowOK(r), CallOK(r)
    PROVE  CallOK(r)'
<1>1. HasSuccess(r.key)' <=> HasSuccess(r.key)
  BY DEF HasSuccess
<1>2. r.at \in Busy /\ InStage' => attempts'[r.key][r.ordinal] = "pending"
  BY DEF CallOK, StoreMove
<1>3. r.at = "call" /\ cache'[r.key].status # "absent"
        => attempts'[r.key][r.ordinal] # "none"
  <2> SUFFICES ASSUME r.at = "call", cache'[r.key].status # "absent"
               PROVE  attempts[r.key][r.ordinal] # "none"
    OBVIOUS
  <2>1. r.key \in Keys
    BY DEF RowOK
  <2>2. cache[r.key].status # "absent" \/ InStage
    BY <2>1 DEF CacheMove
  <2> QED BY <2>2 DEF CallOK, Busy
<1> QED BY <1>1, <1>2, <1>3 DEF CallOK, StoreMove

----------------------------------------------------------------------------
(* Steps that make no call and write no attempt.                           *)

Quiet ==
    /\ StoreMove /\ CacheMove /\ RuleMove /\ UNCHANGED <<attempts, called>>
    /\ crashes' \in 0 .. MaxCrashes

\* Caller c goes on with row r, and attends to an attempt only if it did.
MoveTo(c, r) ==
    /\ caller' = [caller EXCEPT ![c] = r]
    /\ Quiet
    /\ RowOK(r) /\ CallOK(r)
    /\ r.at \in Busy => /\ caller[c].at \in Busy
                        /\ r.key = caller[c].key
                        /\ r.ordinal = caller[c].ordinal

\* Replacing the row of one caller keeps the callers apart.
LEMMA DistinctKept ==
    ASSUME SynthesisInvariant, NEW c \in Callers, NEW r,
           caller' = [caller EXCEPT ![c] = r],
           \A d \in Callers \ {c} : ~Clash(r, caller[d])
    PROVE  Distinct'
<1>1. caller \in [Callers -> CallerRow] /\ Distinct
  BY DEF SynthesisInvariant, SynthesisTypeOK
<1>2. caller'[c] = r /\ \A d \in Callers \ {c} : caller'[d] = caller[d]
  BY <1>1
<1> SUFFICES ASSUME NEW a \in Callers, NEW b \in Callers, a # b
             PROVE  ~Clash(caller'[a], caller'[b])
  BY DEF Distinct, Clash
<1>3. CASE a = c
  BY <1>2, <1>3
<1>4. CASE b = c
  BY <1>2, <1>4 DEF Clash
<1>5. CASE a # c /\ b # c
  BY <1>1, <1>2, <1>5 DEF Distinct
<1> QED BY <1>3, <1>4, <1>5

\* A step of one caller.
LEMMA CallerMoves ==
    ASSUME SynthesisInvariant, NEW c \in Callers, NEW r, MoveTo(c, r)
    PROVE  SynthesisInvariant'
<1>1. /\ caller \in [Callers -> CallerRow] /\ CallersOK /\ Distinct
      /\ crashes \in 0 .. MaxCrashes
  BY DEF SynthesisInvariant, SynthesisTypeOK
<1>2. caller'[c] = r /\ \A d \in Callers \ {c} : caller'[d] = caller[d]
  BY <1>1 DEF MoveTo
<1>3. caller' \in [Callers -> CallerRow]
  BY <1>1 DEF MoveTo, RowOK
<1>4. CallersOK'
  <2>1. \A d \in Callers : RowOK(caller'[d]) /\ CallOK(caller'[d])
    BY <1>1, <1>2 DEF MoveTo, CallersOK
  <2>2. ASSUME NEW d \in Callers PROVE RowOK(caller[d])' /\ CallOK(caller[d])'
    <3>1. PICK x : x = caller'[d]
      OBVIOUS
    <3>2. RowOK(x) /\ CallOK(x)
      BY <2>1, <3>1
    <3>3. CallOK(x)'
      BY <3>2, CallKept DEF MoveTo, Quiet
    <3>4. RowOK(x)'
      BY <3>2 DEF RowOK
    <3>5. RowOK(caller[d])'
      BY <3>1, <3>2 DEF RowOK
    <3>6. CallOK(caller[d])'
      BY <3>1, <3>3 DEF CallOK, HasSuccess
    <3> QED BY <3>5, <3>6
  <2> QED BY <2>2 DEF CallersOK
<1>5. Distinct'
  <2>1. ASSUME NEW d \in Callers \ {c} PROVE ~Clash(r, caller[d])
    BY <1>1 DEF Distinct, Clash, MoveTo
  <2> QED BY <2>1, DistinctKept DEF MoveTo
<1>6. /\ Accounted' /\ ReadyHasSuccess' /\ CatalogBacked' /\ Barred'
      /\ TypeOK' /\ cache' \in [Keys -> CacheRow]
      /\ attempts' \in [Keys -> [Ordinals -> Outcomes \cup {"none", "pending"}]]
      /\ rule' \in [Keys -> {"deterministic", "model"}]
      /\ called' \in [Keys -> [Ordinals -> Nat]]
  BY TablesKept DEF MoveTo, Quiet
<1>7. crashes' \in 0 .. MaxCrashes
  BY <1>1 DEF MoveTo, Quiet
<1>8. SynthesisTypeOK'
  BY <1>3, <1>6, <1>7 DEF SynthesisTypeOK
<1> QED BY <1>4, <1>5, <1>6, <1>8 DEF SynthesisInvariant

\* A step that no caller takes.
LEMMA CallersStay ==
    ASSUME SynthesisInvariant, StoreMove, CacheMove, RuleMove,
           UNCHANGED <<attempts, called, caller, crashes>>
    PROVE  SynthesisInvariant'
<1>1. CallersOK /\ Distinct /\ SynthesisTypeOK
  BY DEF SynthesisInvariant
<1>2. CallersOK'
  <2> SUFFICES ASSUME NEW d \in Callers
               PROVE  RowOK(caller[d])' /\ CallOK(caller[d])'
    BY DEF CallersOK
  <2>1. PICK x : x = caller[d]
    OBVIOUS
  <2>2. RowOK(x) /\ CallOK(x)
    BY <1>1, <2>1 DEF CallersOK
  <2>3. CallOK(x)'
    BY <2>2, CallKept
  <2>4. RowOK(caller[d])'
    BY <2>1, <2>2 DEF RowOK
  <2>5. CallOK(caller[d])'
    BY <2>1, <2>3 DEF CallOK, HasSuccess
  <2> QED BY <2>4, <2>5
<1>3. Distinct'
  BY <1>1 DEF Distinct, Clash
<1>4. /\ Accounted' /\ ReadyHasSuccess' /\ CatalogBacked' /\ Barred'
      /\ TypeOK' /\ cache' \in [Keys -> CacheRow]
      /\ attempts' \in [Keys -> [Ordinals -> Outcomes \cup {"none", "pending"}]]
      /\ rule' \in [Keys -> {"deterministic", "model"}]
      /\ called' \in [Keys -> [Ordinals -> Nat]]
  BY TablesKept
<1> QED BY <1>1, <1>2, <1>3, <1>4 DEF SynthesisInvariant, SynthesisTypeOK

\* The rows steps go on with.
LEMMA RowMoves ==
    ASSUME NEW s \in CallerRow, NEW at \in {"exclude", "reserve", "cached",
               "settle", "acknowledge", "finalize", "catalog", "failure"}
    PROVE  LET r == [s EXCEPT !.at = at]
           IN  /\ r \in CallerRow /\ r.at = at /\ r.key = s.key
               /\ r.max = s.max /\ r.ordinal = s.ordinal
               /\ r.last = s.last /\ r.ok = s.ok
BY DEF CallerRow

\* A caller without a command says nothing.
LEMMA NoCallOK == RowOK(NoCall) /\ CallOK(NoCall) /\ NoCall.at \notin Busy
BY DEF NoCall, RowOK, CallOK, CallerRow, Limited, Invocation, Busy

\* The command ends.
LEMMA Returns ==
    ASSUME SynthesisInvariant, NEW c \in Callers, Return(c), Quiet
    PROVE  SynthesisInvariant'
<1>1. MoveTo(c, NoCall)
  BY NoCallOK DEF MoveTo, Return, Put
<1> QED BY <1>1, CallerMoves

\* The command goes on outside the invocation.
LEMMA Goes ==
    ASSUME SynthesisInvariant, NEW c \in Callers,
           NEW at \in {"exclude", "reserve", "cached", "settle", "acknowledge",
                       "finalize", "catalog", "failure"},
           Go(c, at), Quiet, caller[c].at # "idle",
           at = "exclude" => Key(c) \notin Eligible,
           at # "exclude" => Key(c) \in Eligible,
           at \in Limited => caller[c].max \in Ordinals,
           at = "finalize" => caller[c].ok
    PROVE  SynthesisInvariant'
<1> DEFINE r == [caller[c] EXCEPT !.at = at]
<1>1. caller[c] \in CallerRow /\ RowOK(caller[c]) /\ CallOK(caller[c])
  BY DEF SynthesisInvariant, SynthesisTypeOK, CallersOK
<1>2. /\ r \in CallerRow /\ r.at = at /\ r.key = caller[c].key
      /\ r.max = caller[c].max /\ r.ordinal = caller[c].ordinal
      /\ r.last = caller[c].last /\ r.ok = caller[c].ok
  BY <1>1, RowMoves
<1>3. caller' = [caller EXCEPT ![c] = r]
  BY DEF Go, Put
<1> HIDE DEF r
<1>4. RowOK(r)
  BY <1>1, <1>2 DEF RowOK, Key, Invocation
<1>5. CallOK(r) /\ r.at \notin Busy
  BY <1>1, <1>2 DEF CallOK, Busy
<1> QED BY <1>3, <1>4, <1>5, CallerMoves DEF MoveTo

\* The invocation ends without a run.
LEMMA Fails ==
    ASSUME SynthesisInvariant, NEW c \in Callers, Fail(c), Quiet,
           caller[c].at \in Invocation
    PROVE  SynthesisInvariant'
<1> DEFINE r == [caller[c] EXCEPT !.at = "returned", !.ok = FALSE]
<1>1. caller[c] \in CallerRow /\ RowOK(caller[c])
  BY DEF SynthesisInvariant, SynthesisTypeOK, CallersOK
<1>2. /\ r \in CallerRow /\ r.at = "returned" /\ r.key = caller[c].key
      /\ r.max = caller[c].max /\ r.ordinal = caller[c].ordinal
      /\ r.ok = FALSE
  BY <1>1 DEF CallerRow
<1>3. caller' = [caller EXCEPT ![c] = r]
  BY DEF Fail, Put
<1> HIDE DEF r
<1>4. RowOK(r)
  BY <1>1, <1>2 DEF RowOK, Invocation, Limited
<1>5. CallOK(r) /\ r.at \notin Busy
  BY <1>1, <1>2 DEF CallOK, Busy
<1> QED BY <1>3, <1>4, <1>5, CallerMoves DEF MoveTo

\* A step of a command that changes nothing but its own row.
LEMMA QuietStill ==
    ASSUME SynthesisInvariant, RowsUnchanged, UNCHANGED <<called, crashes>>
    PROVE  Quiet
BY StoreStill, CacheStill
   DEF RowsUnchanged, Quiet, RuleMove, SynthesisInvariant, SynthesisTypeOK

\* A step of a command that may write its reservation.
LEMMA QuietWrite ==
    ASSUME SynthesisInvariant, JobsUnchanged, CacheMove \/ UNCHANGED cache,
           UNCHANGED <<attempts, rule, called, crashes>>
    PROVE  Quiet
BY StoreStill, CacheStill
   DEF Quiet, RuleMove, SynthesisInvariant, SynthesisTypeOK

\* A reservation is settled without a response, or it is not pending.
LEMMA QuietSettle ==
    ASSUME SynthesisInvariant, NEW k \in Eligible,
           NEW s \in {"failed", "cancelled"},
           SettleWithoutResponse(k, s) \/ UNCHANGED cache,
           JobsUnchanged, UNCHANGED <<attempts, rule, called, crashes>>
    PROVE  Quiet
<1>1. ASSUME SettleWithoutResponse(k, s)
      PROVE  CacheMove
  <2>1. k \in Keys /\ s \in {"pending"} \cup Settled
    BY SynthesisAssumption DEF Settled
  <2> QED BY <1>1, <2>1, CacheWrite DEF SettleWithoutResponse
<1> QED BY <1>1, QuietWrite

----------------------------------------------------------------------------
(* The steps of a command, one by one.                                     *)

\* A command starts.
LEMMA StartKeeps ==
    ASSUME SynthesisInvariant, NEW c \in Callers, run_business_rule_synthesis(c)
    PROVE  SynthesisInvariant'
<1>1. PICK k \in Keys, max \in Ordinals :
         Put(c, [NoCall EXCEPT !.at = "check", !.key = k, !.max = max])
  BY DEF run_business_rule_synthesis
<1> DEFINE r == [NoCall EXCEPT !.at = "check", !.key = k, !.max = max]
<1>2. RowOK(r)
  BY DEF NoCall, RowOK, CallerRow, Limited, Invocation
<1>3. r.at = "check" /\ r.ok = FALSE
  BY DEF NoCall
<1>4. caller' = [caller EXCEPT ![c] = r]
  BY <1>1 DEF Put
<1> HIDE DEF r
<1>5. Quiet
  BY QuietStill DEF run_business_rule_synthesis
<1>6. CallOK(r) /\ r.at \notin Busy
  BY <1>3 DEF CallOK, Busy
<1> QED BY <1>2, <1>4, <1>5, <1>6, CallerMoves DEF MoveTo

\* What the row of a caller says, by the step it is at.
LEMMA CallerSays ==
    ASSUME SynthesisInvariant, NEW c \in Callers
    PROVE  /\ caller[c] \in CallerRow /\ RowOK(caller[c]) /\ CallOK(caller[c])
           /\ caller[c].at # "idle" => Key(c) \in Keys
           /\ caller[c].at = "exclude" => Key(c) \notin Eligible
           /\ caller[c].at \notin {"idle", "check", "exclude"}
                => Key(c) \in Eligible
           /\ caller[c].at \in Limited => caller[c].max \in Ordinals
BY DEF SynthesisInvariant, SynthesisTypeOK, CallersOK, RowOK, Key

\* The job is checked, and a stored answer is taken up.
LEMMA CheckKeeps ==
    ASSUME SynthesisInvariant, NEW c \in Callers, check_job(c)
    PROVE  SynthesisInvariant'
<1>1. Quiet
  BY QuietStill DEF check_job
<1>2. caller[c].at = "check" /\ caller[c].max \in Ordinals
  BY CallerSays DEF check_job, At, Limited
<1>3. CASE Return(c)
  BY <1>1, <1>3, Returns
<1>4. CASE Key(c) \notin Eligible /\ Go(c, "exclude")
  BY <1>1, <1>2, <1>4, Goes
<1>5. CASE Key(c) \in Eligible /\ (Go(c, "catalog") \/ Go(c, "reserve"))
  BY <1>1, <1>2, <1>5, Goes
<1> QED BY <1>3, <1>4, <1>5 DEF check_job

\* A packet with protected evidence is excluded.
LEMMA ExclusionKeeps ==
    ASSUME SynthesisInvariant, NEW c \in Callers, persist_synthesis_exclusion(c)
    PROVE  SynthesisInvariant'
<1>1. Key(c) \in Keys \ Eligible
  BY CallerSays DEF persist_synthesis_exclusion, At
<1>2. cache[Key(c)].status # "ready"
  BY <1>1 DEF SynthesisInvariant, Barred
<1>3. CASE ActiveActor /\ SetCache(Key(c), "excluded")
  <2>1. InStage
    BY <1>3 DEF ActiveActor, InStage
  <2>2. CacheMove
    BY <1>1, <1>2, <1>3, <2>1, CacheWrite DEF Settled
  <2> QED BY <2>2, QuietWrite, Returns DEF persist_synthesis_exclusion
<1>4. CASE UNCHANGED cache
  BY <1>4, QuietWrite, Returns DEF persist_synthesis_exclusion
<1> QED BY <1>3, <1>4 DEF persist_synthesis_exclusion

\* A reservation acquired at an ordinal within the caller's limit.
LEMMA AcquireKeeps ==
    ASSUME SynthesisInvariant, NEW c \in Callers, Quiet,
           caller[c].at = "reserve", NEW n \in Ordinals, n <= caller[c].max,
           Acquire(c, n)
    PROVE  SynthesisInvariant'
<1>1. /\ caller[c] \in CallerRow /\ RowOK(caller[c]) /\ CallOK(caller[c])
      /\ Key(c) \in Eligible /\ Key(c) \in Keys /\ caller[c].max \in Ordinals
  BY CallerSays DEF Limited
<1>2. ASSUME NEW r \in CallerRow, r.at \in {"begin", "settle_failed"},
             r.at = "begin" => r.ordinal = n,
             r.key = caller[c].key, r.max = caller[c].max, r.ok = caller[c].ok,
             caller' = [caller EXCEPT ![c] = r]
      PROVE  SynthesisInvariant'
  <2>1. n \in 1 .. caller[c].max
    BY <1>1 DEF Ordinals
  <2>2. RowOK(r)
    BY <1>1, <1>2, <2>1 DEF RowOK, Invocation, Key
  <2>3. CallOK(r) /\ r.at \notin Busy
    BY <1>1, <1>2 DEF CallOK, Busy
  <2> QED BY <1>2, <2>2, <2>3, CallerMoves DEF MoveTo
<1>3. ASSUME Put(c, [caller[c] EXCEPT !.at = "begin", !.ordinal = n,
                                      !.watch = "active"])
      PROVE  SynthesisInvariant'
  <2> DEFINE r == [caller[c] EXCEPT !.at = "begin", !.ordinal = n,
                                    !.watch = "active"]
  <2>1. n \in Nat
    BY SynthesisAssumption DEF Ordinals
  <2>2. /\ r \in CallerRow /\ r.at = "begin" /\ r.ordinal = n
        /\ r.key = caller[c].key /\ r.max = caller[c].max
        /\ r.ok = caller[c].ok
    BY <1>1, <2>1 DEF CallerRow
  <2>3. caller' = [caller EXCEPT ![c] = r]
    BY <1>3 DEF Put
  <2> HIDE DEF r
  <2> QED BY <1>2, <2>2, <2>3
<1>4. ASSUME Put(c, [caller[c] EXCEPT !.at = "settle_failed"])
      PROVE  SynthesisInvariant'
  <2> DEFINE r == [caller[c] EXCEPT !.at = "settle_failed"]
  <2>1. /\ r \in CallerRow /\ r.at = "settle_failed"
        /\ r.key = caller[c].key /\ r.max = caller[c].max
        /\ r.ok = caller[c].ok
    BY <1>1 DEF CallerRow
  <2>2. caller' = [caller EXCEPT ![c] = r]
    BY <1>4 DEF Put
  <2> HIDE DEF r
  <2> QED BY <1>2, <2>1, <2>2
<1> QED BY <1>3, <1>4 DEF Acquire

\* The reservation is made, taken over, or found in somebody's hands.
LEMMA ReserveKeeps ==
    ASSUME SynthesisInvariant, NEW c \in Callers, reserve_synthesis_cache(c)
    PROVE  SynthesisInvariant'
<1> DEFINE k == Key(c)
<1>1. /\ caller[c].at = "reserve" /\ k \in Eligible /\ k \in Keys
      /\ caller[c].max \in Ordinals
  BY CallerSays DEF reserve_synthesis_cache, At, Limited
<1>2. CASE UNCHANGED cache /\ Return(c)
  BY <1>2, QuietWrite, Returns DEF reserve_synthesis_cache
<1>3. CASE UNCHANGED cache /\ Go(c, "cached")
  <2>1. Quiet
    BY <1>3, QuietWrite DEF reserve_synthesis_cache
  <2> QED BY <1>1, <1>3, <2>1, Goes
<1>4. ASSUME ActiveActor, cache[k].status \in {"absent", "pending"},
             NEW s \in {"failed", "pending"}, SetCache(k, s)
      PROVE  Quiet
  <2>1. InStage
    BY <1>4 DEF ActiveActor, InStage
  <2>2. CacheMove
    BY <1>1, <1>4, <2>1, CacheWrite DEF Settled
  <2> QED BY <2>2, QuietWrite DEF reserve_synthesis_cache
<1>5. CASE /\ ActiveActor /\ cache[k].status = "absent"
           /\ SetCache(k, "pending") /\ Acquire(c, 1)
  <2>1. 1 \in Ordinals /\ 1 <= caller[c].max
    BY <1>1, SynthesisAssumption DEF Ordinals
  <2> QED BY <1>1, <1>4, <1>5, <2>1, AcquireKeeps
<1>6. ASSUME ActiveActor, cache[k].status = "pending",
             NEW n \in 1 .. MaxAttempts + 1, n <= caller[c].max,
             SetCache(k, "pending"), Acquire(c, n)
      PROVE  SynthesisInvariant'
  <2>1. n \in Ordinals
    BY <1>1, <1>6, SynthesisAssumption DEF Ordinals
  <2> QED BY <1>1, <1>4, <1>6, <2>1, AcquireKeeps
<1>7. CASE /\ ActiveActor /\ cache[k].status = "pending"
           /\ SetCache(k, "failed") /\ Return(c)
  BY <1>4, <1>7, Returns
<1> QED BY <1>2, <1>3, <1>5, <1>6, <1>7 DEF reserve_synthesis_cache

\* The answer another caller stored is served.
LEMMA CachedKeeps ==
    ASSUME SynthesisInvariant, NEW c \in Callers, cached_synthesis_result(c)
    PROVE  SynthesisInvariant'
<1>1. Quiet
  BY QuietStill DEF cached_synthesis_result
<1>2. caller[c].at = "cached" /\ Key(c) \in Eligible
  BY CallerSays DEF cached_synthesis_result, At
<1> QED BY <1>1, <1>2, Goes DEF cached_synthesis_result, Limited, Invocation

\* A reservation without a provider is settled.
LEMMA SettleFailedKeeps ==
    ASSUME SynthesisInvariant, NEW c \in Callers, settle_failed_reservation(c)
    PROVE  SynthesisInvariant'
<1>1. Key(c) \in Eligible
  BY CallerSays DEF settle_failed_reservation, At
<1>2. Quiet
  BY <1>1, QuietSettle DEF settle_failed_reservation
<1> QED BY <1>2, Returns DEF settle_failed_reservation

\* What stays when only attempts or calls are written.
LEMMA RestKept ==
    ASSUME SynthesisInvariant, UNCHANGED <<repo, gen, job, cache, rule, crashes>>
    PROVE  /\ TypeOK' /\ CatalogBacked' /\ Barred' /\ (InStage' <=> InStage)
           /\ cache' \in [Keys -> CacheRow]
           /\ rule' \in [Keys -> {"deterministic", "model"}]
           /\ crashes' \in 0 .. MaxCrashes
<1>1. StoreMove /\ CacheMove /\ RuleMove
  BY StoreStill, CacheStill DEF JobsUnchanged, RuleMove
<1>2. TypeOK'
  BY <1>1, TypeOKStep DEF SynthesisInvariant, SynthesisTypeOK, StoreMove
<1>3. CatalogBacked'
  BY <1>1, CatalogStep
<1>4. Barred' /\ (InStage' <=> InStage)
  BY DEF SynthesisInvariant, Barred, InStage
<1> QED BY <1>2, <1>3, <1>4 DEF SynthesisInvariant, SynthesisTypeOK

\* Caller c goes on with row r and writes attempt n of key k, or counts a call
\* of it, and no other caller attends to that attempt.
AttemptMove(c, r, k, n, a, m) ==
    /\ r.key = k /\ r.ordinal = n
    /\ caller' = [caller EXCEPT ![c] = r]
    /\ RowOK(r)
    /\ UNCHANGED <<repo, gen, job, cache, rule, crashes>>
    /\ \A d \in Callers \ {c} :
          caller[d].at \in Busy => caller[d].key # k \/ caller[d].ordinal # n
    /\ attempts' = [attempts EXCEPT ![k] = [@ EXCEPT ![n] = a]]
    /\ called' = [called EXCEPT ![k] = [@ EXCEPT ![n] = m]]
    /\ m = 1 /\ (InStage \/ cache[k].status # "absent") => a # "none"
    /\ attempts[k][n] = "success" /\ called[k][n] = 1 => a = "success" /\ m = 1

\* Such a step keeps the invariant: the other callers' attempts stay.
LEMMA AttemptKeeps ==
    ASSUME SynthesisInvariant, NEW c \in Callers, NEW r,
           NEW k \in Keys, NEW n \in Ordinals,
           NEW a \in Outcomes \cup {"none", "pending"}, NEW m \in {0, 1},
           AttemptMove(c, r, k, n, a, m), CallOK(r)'
    PROVE  SynthesisInvariant'
<1> USE DEF AttemptMove
<1>1. /\ caller \in [Callers -> CallerRow] /\ CallersOK
      /\ cache \in [Keys -> CacheRow]
      /\ attempts \in [Keys -> [Ordinals -> Outcomes \cup {"none", "pending"}]]
      /\ called \in [Keys -> [Ordinals -> Nat]]
      /\ Accounted /\ ReadyHasSuccess
  BY DEF SynthesisInvariant, SynthesisTypeOK
<1>2. /\ TypeOK' /\ CatalogBacked' /\ Barred' /\ (InStage' <=> InStage)
      /\ cache' \in [Keys -> CacheRow]
      /\ rule' \in [Keys -> {"deterministic", "model"}]
      /\ crashes' \in 0 .. MaxCrashes
  BY RestKept
<1>3. caller'[c] = r /\ \A d \in Callers \ {c} : caller'[d] = caller[d]
  BY <1>1
<1>4. /\ attempts'[k][n] = a /\ called'[k][n] = m
      /\ \A i \in Keys, o \in Ordinals : i # k \/ o # n =>
            attempts'[i][o] = attempts[i][o] /\ called'[i][o] = called[i][o]
  BY <1>1
<1>5. caller' \in [Callers -> CallerRow]
  BY <1>1 DEF RowOK
<1>6. attempts' \in [Keys -> [Ordinals -> Outcomes \cup {"none", "pending"}]]
  BY <1>1
<1>7. called' \in [Keys -> [Ordinals -> Nat]]
  BY <1>1
<1>8. SynthesisTypeOK'
  BY <1>2, <1>5, <1>6, <1>7 DEF SynthesisTypeOK
<1>9. \A i \in Keys : HasSuccess(i) => HasSuccess(i)'
  <2> SUFFICES ASSUME NEW i \in Keys, NEW o \in Ordinals,
                      attempts[i][o] = "success", called[i][o] = 1
               PROVE  attempts'[i][o] = "success" /\ called'[i][o] = 1
    BY DEF HasSuccess
  <2> QED BY <1>4
<1>10. ReadyHasSuccess'
  BY <1>1, <1>9 DEF ReadyHasSuccess, HasSuccess
<1>11. Accounted'
  <2> SUFFICES ASSUME NEW i \in Keys, NEW o \in Ordinals
               PROVE  /\ called'[i][o] \in {0, 1}
                      /\ called'[i][o] = 1 /\ (InStage' \/ cache'[i].status # "absent")
                            => attempts'[i][o] # "none"
    BY DEF Accounted
  <2>1. CASE i = k /\ o = n
    BY <1>2, <1>4, <2>1
  <2>2. CASE i # k \/ o # n
    BY <1>1, <1>2, <1>4, <2>2 DEF Accounted
  <2> QED BY <2>1, <2>2
<1>12. CallersOK'
  <2> SUFFICES ASSUME NEW d \in Callers
               PROVE  RowOK(caller[d])' /\ CallOK(caller[d])'
    BY DEF CallersOK
  <2>1. CASE d = c
    <3>1. RowOK(caller[d])'
      BY <1>3, <2>1 DEF RowOK
    <3>2. CallOK(caller[d])'
      BY <1>3, <2>1 DEF CallOK, HasSuccess
    <3> QED BY <3>1, <3>2
  <2>2. CASE d # c
    <3>1. PICK x : x = caller[d]
      OBVIOUS
    <3>2. x \in CallerRow /\ RowOK(x) /\ CallOK(x) /\ caller'[d] = x
      BY <1>1, <1>3, <2>2, <3>1 DEF CallersOK
    <3>3. x.at \in Busy =>
             /\ attempts'[x.key][x.ordinal] = attempts[x.key][x.ordinal]
             /\ called'[x.key][x.ordinal] = called[x.key][x.ordinal]
      <4> SUFFICES ASSUME x.at \in Busy
                   PROVE  /\ attempts'[x.key][x.ordinal] = attempts[x.key][x.ordinal]
                          /\ called'[x.key][x.ordinal] = called[x.key][x.ordinal]
        OBVIOUS
      <4>1. x.key # k \/ x.ordinal # n
        BY <2>2, <3>1
      <4>2. x.key \in Keys /\ x.max \in Ordinals /\ x.ordinal \in 1 .. x.max
        BY <3>2 DEF RowOK, Busy, Limited, Invocation
      <4>3. x.ordinal \in Ordinals
        BY <4>2, SynthesisAssumption DEF Ordinals
      <4> QED BY <1>4, <4>1, <4>2, <4>3
    <3>4. x.ok /\ InStage' => HasSuccess(x.key)'
      BY <1>2, <1>9, <3>2 DEF CallOK, RowOK
    <3>5. RowOK(caller[d])'
      BY <3>2 DEF RowOK
    <3>6. CallOK(caller[d])'
      BY <1>2, <3>2, <3>3, <3>4 DEF CallOK, Busy, HasSuccess
    <3> QED BY <3>5, <3>6
  <2> QED BY <2>1, <2>2
<1>13. Distinct'
  <2>1. \A d \in Callers \ {c} : ~Clash(r, caller[d])
    BY DEF Clash
  <2> QED BY <2>1, DistinctKept
<1> QED BY <1>2, <1>8, <1>10, <1>11, <1>12, <1>13 DEF SynthesisInvariant

\* The attempt a busy caller attends to, and that nobody else does.
LEMMA BusySays ==
    ASSUME SynthesisInvariant, NEW c \in Callers,
           caller[c].at \in Invocation
    PROVE  /\ caller[c].key \in Keys /\ caller[c].ordinal \in Ordinals
           /\ caller[c].key \in Eligible /\ caller[c].max \in Ordinals
           /\ caller[c].ordinal <= caller[c].max
           /\ caller[c].at \in Busy => \A d \in Callers \ {c} :
                 caller[d].at \in Busy => \/ caller[d].key # caller[c].key
                                          \/ caller[d].ordinal # caller[c].ordinal
<1>1. /\ RowOK(caller[c]) /\ Distinct /\ caller[c].max \in Ordinals
      /\ caller[c].key \in Eligible
  BY CallerSays DEF SynthesisInvariant, Limited, Invocation, Key
<1>2. caller[c].ordinal \in 1 .. caller[c].max
  BY <1>1 DEF RowOK
<1>3. caller[c].ordinal \in Ordinals /\ caller[c].ordinal <= caller[c].max
  BY <1>1, <1>2, SynthesisAssumption DEF Ordinals
<1> QED BY <1>1, <1>3, SynthesisAssumption DEF Distinct, Clash

\* The attempt row is inserted: the call has not been made, and no one else
\* attends to the attempt, since its row did not exist.
LEMMA BeginKeeps ==
    ASSUME SynthesisInvariant, NEW c \in Callers, begin(c)
    PROVE  SynthesisInvariant'
<1>1. CASE Fail(c) /\ UNCHANGED attempts
  <2>1. Quiet
    BY <1>1, QuietStill DEF begin, RowsUnchanged
  <2> QED BY <1>1, <2>1, Fails DEF begin, At, Invocation
<1>2. ASSUME ActiveActor, attempts[Key(c)][caller[c].ordinal] = "none",
             attempts' = [attempts EXCEPT ![Key(c)] =
                            [@ EXCEPT ![caller[c].ordinal] = "pending"]],
             Go(c, "call")
      PROVE  SynthesisInvariant'
  <2>r. PICK r : r = [caller[c] EXCEPT !.at = "call"]
    OBVIOUS
  <2>1. PICK k \in Keys, n \in Ordinals : k = caller[c].key /\ n = caller[c].ordinal
    BY BusySays DEF begin, At, Invocation
  <2>2. caller[c] \in CallerRow /\ RowOK(caller[c]) /\ CallOK(caller[c])
    BY CallerSays
  <2>3. /\ r \in CallerRow /\ r.at = "call" /\ r.key = k
        /\ r.max = caller[c].max /\ r.ordinal = n /\ r.ok = caller[c].ok
    BY <2>r, <2>1, <2>2 DEF CallerRow
  <2>4. caller' = [caller EXCEPT ![c] = r]
    BY <1>2, <2>r DEF Go, Put
  <2>5. InStage /\ caller[c].at = "begin" /\ UNCHANGED <<repo, gen, job, cache, rule, crashes, called>>
    BY <1>2 DEF ActiveActor, InStage, begin, At, JobsUnchanged
  <2>6. RowOK(r)
    BY <2>1, <2>2, <2>3, <2>5 DEF RowOK, Invocation, Limited
  <2>7. attempts[k][n] = "none" /\ attempts' = [attempts EXCEPT ![k] = [@ EXCEPT ![n] = "pending"]]
    BY <1>2, <2>1 DEF Key
  <2>8. called[k][n] = 0 /\ called \in [Keys -> [Ordinals -> Nat]]
    BY <2>5, <2>7 DEF SynthesisInvariant, Accounted, SynthesisTypeOK
  <2>9. called' = [called EXCEPT ![k] = [@ EXCEPT ![n] = 0]]
    BY <2>5, <2>8
  <2>10. \A d \in Callers \ {c} :
            caller[d].at \in Busy => caller[d].key # k \/ caller[d].ordinal # n
    BY <2>5, <2>7 DEF SynthesisInvariant, CallersOK, CallOK
  <2>11. attempts'[k][n] = "pending"
    BY <2>7 DEF SynthesisInvariant, SynthesisTypeOK
  <2>12. r.ok => HasSuccess(k)'
    <3>1. r.ok => HasSuccess(k)
      BY <2>1, <2>2, <2>3, <2>5 DEF CallOK
    <3>2. ASSUME NEW o \in Ordinals, attempts[k][o] = "success", called[k][o] = 1
          PROVE  HasSuccess(k)'
      <4>1. o # n
        BY <3>2, <2>7
      <4>2. attempts'[k][o] = "success"
        BY <3>2, <4>1, <2>7 DEF SynthesisInvariant, SynthesisTypeOK
      <4> QED BY <3>2, <4>2, <2>5 DEF HasSuccess
    <3> QED BY <3>1, <3>2 DEF HasSuccess
  <2>13. CallOK(r)'
    BY <2>3, <2>5, <2>8, <2>11, <2>12 DEF CallOK, HasSuccess
  <2>14. AttemptMove(c, r, k, n, "pending", 0)
    BY <2>3, <2>4, <2>5, <2>6, <2>7, <2>9, <2>10 DEF AttemptMove
  <2> QED BY <2>13, <2>14, AttemptKeeps
<1> QED BY <1>1, <1>2 DEF begin

\* The provider is called for the first time under this ordinal.
LEMMA SendKeeps ==
    ASSUME SynthesisInvariant, NEW c \in Callers, send(c)
    PROVE  SynthesisInvariant'
<1>r. PICK r : r = [caller[c] EXCEPT !.at = "sent"]
  OBVIOUS
<1>1. PICK k \in Keys, n \in Ordinals : k = caller[c].key /\ n = caller[c].ordinal
  BY BusySays DEF send, At, Invocation
<1>2. caller[c] \in CallerRow /\ RowOK(caller[c]) /\ CallOK(caller[c])
  BY CallerSays
<1>3. /\ r \in CallerRow /\ r.at = "sent" /\ r.key = k
      /\ r.max = caller[c].max /\ r.ordinal = n /\ r.ok = caller[c].ok
  BY <1>r, <1>1, <1>2 DEF CallerRow
<1>4. caller' = [caller EXCEPT ![c] = r]
  BY <1>r DEF send, Go, Put
<1>5. caller[c].at = "call" /\ UNCHANGED <<repo, gen, job, cache, rule, crashes, attempts>>
  BY DEF send, At, RowsUnchanged, JobsUnchanged
<1>6. RowOK(r)
  BY <1>1, <1>2, <1>3, <1>5 DEF RowOK, Invocation, Limited
<1>7. /\ attempts \in [Keys -> [Ordinals -> Outcomes \cup {"none", "pending"}]]
      /\ called \in [Keys -> [Ordinals -> Nat]]
  BY DEF SynthesisInvariant, SynthesisTypeOK
<1>8. called[k][n] = 0
  BY <1>1, <1>2, <1>5 DEF CallOK
<1>9. called' = [called EXCEPT ![k] = [@ EXCEPT ![n] = 1]]
  <2>1. called[k][n] + 1 = 1
    BY <1>8
  <2>2. called' = [called EXCEPT ![k][n] = called[k][n] + 1]
    BY <1>1 DEF send, Key
  <2>3. called' = [called EXCEPT ![k][n] = 1]
    BY <2>1, <2>2
  <2> QED BY <1>7, <2>3
<1>10. PICK a \in Outcomes \cup {"none", "pending"} : a = attempts[k][n]
  BY <1>7
<1>11. attempts' = [attempts EXCEPT ![k] = [@ EXCEPT ![n] = a]]
  BY <1>5, <1>7, <1>10
<1>12. /\ InStage => a = "pending"
       /\ cache[k].status # "absent" => a # "none"
  BY <1>1, <1>2, <1>5, <1>10 DEF CallOK, Busy
<1>13. \A d \in Callers \ {c} :
          caller[d].at \in Busy => caller[d].key # k \/ caller[d].ordinal # n
  BY <1>1, <1>5, BusySays DEF Busy, Invocation
<1>14. InStage' <=> InStage
  BY <1>5 DEF InStage
<1>15. r.ok /\ InStage => HasSuccess(k)'
  <2>1. r.ok /\ InStage => HasSuccess(k)
    BY <1>1, <1>2, <1>3 DEF CallOK
  <2>2. ASSUME NEW o \in Ordinals, attempts[k][o] = "success", called[k][o] = 1
        PROVE  HasSuccess(k)'
    <3>1. called'[k][o] = 1
      BY <2>2, <1>7, <1>9
    <3> QED BY <2>2, <3>1, <1>5 DEF HasSuccess
  <2> QED BY <2>1, <2>2 DEF HasSuccess
<1>16. called'[k][n] = 1 /\ attempts'[k][n] = a
  BY <1>5, <1>7, <1>9, <1>10
<1>17. CallOK(r)'
  BY <1>3, <1>12, <1>14, <1>15, <1>16 DEF CallOK, HasSuccess
<1>18. PICK m \in {0, 1} : m = 1
  OBVIOUS
<1>19. called' = [called EXCEPT ![k] = [@ EXCEPT ![n] = m]]
  BY <1>9, <1>18
<1>20. /\ attempts[k][n] = "success" /\ called[k][n] = 1 => a = "success" /\ m = 1
       /\ m = 1 /\ (InStage \/ cache[k].status # "absent") => a # "none"
  BY <1>10, <1>12, <1>18
<1>21. AttemptMove(c, r, k, n, a, m)
  BY <1>3, <1>4, <1>5, <1>6, <1>11, <1>13, <1>19, <1>20 DEF AttemptMove
<1> QED BY <1>17, <1>21, AttemptKeeps

\* A busy caller goes on to settle its attempt with an outcome in memory.
LEMMA OutcomeKeeps ==
    ASSUME SynthesisInvariant, NEW c \in Callers, Quiet,
           caller[c].at \in {"call", "sent"}, NEW last \in Outcomes,
           last = "success" => caller[c].at = "sent",
           last = "transient" => caller[c].ordinal < caller[c].max,
           Put(c, [caller[c] EXCEPT !.at = "finish", !.last = last])
    PROVE  SynthesisInvariant'
<1> DEFINE r == [caller[c] EXCEPT !.at = "finish", !.last = last]
<1>1. caller[c] \in CallerRow /\ RowOK(caller[c]) /\ CallOK(caller[c])
  BY CallerSays
<1>2. /\ r \in CallerRow /\ r.at = "finish" /\ r.key = caller[c].key
      /\ r.max = caller[c].max /\ r.ordinal = caller[c].ordinal
      /\ r.ok = caller[c].ok /\ r.last = last
  BY <1>1 DEF CallerRow
<1>3. caller' = [caller EXCEPT ![c] = r]
  BY DEF Put
<1> HIDE DEF r
<1>4. last # "none"
  BY DEF Outcomes
<1>5. RowOK(r)
  BY <1>1, <1>2, <1>4 DEF RowOK, Invocation, Limited
<1>6. CallOK(r)
  BY <1>1, <1>2 DEF CallOK, Busy
<1>7. caller[c].at \in Busy
  BY DEF Busy
<1> QED BY <1>2, <1>3, <1>5, <1>6, <1>7, CallerMoves DEF MoveTo

\* The call is given up.
LEMMA AbandonKeeps ==
    ASSUME SynthesisInvariant, NEW c \in Callers, abandon(c)
    PROVE  SynthesisInvariant'
<1>1. Quiet
  BY QuietStill DEF abandon
<1> QED BY <1>1, OutcomeKeeps DEF abandon, Outcomes

\* The call ends.
LEMMA AnswerKeeps ==
    ASSUME SynthesisInvariant, NEW c \in Callers, answer(c)
    PROVE  SynthesisInvariant'
<1>1. Quiet
  BY QuietStill DEF answer
<1> QED BY <1>1, OutcomeKeeps DEF answer, At, Outcomes

\* The attempt row is settled; a run is claimed only for a success.
LEMMA FinishKeeps ==
    ASSUME SynthesisInvariant, NEW c \in Callers, finish(c)
    PROVE  SynthesisInvariant'
<1>1. CASE Fail(c) /\ UNCHANGED attempts
  <2>1. Quiet
    BY <1>1, QuietStill DEF finish, RowsUnchanged
  <2> QED BY <1>1, <2>1, Fails DEF finish, At, Invocation
<1>2. ASSUME AccountingActor,
             attempts' = [attempts EXCEPT ![Key(c)] =
                            [@ EXCEPT ![caller[c].ordinal] = caller[c].last]],
             Put(c, [caller[c] EXCEPT !.ok = (caller[c].last = "success"),
                       !.at = IF caller[c].last = "transient"
                              THEN "wait" ELSE "returned"])
      PROVE  SynthesisInvariant'
  <2>1. PICK k \in Keys, n \in Ordinals : k = caller[c].key /\ n = caller[c].ordinal
    BY BusySays DEF finish, At, Invocation
  <2>2. /\ caller[c] \in CallerRow /\ RowOK(caller[c]) /\ CallOK(caller[c])
        /\ caller[c].at = "finish"
    BY CallerSays DEF finish, At
  <2>3. PICK a \in Outcomes : a = caller[c].last
    BY <2>2 DEF CallerRow, RowOK
  <2>4. PICK r : r = [caller[c] EXCEPT !.ok = (a = "success"),
                        !.at = IF a = "transient" THEN "wait" ELSE "returned"]
    OBVIOUS
  <2>5. /\ r \in CallerRow /\ r.key = k /\ r.max = caller[c].max
        /\ r.ordinal = n /\ r.last = a
        /\ r.at = IF a = "transient" THEN "wait" ELSE "returned"
    BY <2>1, <2>2, <2>3, <2>4 DEF CallerRow
  <2>6. r.ok <=> a = "success"
    BY <2>2, <2>4 DEF CallerRow
  <2>7. caller' = [caller EXCEPT ![c] = r]
    BY <1>2, <2>3, <2>4 DEF Put
  <2>8. InStage /\ UNCHANGED <<repo, gen, job, cache, rule, crashes, called>>
    BY <1>2 DEF AccountingActor, InStage, finish, JobsUnchanged
  <2>9. RowOK(r)
    BY <2>1, <2>2, <2>3, <2>5 DEF RowOK, Invocation, Limited
  <2>10. /\ attempts \in [Keys -> [Ordinals -> Outcomes \cup {"none", "pending"}]]
         /\ called \in [Keys -> [Ordinals -> Nat]] /\ Accounted
    BY DEF SynthesisInvariant, SynthesisTypeOK
  <2>11. attempts[k][n] = "pending"
    BY <2>1, <2>2, <2>8 DEF CallOK, Busy
  <2>12. attempts' = [attempts EXCEPT ![k] = [@ EXCEPT ![n] = a]]
    BY <1>2, <2>1, <2>3 DEF Key
  <2>13. PICK m \in {0, 1} : m = called[k][n]
    BY <2>10 DEF Accounted
  <2>14. called' = [called EXCEPT ![k] = [@ EXCEPT ![n] = m]]
    BY <2>8, <2>10, <2>13
  <2>15. a # "none"
    BY DEF Outcomes
  <2>16. \A d \in Callers \ {c} :
            caller[d].at \in Busy => caller[d].key # k \/ caller[d].ordinal # n
    BY <2>1, <2>2, BusySays DEF Busy, Invocation
  <2>17. AttemptMove(c, r, k, n, a, m)
    BY <2>5, <2>7, <2>8, <2>9, <2>11, <2>12, <2>14, <2>15, <2>16 DEF AttemptMove
  <2>18. r.ok => HasSuccess(r.key)'
    <3> SUFFICES ASSUME a = "success" PROVE HasSuccess(r.key)'
      BY <2>6
    <3>1. called[k][n] = 1
      BY <2>1, <2>2, <2>3 DEF CallOK
    <3>2. attempts'[k][n] = "success" /\ called'[k][n] = 1
      BY <2>8, <2>10, <2>12, <3>1
    <3> QED BY <2>5, <3>2 DEF HasSuccess
  <2>19. r.at \notin Busy
    BY <2>5 DEF Busy
  <2>20. CallOK(r)'
    BY <2>18, <2>19 DEF CallOK, Busy
  <2> QED BY <2>17, <2>20, AttemptKeeps
<1> QED BY <1>1, <1>2 DEF finish

\* The delay is over, and the next attempt is within the limit.
LEMMA RetryKeeps ==
    ASSUME SynthesisInvariant, NEW c \in Callers, sleep_retry(c)
    PROVE  SynthesisInvariant'
<1>1. Quiet
  BY QuietStill DEF sleep_retry
<1>2. CASE Fail(c)
  BY <1>1, <1>2, Fails DEF sleep_retry, At, Invocation
<1>3. ASSUME Put(c, [caller[c] EXCEPT !.at = "begin",
                                      !.ordinal = caller[c].ordinal + 1])
      PROVE  SynthesisInvariant'
  <2>n. PICK n \in Nat : n = caller[c].ordinal + 1
    BY CallerSays DEF CallerRow
  <2> DEFINE r == [caller[c] EXCEPT !.at = "begin", !.ordinal = n]
  <2>1. /\ caller[c] \in CallerRow /\ RowOK(caller[c]) /\ CallOK(caller[c])
        /\ caller[c].at = "wait" /\ caller[c].ordinal \in Nat
    BY CallerSays DEF sleep_retry, At, CallerRow
  <2>2. /\ r \in CallerRow /\ r.at = "begin" /\ r.key = caller[c].key
        /\ r.max = caller[c].max /\ r.ordinal = caller[c].ordinal + 1
        /\ r.ok = caller[c].ok
    BY <2>n, <2>1 DEF CallerRow
  <2>3. caller' = [caller EXCEPT ![c] = r]
    BY <1>3, <2>n DEF Put
  <2> HIDE DEF r
  <2>4. r.max \in Ordinals /\ caller[c].ordinal < r.max
    BY <2>1, <2>2 DEF RowOK, Limited, Invocation
  <2>5. r.ordinal \in 1 .. r.max
    BY <2>1, <2>2, <2>4, SynthesisAssumption DEF Ordinals
  <2>6. RowOK(r)
    BY <2>1, <2>2, <2>4, <2>5 DEF RowOK
  <2>7. CallOK(r) /\ r.at \notin Busy
    BY <2>1, <2>2 DEF CallOK, Busy
  <2> QED BY <1>1, <2>3, <2>6, <2>7, CallerMoves DEF MoveTo
<1> QED BY <1>2, <1>3 DEF sleep_retry

\* The watcher raises the flag, wherever its command is.
LEMMA WatchKeeps ==
    ASSUME SynthesisInvariant, NEW c \in Callers,
           watch_owned_job(c) \/ watch_fails(c)
    PROVE  SynthesisInvariant'
<1>1. Quiet
  <2>1. CASE watch_owned_job(c)
    BY <2>1, QuietStill DEF watch_owned_job
  <2>2. CASE watch_fails(c)
    <3>1. StoreMove /\ CacheMove /\ RuleMove
      BY <2>2, StoreStill, CacheStill DEF watch_fails, RowsUnchanged, RuleMove
    <3>2. crashes' \in 0 .. MaxCrashes
      BY <2>2, SynthesisAssumption
         DEF watch_fails, SynthesisInvariant, SynthesisTypeOK
    <3> QED BY <2>2, <3>1, <3>2 DEF watch_fails, RowsUnchanged, Quiet
  <2> QED BY <2>1, <2>2
<1>2. PICK w \in {"cancelled", "lost"} :
         Put(c, [caller[c] EXCEPT !.flag = TRUE, !.watch = w])
  BY DEF watch_owned_job, watch_fails
<1> DEFINE r == [caller[c] EXCEPT !.flag = TRUE, !.watch = w]
<1>3. caller[c] \in CallerRow /\ RowOK(caller[c]) /\ CallOK(caller[c])
  BY CallerSays
<1>4. /\ r \in CallerRow /\ r.at = caller[c].at /\ r.key = caller[c].key
      /\ r.max = caller[c].max /\ r.ordinal = caller[c].ordinal
      /\ r.ok = caller[c].ok /\ r.last = caller[c].last
  BY <1>3 DEF CallerRow
<1>5. caller' = [caller EXCEPT ![c] = r]
  BY <1>2 DEF Put
<1> HIDE DEF r
<1>6. RowOK(r)
  BY <1>3, <1>4 DEF RowOK
<1>7. CallOK(r)
  BY <1>3, <1>4 DEF CallOK
<1> QED BY <1>1, <1>4, <1>5, <1>6, <1>7, CallerMoves DEF MoveTo

\* The watcher has reported; only the outcome of the last attempt is kept.
LEMMA ReturnedKeeps ==
    ASSUME SynthesisInvariant, NEW c \in Callers, returned(c)
    PROVE  SynthesisInvariant'
<1>1. Quiet
  BY QuietStill DEF returned
<1>2. CASE Return(c)
  BY <1>1, <1>2, Returns
<1>3. ASSUME Put(c, [NoCall EXCEPT !.at = "outcome", !.key = Key(c),
                                   !.last = caller[c].last, !.ok = caller[c].ok])
      PROVE  SynthesisInvariant'
  <2> DEFINE r == [NoCall EXCEPT !.at = "outcome", !.key = Key(c),
                                 !.last = caller[c].last, !.ok = caller[c].ok]
  <2>1. /\ caller[c] \in CallerRow /\ CallOK(caller[c])
        /\ caller[c].at = "returned" /\ Key(c) \in Eligible /\ Key(c) \in Keys
    BY CallerSays DEF returned, At
  <2>2. /\ r \in CallerRow /\ r.at = "outcome" /\ r.key = Key(c)
        /\ r.ok = caller[c].ok
    BY <2>1 DEF NoCall, CallerRow
  <2>3. caller' = [caller EXCEPT ![c] = r]
    BY <1>3 DEF Put
  <2> HIDE DEF r
  <2>4. RowOK(r)
    BY <2>1, <2>2 DEF RowOK, Limited, Invocation
  <2>5. CallOK(r) /\ r.at \notin Busy
    BY <2>1, <2>2 DEF CallOK, Busy, Key
  <2> QED BY <1>1, <2>3, <2>4, <2>5, CallerMoves DEF MoveTo
<1> QED BY <1>2, <1>3 DEF returned

\* One of the three endings is chosen.
LEMMA OutcomeChosen ==
    ASSUME SynthesisInvariant, NEW c \in Callers, owned_job_outcome(c)
    PROVE  SynthesisInvariant'
<1>1. Quiet
  BY QuietStill DEF owned_job_outcome
<1>2. caller[c].at = "outcome" /\ Key(c) \in Eligible
  BY CallerSays DEF owned_job_outcome, At
<1>3. CASE Return(c)
  BY <1>1, <1>3, Returns
<1>4. ASSUME NEW at \in {"settle", "finalize", "failure"}, Go(c, at),
             at = "finalize" => caller[c].ok
      PROVE  SynthesisInvariant'
  BY <1>1, <1>2, <1>4, Goes DEF Limited, Invocation
<1> QED BY <1>3, <1>4 DEF owned_job_outcome

\* The reservation of a cancelled job is settled.
LEMMA SettleKeeps ==
    ASSUME SynthesisInvariant, NEW c \in Callers, settle_cancelled_job(c)
    PROVE  SynthesisInvariant'
<1>1. caller[c].at = "settle" /\ Key(c) \in Eligible
  BY CallerSays DEF settle_cancelled_job, At
<1>2. Quiet
  BY <1>1, QuietSettle DEF settle_cancelled_job
<1>3. CASE Return(c)
  BY <1>2, <1>3, Returns
<1>4. CASE Go(c, "acknowledge")
  BY <1>1, <1>2, <1>4, Goes DEF Limited, Invocation
<1> QED BY <1>3, <1>4 DEF settle_cancelled_job

\* The cancelled job is acknowledged.
LEMMA AcknowledgeKeeps ==
    ASSUME SynthesisInvariant, NEW c \in Callers, settle_acknowledge(c)
    PROVE  SynthesisInvariant'
<1>1. StoreMove
  BY StoreMoves, StoreStill
     DEF settle_acknowledge, SynthesisInvariant, SynthesisTypeOK
<1>2. Quiet
  BY <1>1, CacheStill
     DEF settle_acknowledge, Quiet, RuleMove, SynthesisInvariant, SynthesisTypeOK
<1> QED BY <1>2, Returns DEF settle_acknowledge

\* An answer is stored only by the caller whose attempt succeeded.
LEMMA StoreAnswerKeeps ==
    ASSUME SynthesisInvariant, NEW c \in Callers, finalize_synthesis_run(c)
    PROVE  SynthesisInvariant'
<1>1. /\ caller[c].at = "finalize" /\ Key(c) \in Eligible /\ Key(c) \in Keys
      /\ CallOK(caller[c]) /\ caller[c].ok
  BY CallerSays DEF finalize_synthesis_run, At, RowOK
<1>2. ASSUME ActiveActor, cache[Key(c)].status = "pending",
             SetCache(Key(c), "ready"), Go(c, "catalog")
      PROVE  SynthesisInvariant'
  <2>1. HasSuccess(Key(c))
    BY <1>1, <1>2 DEF CallOK, ActiveActor, InStage, Key
  <2>2. CacheMove
    BY <1>1, <1>2, <2>1, CacheWrite DEF Settled
  <2>3. Quiet
    BY <2>2, QuietWrite DEF finalize_synthesis_run
  <2> QED BY <1>1, <1>2, <2>3, Goes DEF Limited, Invocation
<1>3. CASE Return(c) /\ UNCHANGED cache
  BY <1>3, QuietWrite, Returns DEF finalize_synthesis_run
<1> QED BY <1>2, <1>3 DEF finalize_synthesis_run

\* A failed invocation settles its reservation.
LEMMA FailureKeeps ==
    ASSUME SynthesisInvariant, NEW c \in Callers, finalize_synthesis_failure(c)
    PROVE  SynthesisInvariant'
<1>1. caller[c].at = "failure" /\ Key(c) \in Eligible
  BY CallerSays DEF finalize_synthesis_failure, At
<1>2. PICK s \in {"failed", "cancelled"} :
         SettleWithoutResponse(Key(c), s) \/ UNCHANGED cache
  BY DEF finalize_synthesis_failure
<1>3. Quiet
  BY <1>1, <1>2, QuietSettle DEF finalize_synthesis_failure
<1> QED BY <1>3, Returns DEF finalize_synthesis_failure

\* The answer is materialised, at most once, or the transaction is refused.
LEMMA MaterializeKeeps ==
    ASSUME SynthesisInvariant, NEW c \in Callers, materialize(c)
    PROVE  SynthesisInvariant'
<1>1. /\ TypeOK /\ CacheMove /\ caller[c].at = "catalog" /\ Key(c) \in Keys
      /\ crashes' \in 0 .. MaxCrashes
  BY CacheStill, CallerSays
     DEF materialize, SynthesisInvariant, SynthesisTypeOK, At
<1>2. CASE JobsUnchanged /\ UNCHANGED rule
  <2>1. Quiet
    BY <1>1, <1>2, StoreStill DEF materialize, Quiet, RuleMove
  <2> QED BY <2>1, Returns DEF materialize
<1>3. ASSUME cache[Key(c)].status = "ready",
             finalize_synthesis_catalog(Job, Owner, 0),
             rule' = [rule EXCEPT ![Key(c)] = "model"]
      PROVE  SynthesisInvariant'
  <2>1. StoreMove /\ InStage /\ ~InStage'
    BY <1>1, <1>3, StoreMoves, CatalogLeaves
  <2>2. RuleMove
    BY <1>1, <1>3, <2>1 DEF RuleMove, materialize
  <2>3. Quiet
    BY <1>1, <2>1, <2>2 DEF Quiet, materialize
  <2> QED BY <2>3, Returns DEF materialize
<1> QED BY <1>2, <1>3 DEF materialize, finalize_model_catalog

\* Every step of a command keeps the invariant.
LEMMA CallKeeps ==
    ASSUME SynthesisInvariant, NEW c \in Callers, Call(c)
    PROVE  SynthesisInvariant'
BY CheckKeeps, ExclusionKeeps, ReserveKeeps, CachedKeeps, SettleFailedKeeps,
   BeginKeeps, SendKeeps, AbandonKeeps, AnswerKeeps, FinishKeeps, RetryKeeps,
   ReturnedKeeps, OutcomeChosen, SettleKeeps, AcknowledgeKeeps,
   StoreAnswerKeeps, MaterializeKeeps, FailureKeeps
   DEF Call

----------------------------------------------------------------------------
(* The steps of nobody's command.                                          *)

\* The commands that cancel, continue or publish the job.
LEMMA JobMoves ==
    ASSUME SynthesisInvariant,
           \/ cancel_business_rule_synthesis
           \/ continue_business_rule_synthesis_without_model
           \/ continue_overtakes
    PROVE  SynthesisInvariant'
<1>1. StoreMove
  BY StoreMoves
     DEF SynthesisInvariant, SynthesisTypeOK, cancel_business_rule_synthesis,
         continue_business_rule_synthesis_without_model, continue_overtakes
<1>2. UNCHANGED <<cache, attempts, rule, called, caller, crashes>>
  BY DEF cancel_business_rule_synthesis, SynthesisUnchanged,
         continue_business_rule_synthesis_without_model, continue_overtakes
<1>3. CacheMove /\ RuleMove
  BY <1>2, CacheStill DEF RuleMove
<1> QED BY <1>1, <1>2, <1>3, CallersStay

\* A reservation lapses.
LEMMA LapseKeeps ==
    ASSUME SynthesisInvariant, reservation_lapses
    PROVE  SynthesisInvariant'
<1>1. PICK k \in Keys :
         /\ cache[k].status = "pending"
         /\ cache' = [cache EXCEPT ![k] = [@ EXCEPT !.lapsed = TRUE]]
  BY DEF reservation_lapses
<1>2. cache \in [Keys -> CacheRow] /\ CatalogBacked /\ Barred
  BY DEF SynthesisInvariant, SynthesisTypeOK
<1>3. PICK x : x = [cache[k] EXCEPT !.lapsed = TRUE]
  OBVIOUS
<1>4. x \in CacheRow /\ x.status = "pending"
  BY <1>1, <1>2, <1>3 DEF CacheRow
<1>5. cache' = [cache EXCEPT ![k] = x]
  BY <1>1, <1>3
<1>6. cache' \in [Keys -> CacheRow] /\ \A i \in Keys : cache'[i].status = cache[i].status
  BY <1>1, <1>2, <1>4, <1>5
<1>7. CacheMove
  BY <1>2, <1>6 DEF CacheMove, CatalogBacked, Barred
<1>8. StoreMove /\ RuleMove
  BY StoreStill DEF reservation_lapses, RuleMove
<1> QED BY <1>7, <1>8, CallersStay DEF reservation_lapses

\* The process ends: every command is gone, the rows stay.
LEMMA CrashKeeps ==
    ASSUME SynthesisInvariant, crash
    PROVE  SynthesisInvariant'
<1>1. UNCHANGED <<repo, gen, job, cache, attempts, rule, called>>
  BY DEF crash, RowsUnchanged, JobsUnchanged
<1>2. /\ Accounted' /\ ReadyHasSuccess' /\ CatalogBacked' /\ Barred'
      /\ TypeOK' /\ cache' \in [Keys -> CacheRow]
      /\ attempts' \in [Keys -> [Ordinals -> Outcomes \cup {"none", "pending"}]]
      /\ rule' \in [Keys -> {"deterministic", "model"}]
      /\ called' \in [Keys -> [Ordinals -> Nat]]
  BY <1>1, TablesKept, StoreStill, CacheStill DEF JobsUnchanged, RuleMove
<1>3. crashes' \in 0 .. MaxCrashes
  BY SynthesisAssumption DEF crash, SynthesisInvariant, SynthesisTypeOK
<1>4. \A c \in Callers : caller'[c] = NoCall
  BY DEF crash
<1>5. NoCall \in CallerRow /\ NoCall.at \notin Busy /\ NoCall.ok = FALSE
  BY NoCallOK DEF RowOK, NoCall
<1>6. caller' \in [Callers -> CallerRow]
  BY <1>5 DEF crash
<1>7. CallersOK'
  <2> SUFFICES ASSUME NEW c \in Callers
               PROVE  RowOK(caller[c])' /\ CallOK(caller[c])'
    BY DEF CallersOK
  <2>1. caller'[c] = NoCall
    BY <1>4
  <2>2. RowOK(caller[c])'
    BY <2>1, NoCallOK DEF RowOK
  <2>3. CallOK(caller[c])'
    BY <2>1, <1>5 DEF CallOK, Busy
  <2> QED BY <2>2, <2>3
<1>8. Distinct'
  BY <1>4, <1>5 DEF Distinct, Clash
<1> QED BY <1>2, <1>3, <1>6, <1>7, <1>8 DEF SynthesisInvariant, SynthesisTypeOK

\* Cleanup deletes reservations with their attempts, after the stage.
LEMMA CleanupDeletes ==
    ASSUME SynthesisInvariant, cleanup_business_rule_synthesis
    PROVE  SynthesisInvariant'
<1>1. PICK deleted \in SUBSET {k \in Keys : cache[k].status # "absent"
                                              /\ rule[k] # "model"} :
         /\ cache' = [k \in Keys |-> IF k \in deleted THEN Row("absent")
                                                      ELSE cache[k]]
         /\ attempts' = [k \in Keys |->
                           IF k \in deleted THEN [n \in Ordinals |-> "none"]
                                            ELSE attempts[k]]
  BY DEF cleanup_business_rule_synthesis
<1>2. UNCHANGED <<repo, gen, job, rule, called, caller, crashes>> /\ ~InStage
  BY DEF cleanup_business_rule_synthesis, JobsUnchanged, InStage
<1>3. /\ caller \in [Callers -> CallerRow] /\ CallersOK /\ Distinct
      /\ cache \in [Keys -> CacheRow]
      /\ attempts \in [Keys -> [Ordinals -> Outcomes \cup {"none", "pending"}]]
      /\ Accounted /\ ReadyHasSuccess /\ CatalogBacked /\ Barred
      /\ SynthesisTypeOK
  BY DEF SynthesisInvariant, SynthesisTypeOK
<1>4. Row("absent") \in CacheRow /\ Row("absent").status = "absent"
  BY DEF Row, CacheRow
<1>5. \A k \in Keys : \/ cache'[k].status = "absent" /\ k \in deleted
                      \/ cache'[k] = cache[k] /\ attempts'[k] = attempts[k]
  BY <1>1, <1>4
<1>6. TypeOK' /\ ~InStage'
  BY <1>2, <1>3 DEF SynthesisTypeOK, TypeOK, InStage
<1>7. cache' \in [Keys -> CacheRow]
  BY <1>1, <1>3, <1>4
<1>8. attempts' \in [Keys -> [Ordinals -> Outcomes \cup {"none", "pending"}]]
  BY <1>1, <1>3
<1>9. SynthesisTypeOK'
  BY <1>2, <1>3, <1>6, <1>7, <1>8 DEF SynthesisTypeOK
<1>10. Accounted'
  BY <1>2, <1>3, <1>5, <1>6 DEF Accounted
<1>11. ReadyHasSuccess' /\ Barred'
  BY <1>2, <1>3, <1>5 DEF ReadyHasSuccess, Barred
<1>12. CatalogBacked'
  <2>1. \A k \in Keys : rule'[k] = "model" => cache'[k].status = "ready"
    BY <1>1, <1>2, <1>3 DEF CatalogBacked
  <2> QED BY <1>2, <1>3, <2>1 DEF CatalogBacked
<1>13. CallersOK'
  <2> SUFFICES ASSUME NEW c \in Callers
               PROVE  RowOK(caller[c])' /\ CallOK(caller[c])'
    BY DEF CallersOK
  <2>1. PICK x : x = caller[c]
    OBVIOUS
  <2>2. RowOK(x) /\ CallOK(x) /\ caller'[c] = x
    BY <1>2, <1>3, <2>1 DEF CallersOK
  <2>3. x.at = "call" => x.key \in Keys
    BY <2>2 DEF RowOK
  <2>4. x.at = "call" /\ cache'[x.key].status # "absent"
          => attempts'[x.key][x.ordinal] # "none"
    BY <1>5, <2>2, <2>3 DEF CallOK
  <2>5. RowOK(caller[c])'
    BY <2>2 DEF RowOK
  <2>6. CallOK(caller[c])'
    BY <1>2, <1>6, <2>2, <2>4 DEF CallOK
  <2> QED BY <2>5, <2>6
<1>14. Distinct'
  BY <1>2, <1>3 DEF Distinct, Clash
<1> QED BY <1>9, <1>10, <1>11, <1>12, <1>13, <1>14 DEF SynthesisInvariant

----------------------------------------------------------------------------
(* The theorems.                                                           *)

\* Synthesis starts from a job whose templates are derived.
LEMMA InitSynthesis == SynthesisInit => SynthesisInvariant
<1> SUFFICES ASSUME SynthesisInit PROVE SynthesisInvariant
  OBVIOUS
<1>1. repo \in RepoRow /\ gen \in [Gens -> GenRow]
  BY Blank, Chosen DEF SynthesisInit, RepoRow, GenRow, Seals, Products
<1>2. [NoJob EXCEPT !.state = "running", !.stage = "synthesize",
                    !.gen = Gen, !.owner = Owner, !.plan = Units] \in JobRow
  BY Blank, Names, Chosen DEF JobRow, NoJob
<1>3. job \in [Jobs -> JobRow]
  BY <1>2, Blank DEF SynthesisInit
<1>4. TypeOK
  BY <1>1, <1>3 DEF TypeOK
<1>5. Row("absent") \in CacheRow /\ Row("absent").status = "absent"
  BY DEF Row, CacheRow
<1>6. \A c \in Callers : caller[c] = NoCall
  BY DEF SynthesisInit
<1>7. SynthesisTypeOK
  <2>1. cache \in [Keys -> CacheRow]
    BY <1>5 DEF SynthesisInit
  <2>2. caller \in [Callers -> CallerRow]
    BY NoCallOK DEF SynthesisInit, RowOK
  <2>3. crashes \in 0 .. MaxCrashes
    BY SynthesisAssumption DEF SynthesisInit
  <2> QED BY <1>4, <2>1, <2>2, <2>3 DEF SynthesisInit, SynthesisTypeOK
<1>8. CallersOK /\ Distinct
  BY <1>6, NoCallOK DEF CallersOK, Distinct, Clash
<1>9. \A k \in Keys : cache[k].status = "absent" /\ rule[k] = "deterministic"
  BY <1>5 DEF SynthesisInit
<1>10. Accounted /\ ReadyHasSuccess /\ Barred
  BY <1>9 DEF SynthesisInit, Accounted, ReadyHasSuccess, Barred
<1>11. CatalogBacked
  <2>1. {k \in Keys : rule[k] = "model"} = {}
    BY <1>9
  <2>2. Cardinality({k \in Keys : rule[k] = "model"}) <= 1
    BY <2>1, FS_EmptySet
  <2> QED BY <1>9, <2>2 DEF CatalogBacked
<1> QED BY <1>7, <1>8, <1>10, <1>11 DEF SynthesisInvariant

\* Every step keeps the invariant.
LEMMA StepSynthesis ==
    SynthesisInvariant /\ [SynthesisNext]_synthesisVars => SynthesisInvariant'
<1>1. ASSUME SynthesisInvariant, UNCHANGED synthesisVars
      PROVE  SynthesisInvariant'
  BY <1>1, StoreStill, CacheStill, CallersStay
     DEF synthesisVars, JobsUnchanged, RuleMove
<1>2. ASSUME SynthesisInvariant, SynthesisNext
      PROVE  SynthesisInvariant'
  BY <1>2, StartKeeps, CallKeeps, WatchKeeps, JobMoves, CleanupDeletes,
     LapseKeeps, CrashKeeps DEF SynthesisNext
<1> QED BY <1>1, <1>2

\* Whatever the commands do, the rows of the job store, the reservations, the
\* attempts and the callers' own state agree.
THEOREM SynthesisInvariantHolds == SynthesisSpec => []SynthesisInvariant
BY InitSynthesis, StepSynthesis, PTL DEF SynthesisSpec

\* The rows of archaeology_synthesis_cache and archaeology_synthesis_attempts
\* and the state of every run command are well formed.
THEOREM SynthesisTypeCorrect == SynthesisSpec => []SynthesisTypeOK
<1>1. SynthesisInvariant => SynthesisTypeOK
  BY DEF SynthesisInvariant
<1> QED BY <1>1, SynthesisInvariantHolds, PTL

\* The provider is called once at most under an ordinal, and every call is
\* accounted for, for any number of commands that overlap, are cut off by the
\* end of the process, or take over a lapsed reservation.
THEOREM CalledOnce == SynthesisSpec => []OneCallPerAttempt
<1>1. SynthesisInvariant => OneCallPerAttempt
  BY DEF SynthesisInvariant, Accounted, OneCallPerAttempt
<1> QED BY <1>1, SynthesisInvariantHolds, PTL

\* The answer load_ready_synthesis_cache serves is one the provider gave and
\* an attempt recorded.
THEOREM AnswerRecorded == SynthesisSpec => []ReadyHasSuccess
<1>1. SynthesisInvariant => ReadyHasSuccess
  BY DEF SynthesisInvariant
<1> QED BY <1>1, SynthesisInvariantHolds, PTL

\* The clauses finalize_model_catalog writes are those of one stored answer,
\* and writing them is what ends the stage.
THEOREM CatalogHasAnswer == SynthesisSpec => []CatalogBacked
<1>1. SynthesisInvariant => CatalogBacked
  BY DEF SynthesisInvariant
<1> QED BY <1>1, SynthesisInvariantHolds, PTL

\* What a step may do to the status of a reservation.
StatusStep(k) ==
    \/ cache'[k].status \in {cache[k].status, "absent"}
    \/ /\ cache[k].status \notin Settled
       /\ cache'[k].status = "ready" => ActiveActor

\* A write to one reservation that was not settled, or says the same again.
LEMMA WriteStep ==
    ASSUME SynthesisInvariant, NEW k \in Keys, NEW s \in {"pending"} \cup Settled,
           SetCache(k, s), cache[k].status \in Settled => s = cache[k].status,
           s = "ready" => ActiveActor
    PROVE  \A i \in Keys : StatusStep(i)
<1>1. cache \in [Keys -> CacheRow]
  BY DEF SynthesisInvariant, SynthesisTypeOK
<1>2. Row(s) \in CacheRow /\ Row(s).status = s
  BY Rows
<1>3. cache'[k].status = s /\ \A i \in Keys \ {k} : cache'[i] = cache[i]
  BY <1>1, <1>2 DEF SetCache
<1> QED BY <1>3 DEF StatusStep

\* The writers of reservations.
LEMMA StatusSteps ==
    ASSUME SynthesisInvariant, SynthesisNext
    PROVE  \A k \in Keys : StatusStep(k)
<1>1. CASE UNCHANGED cache
  BY <1>1 DEF StatusStep
<1>2. ASSUME NEW c \in Callers, caller[c].at # "idle", NEW s \in Settled,
             SettleWithoutResponse(Key(c), s), s # "ready"
      PROVE  \A k \in Keys : StatusStep(k)
  <2>1. Key(c) \in Keys /\ cache[Key(c)].status \notin Settled
    BY <1>2, CallerSays DEF SettleWithoutResponse, Settled
  <2> QED BY <1>2, <2>1, WriteStep DEF SettleWithoutResponse
<1>3. ASSUME NEW c \in Callers, persist_synthesis_exclusion(c)
      PROVE  \A k \in Keys : StatusStep(k)
  <2>1. Key(c) \in Keys \ Eligible
    BY <1>3, CallerSays DEF persist_synthesis_exclusion, At
  <2>2. cache[Key(c)].status \in {"absent", "excluded"}
    BY <2>1 DEF SynthesisInvariant, Barred
  <2>3. CASE SetCache(Key(c), "excluded")
    BY <2>1, <2>2, <2>3, WriteStep DEF Settled
  <2> QED BY <1>1, <1>3, <2>3 DEF persist_synthesis_exclusion
<1>4. ASSUME NEW c \in Callers, reserve_synthesis_cache(c)
      PROVE  \A k \in Keys : StatusStep(k)
  <2>1. Key(c) \in Keys
    BY <1>4, CallerSays DEF reserve_synthesis_cache, At
  <2>2. ASSUME cache[Key(c)].status \in {"absent", "pending"},
               NEW s \in {"failed", "pending"}, SetCache(Key(c), s)
        PROVE  \A k \in Keys : StatusStep(k)
    BY <2>1, <2>2, WriteStep DEF Settled
  <2> QED BY <1>1, <1>4, <2>2 DEF reserve_synthesis_cache
<1>5. ASSUME NEW c \in Callers, finalize_synthesis_run(c)
      PROVE  \A k \in Keys : StatusStep(k)
  <2>1. Key(c) \in Keys
    BY <1>5, CallerSays DEF finalize_synthesis_run, At
  <2>2. CASE /\ ActiveActor /\ cache[Key(c)].status = "pending"
             /\ SetCache(Key(c), "ready")
    BY <2>1, <2>2, WriteStep DEF Settled
  <2> QED BY <1>1, <1>5, <2>2 DEF finalize_synthesis_run
<1>6. ASSUME NEW c \in Callers,
             \/ settle_failed_reservation(c) \/ settle_cancelled_job(c)
             \/ finalize_synthesis_failure(c)
      PROVE  \A k \in Keys : StatusStep(k)
  <2>1. PICK s \in {"failed", "cancelled"} :
           SettleWithoutResponse(Key(c), s) \/ UNCHANGED cache
    BY <1>6 DEF settle_failed_reservation, settle_cancelled_job,
           finalize_synthesis_failure
  <2>2. caller[c].at # "idle" /\ s \in Settled /\ s # "ready"
    BY <1>6 DEF settle_failed_reservation, settle_cancelled_job,
           finalize_synthesis_failure, At, Settled
  <2> QED BY <1>1, <1>2, <2>1, <2>2
<1>7. CASE cleanup_business_rule_synthesis
  <2>1. PICK deleted \in SUBSET Keys :
           cache' = [k \in Keys |-> IF k \in deleted THEN Row("absent")
                                                     ELSE cache[k]]
    BY <1>7 DEF cleanup_business_rule_synthesis
  <2>2. Row("absent").status = "absent"
    BY DEF Row
  <2> QED BY <2>1, <2>2 DEF StatusStep
<1>8. CASE reservation_lapses
  <2>1. PICK k \in Keys : cache' = [cache EXCEPT ![k] = [@ EXCEPT !.lapsed = TRUE]]
    BY <1>8 DEF reservation_lapses
  <2>2. cache \in [Keys -> CacheRow]
    BY DEF SynthesisInvariant, SynthesisTypeOK
  <2>3. [cache[k] EXCEPT !.lapsed = TRUE].status = cache[k].status
    BY <2>2 DEF CacheRow
  <2>4. \A i \in Keys : cache'[i].status = cache[i].status
    BY <2>1, <2>2, <2>3
  <2> QED BY <2>4 DEF StatusStep
<1>9. ASSUME NEW c \in Callers,
             \/ run_business_rule_synthesis(c) \/ watch_owned_job(c)
             \/ watch_fails(c) \/ check_job(c) \/ cached_synthesis_result(c)
             \/ begin(c) \/ send(c) \/ abandon(c) \/ answer(c) \/ finish(c)
             \/ sleep_retry(c) \/ returned(c) \/ owned_job_outcome(c)
             \/ settle_acknowledge(c) \/ materialize(c)
      PROVE  UNCHANGED cache
  BY <1>9 DEF run_business_rule_synthesis, watch_owned_job, watch_fails, check_job,
     cached_synthesis_result, begin, send, abandon, answer, finish,
     sleep_retry, returned, owned_job_outcome, settle_acknowledge,
     materialize, RowsUnchanged
<1>10. ASSUME \/ cancel_business_rule_synthesis
              \/ continue_business_rule_synthesis_without_model
              \/ continue_overtakes \/ crash
       PROVE  UNCHANGED cache
  BY <1>10 DEF cancel_business_rule_synthesis, SynthesisUnchanged,
     continue_business_rule_synthesis_without_model, continue_overtakes,
     crash, RowsUnchanged
<1> QED BY <1>1, <1>3, <1>4, <1>5, <1>6, <1>7, <1>8, <1>9, <1>10
        DEF SynthesisNext, Call

\* Once a reservation is settled, no command that comes late, takes over or
\* retries writes it again.
THEOREM SettlementIsFinal == SynthesisSpec => SettledStays
<1>1. ASSUME SynthesisInvariant, [SynthesisNext]_synthesisVars
      PROVE  [\A k \in Keys : cache[k].status \in Settled =>
                cache'[k].status \in {cache[k].status, "absent"}]_synthesisVars
  BY <1>1, StatusSteps DEF StatusStep
<1> QED BY <1>1, SynthesisInvariantHolds, PTL DEF SynthesisSpec, SettledStays

\* The writers of rules.
LEMMA RuleSteps ==
    ASSUME SynthesisNext, job[Job].cancel
    PROVE  rule' = rule
<1>1. ASSUME NEW c \in Callers, materialize(c)
      PROVE  rule' = rule
  BY <1>1 DEF materialize, finalize_model_catalog, OwnedJob, HoldsLease
<1>2. ASSUME NEW c \in Callers,
             \/ run_business_rule_synthesis(c) \/ watch_owned_job(c)
             \/ watch_fails(c) \/ check_job(c) \/ persist_synthesis_exclusion(c)
             \/ reserve_synthesis_cache(c) \/ cached_synthesis_result(c)
             \/ settle_failed_reservation(c) \/ begin(c) \/ send(c)
             \/ abandon(c) \/ answer(c) \/ finish(c) \/ sleep_retry(c)
             \/ returned(c) \/ owned_job_outcome(c) \/ settle_cancelled_job(c)
             \/ settle_acknowledge(c) \/ finalize_synthesis_run(c)
             \/ finalize_synthesis_failure(c)
      PROVE  rule' = rule
  BY <1>2 DEF run_business_rule_synthesis, watch_owned_job, watch_fails, check_job,
     persist_synthesis_exclusion, reserve_synthesis_cache,
     cached_synthesis_result, settle_failed_reservation, begin, send, abandon,
     answer, finish, sleep_retry, returned, owned_job_outcome,
     settle_cancelled_job, settle_acknowledge, finalize_synthesis_run,
     finalize_synthesis_failure, RowsUnchanged
<1>3. ASSUME \/ cancel_business_rule_synthesis
             \/ continue_business_rule_synthesis_without_model
             \/ continue_overtakes \/ cleanup_business_rule_synthesis
             \/ reservation_lapses \/ crash
      PROVE  rule' = rule
  BY <1>3 DEF cancel_business_rule_synthesis, SynthesisUnchanged,
     continue_business_rule_synthesis_without_model, continue_overtakes,
     cleanup_business_rule_synthesis, reservation_lapses, crash, RowsUnchanged
<1> QED BY <1>1, <1>2, <1>3 DEF SynthesisNext, Call

\* A cancellation that was recorded keeps every answer out of the cache and
\* out of the catalog, wherever the commands were at that moment.
THEOREM CancellationWins == SynthesisSpec => CancelWins
<1>1. ASSUME SynthesisInvariant, [SynthesisNext]_synthesisVars
      PROVE  [job[Job].cancel =>
                \A k \in Keys :
                    /\ cache'[k].status = "ready" => cache[k].status = "ready"
                    /\ rule'[k] = rule[k]]_synthesisVars
  <2> SUFFICES ASSUME SynthesisNext, job[Job].cancel, NEW k \in Keys
               PROVE  /\ cache'[k].status = "ready" => cache[k].status = "ready"
                      /\ rule'[k] = rule[k]
    BY <1>1
  <2>1. StatusStep(k) /\ ~ActiveActor
    BY <1>1, StatusSteps DEF ActiveActor, HoldsLease
  <2> QED BY <2>1, RuleSteps DEF StatusStep
<1> QED BY <1>1, SynthesisInvariantHolds, PTL DEF SynthesisSpec, CancelWins

\* Every step of synthesis is a transaction of the job store or no step of it.
LEMMA StoreSteps ==
    ASSUME SynthesisInvariant, [SynthesisNext]_synthesisVars
    PROVE  [Next]_vars
<1>1. ASSUME UNCHANGED <<repo, gen, job>>
      PROVE  [Next]_vars
  BY <1>1 DEF vars
<1>2. ASSUME \/ cancel_business_rule_synthesis
             \/ continue_business_rule_synthesis_without_model
             \/ continue_overtakes
      PROVE  [Next]_vars
  BY <1>2, StoreMoves
     DEF SynthesisInvariant, SynthesisTypeOK, cancel_business_rule_synthesis,
         continue_business_rule_synthesis_without_model, continue_overtakes,
         StoreMove
<1>3. ASSUME NEW c \in Callers, settle_acknowledge(c) \/ materialize(c)
      PROVE  [Next]_vars
  BY <1>1, <1>3, StoreMoves
     DEF SynthesisInvariant, SynthesisTypeOK, settle_acknowledge, materialize,
         finalize_model_catalog, JobsUnchanged, StoreMove
<1>4. ASSUME NEW c \in Callers,
             \/ run_business_rule_synthesis(c) \/ watch_owned_job(c)
             \/ watch_fails(c) \/ check_job(c) \/ persist_synthesis_exclusion(c)
             \/ reserve_synthesis_cache(c) \/ cached_synthesis_result(c)
             \/ settle_failed_reservation(c) \/ begin(c) \/ send(c)
             \/ abandon(c) \/ answer(c) \/ finish(c) \/ sleep_retry(c)
             \/ returned(c) \/ owned_job_outcome(c) \/ settle_cancelled_job(c)
             \/ finalize_synthesis_run(c) \/ finalize_synthesis_failure(c)
      PROVE  UNCHANGED <<repo, gen, job>>
  BY <1>4 DEF run_business_rule_synthesis, watch_owned_job, watch_fails, check_job,
     persist_synthesis_exclusion, reserve_synthesis_cache,
     cached_synthesis_result, settle_failed_reservation, begin, send, abandon,
     answer, finish, sleep_retry, returned, owned_job_outcome,
     settle_cancelled_job, finalize_synthesis_run,
     finalize_synthesis_failure, RowsUnchanged, JobsUnchanged
<1>5. ASSUME \/ cleanup_business_rule_synthesis \/ reservation_lapses
             \/ crash \/ UNCHANGED synthesisVars
      PROVE  UNCHANGED <<repo, gen, job>>
  BY <1>5 DEF cleanup_business_rule_synthesis, reservation_lapses, crash,
     RowsUnchanged, JobsUnchanged, synthesisVars
<1> QED BY <1>1, <1>2, <1>3, <1>4, <1>5 DEF SynthesisNext, Call

\* The job synthesis starts from is one the job store can hold.
LEMMA InitStore == SynthesisInit => JobsInvariant
<1> SUFFICES ASSUME SynthesisInit PROVE JobsInvariant
  OBVIOUS
<1>1. TypeOK
  BY InitSynthesis DEF SynthesisInvariant, SynthesisTypeOK
<1>2. /\ gen[Gen].status = "staging" /\ repo.ready = NoGen
      /\ \A g \in Gens \ {Gen} : gen[g].status = "absent"
  BY Chosen DEF SynthesisInit, NoGeneration
<1>3. /\ job[Job].state = "running" /\ job[Job].stage = "synthesize"
      /\ job[Job].gen = Gen /\ job[Job].cancel = FALSE
      /\ \A j \in Jobs \ {Job} : job[j].state = "absent"
  BY Chosen DEF SynthesisInit, NoJob
<1>4. Active(Job) /\ \A j \in Jobs \ {Job} : ~Active(j)
  BY <1>3 DEF Active, ActiveStates
<1>5. CancellationRecorded
  BY <1>3 DEF CancellationRecorded
<1>6. ReadyPointerConsistent /\ PublishedIntact
  BY <1>2, JobsAssumption DEF ReadyPointerConsistent, PublishedIntact
<1>7. LeaseConsistent
  BY <1>2, <1>3, <1>4, Chosen DEF LeaseConsistent, GenStatus
<1> QED BY <1>1, <1>5, <1>6, <1>7 DEF JobsInvariant

\* Seen from the job store, synthesis only makes transactions of jobs.rs, so
\* what is proved of the store holds while commands synthesize: in particular
\* the cancellation flag, the lease and the ready pointer.
THEOREM SynthesisUsesStore == SynthesisSpec => [][Next]_vars /\ []JobsInvariant
<1>1. SynthesisInvariant /\ [SynthesisNext]_synthesisVars => [Next]_vars
  BY StoreSteps
<1>2. JobsInvariant /\ [Next]_vars => JobsInvariant'
  BY StepInvariant
<1> QED BY <1>1, <1>2, InitStore, SynthesisInvariantHolds, PTL DEF SynthesisSpec
=============================================================================
