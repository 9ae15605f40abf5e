------------------------ MODULE RulePackCache_proofs ------------------------
(***************************************************************************)
(* Proofs about RulePackCache for any number of processes, any versions,   *)
(* clock bound, grace window, engines and request set.                     *)
(*                                                                         *)
(*  - TypeCorrect: the type invariant.                                     *)
(*  - EngineAlwaysSound: what a result promises whatever other processes,  *)
(*    crashes and failed writes do (ResultInv).                            *)
(*  - WarmCacheAlwaysCarries: a complete cache never lets the ladder run   *)
(*    dry (WarmInv).                                                       *)
(*  - PinAlwaysHonoured, FetchedAtAlwaysHonest, AlwaysFreshOrFlagged: a    *)
(*    store that gets through both renames mends the cache, whatever       *)
(*    failed writes, kills and overlapping writers did to it before, and   *)
(*    what is served from it then is what was asked for, rightly dated     *)
(*    (CacheInv).                                                          *)
(*  - CallsBounded: a call is over after seven steps of its own.           *)
(***************************************************************************)
EXTENDS RulePackCache, TLAPS

USE DEF Resting, Steps, Versions, Times, NoPack

-----------------------------------------------------------------------------
(* The type invariant. *)

LEMMA InitTypeOK == Init => TypeOK
  BY CacheAssumption
  DEF Init, TypeOK, NoMeta, Metas, NoRequest, RequestSet, Pending, Results, Holds

LEMMA ForgetTypeOK ==
  ASSUME TypeOK, NEW p \in Procs, Forget(p)
  PROVE  /\ memArt' \in [Procs -> 0..MaxVersion] /\ memMeta' \in [Procs -> Metas]
         /\ degraded' \in [Procs -> BOOLEAN]
<1>1. 0 \in 0..MaxVersion /\ NoMeta \in Metas
  BY CacheAssumption DEF NoMeta, Metas
<1> QED
  BY <1>1 DEF TypeOK, Forget

LEMMA AcceptTypeOK ==
  ASSUME TypeOK, NEW p \in Procs, NEW v \in Versions, Accept(p, v)
  PROVE  TypeOK'
<1>1. v \in 0..MaxVersion /\ [ver |-> v, at |-> now] \in Metas /\ now \in 0..MaxTime
  BY CacheAssumption DEF TypeOK, Metas
<1>2. Pack("network", v, now, FALSE, FALSE) \in Results /\ Abort("engine") \in Results
  BY <1>1 DEF Pack, Abort, Results, Sources, TypeOK
<1>3. UNCHANGED <<env, disk, req, start, care>>
  BY DEF Accept
<1>4. pc' \in [Procs -> Resting \cup Steps]
  BY DEF Accept, Finish, TypeOK
<1>8. res' \in [Procs -> Results]
  <2>1. res \in [Procs -> Results]
    BY DEF TypeOK
  <2>2. \/ res' = [res EXCEPT ![p] = Pack("network", v, now, FALSE, FALSE)]
        \/ res' = [res EXCEPT ![p] = Abort("engine")]
    BY DEF Accept
  <2> QED
    BY <1>2, <2>1, <2>2
<1>5. /\ memArt' \in [Procs -> 0..MaxVersion] /\ memMeta' \in [Procs -> Metas]
      /\ degraded' \in [Procs -> BOOLEAN]
  <2>0. /\ memArt \in [Procs -> 0..MaxVersion] /\ memMeta \in [Procs -> Metas]
        /\ degraded \in [Procs -> BOOLEAN]
    BY DEF TypeOK
  <2>1. CASE v \in EngineOK[p]
    <3>1. /\ memArt' = [memArt EXCEPT ![p] = v] /\ degraded' = degraded
          /\ memMeta' = [memMeta EXCEPT ![p] = [ver |-> v, at |-> now]]
      BY <2>1 DEF Accept
    <3> QED
      BY <1>1, <2>0, <3>1
  <2>2. CASE v \notin EngineOK[p]
    BY <2>2, ForgetTypeOK DEF Accept, Finish
  <2> QED
    BY <2>1, <2>2
<1>7. confirmed' \in [Versions -> 0..MaxTime]
  BY <1>1 DEF Accept, TypeOK
<1> QED
  BY <1>3, <1>4, <1>5, <1>7, <1>8 DEF TypeOK, env, disk, start, care

LEMMA FallTypeOK ==
  ASSUME TypeOK, NEW p \in Procs, NEW b \in BOOLEAN, FallToCache(p, b)
  PROVE  TypeOK'
  BY DEF TypeOK, FallToCache, env, disk, start, care

LEMMA WantedType ==
  ASSUME TypeOK, NEW p \in Procs, Wanted(p) \in published
  PROVE  Wanted(p) \in Versions
  BY DEF TypeOK

LEMMA ClearTypeOK ==
  ASSUME TypeOK, NEW p \in Procs, Clear(p)
  PROVE  /\ warm' \in [Procs -> BOOLEAN] /\ began' \in [Procs -> 0..MaxTime]
         /\ hold' \in [Procs -> Holds]
  BY CacheAssumption DEF TypeOK, Clear, Holds

LEMMA OverrideTypeOK ==
  ASSUME TypeOK, NEW p \in Procs, Override(p)
  PROVE  TypeOK'
<1>1. PICK r \in Requests[p] :
        /\ r.override # 0
        /\ req' = [req EXCEPT ![p] = r]
        /\ res' = [res EXCEPT ![p] =
                     CASE r.override = Broken -> Abort("override")
                       [] r.override # Broken /\ r.pin \notin {0, r.override} -> Abort("pin")
                       [] r.override # Broken /\ r.pin \in {0, r.override}
                            /\ r.override \notin EngineOK[p] -> Abort("engine")
                       [] OTHER -> Pack("file", r.override, 0, FALSE, FALSE)]
  BY DEF Override
<1>2. r \in RequestSet /\ MaxTime \in Nat /\ MaxVersion \in Nat
  BY CacheAssumption
<1>3. Abort("override") \in Results /\ Abort("pin") \in Results /\ Abort("engine") \in Results
  BY DEF Abort, Results
<1>4. r.override # Broken => Pack("file", r.override, 0, FALSE, FALSE) \in Results
  BY <1>1, <1>2 DEF Pack, Results, Sources, TypeOK, RequestSet, Broken
<1>5. res' \in [Procs -> Results]
  BY <1>1, <1>3, <1>4 DEF TypeOK
<1>6. req' \in [Procs -> RequestSet] /\ pc' \in [Procs -> Resting \cup Steps]
  BY <1>1, <1>2 DEF TypeOK, Override
<1> QED
  BY <1>5, <1>6, ClearTypeOK DEF TypeOK, Override, env, disk

LEMMA BeginTypeOK ==
  ASSUME TypeOK, NEW p \in Procs, Begin(p)
  PROVE  TypeOK'
<1>1. req' \in [Procs -> RequestSet] /\ pc' \in [Procs -> Resting \cup Steps]
  <2>1. PICK r \in Requests[p] :
          /\ req' = [req EXCEPT ![p] = r]
          /\ pc' = [pc EXCEPT ![p] = IF r.net THEN "readArtifact1" ELSE "readArtifact2"]
    BY DEF Begin
  <2>2. r \in RequestSet
    BY CacheAssumption
  <2> QED
    BY <2>1, <2>2 DEF TypeOK
<1>2. /\ res' \in [Procs -> Results] /\ hold' \in [Procs -> Holds]
      /\ began' \in [Procs -> 0..MaxTime]
  BY CacheAssumption DEF TypeOK, Begin, Pending, Results, Holds
<1> QED
  BY <1>1, <1>2 DEF TypeOK, Begin, env, disk

LEMMA FetchNotModifiedTypeOK ==
  ASSUME TypeOK, NEW p \in Procs, FetchNotModified(p)
  PROVE  TypeOK'
<1>1. Wanted(p) \in Versions /\ now \in 0..MaxTime /\ [memMeta[p] EXCEPT !.at = now] \in Metas
  <2>1. Wanted(p) \in Versions
    BY WantedType DEF FetchNotModified
  <2>2. now \in 0..MaxTime /\ memMeta[p] \in Metas
    BY CacheAssumption DEF TypeOK
  <2> QED
    BY <2>1, <2>2 DEF Metas
<1>2. memArt[p] \in EngineOK[p]
        => Pack("cache", memArt[p], now, FALSE, FALSE) \in Results
  BY <1>1, CacheAssumption DEF Pack, Results, Sources, TypeOK
<1>3. Abort("engine") \in Results
  BY DEF Abort, Results
<1>4. pc' \in [Procs -> Resting \cup Steps]
  BY DEF FetchNotModified, Finish, TypeOK
<1>5. res' \in [Procs -> Results]
  <2>1. res \in [Procs -> Results]
    BY DEF TypeOK
  <2>2. \/ /\ memArt[p] \in EngineOK[p]
           /\ res' = [res EXCEPT ![p] = Pack("cache", memArt[p], now, FALSE, FALSE)]
        \/ res' = [res EXCEPT ![p] = Abort("engine")]
    BY DEF FetchNotModified
  <2> QED
    BY <1>2, <1>3, <2>1, <2>2
<1>6. /\ memArt' \in [Procs -> 0..MaxVersion] /\ memMeta' \in [Procs -> Metas]
      /\ degraded' \in [Procs -> BOOLEAN]
  <2>0. /\ memArt \in [Procs -> 0..MaxVersion] /\ memMeta \in [Procs -> Metas]
        /\ degraded \in [Procs -> BOOLEAN]
    BY DEF TypeOK
  <2>1. CASE memArt[p] \in EngineOK[p]
    <3>1. /\ memArt' = memArt /\ degraded' = degraded
          /\ memMeta' = [memMeta EXCEPT ![p] = [memMeta[p] EXCEPT !.at = now]]
      BY <2>1 DEF FetchNotModified
    <3> QED
      BY <1>1, <2>0, <3>1
  <2>2. CASE memArt[p] \notin EngineOK[p]
    BY <2>2, ForgetTypeOK DEF FetchNotModified, Finish
  <2> QED
    BY <2>1, <2>2
<1>7. confirmed' \in [Versions -> 0..MaxTime]
  BY <1>1 DEF FetchNotModified, TypeOK
<1> QED
  BY <1>4, <1>5, <1>6, <1>7 DEF FetchNotModified, TypeOK, env, disk, start, care

LEMMA ResolveFromCacheTypeOK ==
  ASSUME TypeOK, NEW p \in Procs, ResolveFromCache(p)
  PROVE  TypeOK'
<1>1. CacheOutcome(p) \in Results
  <2>1. Abort("engine") \in Results /\ Abort("exhausted") \in Results
    BY DEF Abort, Results
  <2>2. memArt[p] \in EngineOK[p] => memArt[p] \in Versions
    BY CacheAssumption
  <2>3. meta.at \in 0..MaxTime /\ now \in Times
    BY DEF TypeOK, Metas
  <2>4. memArt[p] \in EngineOK[p]
          => Pack("cache", memArt[p], meta.at, now - meta.at > Grace, degraded[p]) \in Results
    BY <2>2, <2>3 DEF Pack, Results, Sources, TypeOK
  <2> QED
    BY <2>1, <2>4 DEF CacheOutcome
<1>2. res' \in [Procs -> Results]
  BY <1>1 DEF ResolveFromCache, TypeOK
<1>3. pc' \in [Procs -> Resting \cup Steps]
  BY DEF ResolveFromCache, Finish, TypeOK
<1> QED
  BY <1>2, <1>3, ForgetTypeOK DEF ResolveFromCache, Finish, TypeOK, env, disk, start, care

LEMMA PutTypeOK ==
  ASSUME TypeOK, NEW p \in Procs, PutArtifact(p) \/ PutMeta(p)
  PROVE  TypeOK'
<1>1. whole' \in BOOLEAN /\ hold' \in [Procs -> Holds]
  <2>1. CASE PutArtifact(p)
    BY <2>1 DEF PutArtifact, ArtifactMoved, TypeOK, Holds
  <2>2. CASE PutMeta(p)
    BY <2>2 DEF PutMeta, MetaMoved, TypeOK, Holds
  <2> QED
    BY <2>1, <2>2
<1>2. CASE PutArtifact(p)
  BY <1>1, <1>2 DEF PutArtifact, TypeOK, env, local, start
<1>3. CASE PutMeta(p)
  BY <1>1, <1>3, ForgetTypeOK DEF PutMeta, Finish, TypeOK, env, start
<1> QED
  BY <1>2, <1>3

LEMMA NextTypeOK == TypeOK /\ [Next]_vars => TypeOK'
<1> SUFFICES ASSUME TypeOK, [Next]_vars PROVE TypeOK'
  OBVIOUS
<1>1. CASE Publish
  <2>1. PICK v \in Versions \ {reg} :
          /\ reg' = v /\ published' = published \cup {v}
          /\ headAt' = [headAt EXCEPT ![v] = now]
    BY <1>1 DEF Publish
  <2>2. headAt' \in [Versions -> 0..MaxTime]
    <3>1. now \in 0..MaxTime /\ headAt \in [Versions -> 0..MaxTime]
      BY CacheAssumption DEF TypeOK
    <3> QED
      BY <2>1, <3>1
  <2>3. reg' \in 0..MaxVersion /\ published' \subseteq Versions
    BY <2>1, CacheAssumption DEF TypeOK
  <2>4. UNCHANGED <<now, disk, pc, local, res, confirmed, start, care>>
    BY <1>1 DEF Publish
  <2> QED
    BY <2>2, <2>3, <2>4 DEF TypeOK, disk, local, start, care
<1>2. CASE Tick
  <2>1. now' \in Times
    BY <1>2, CacheAssumption DEF Tick, TypeOK
  <2>2. headAt' \in [Versions -> 0..MaxTime]
    BY <1>2, <2>1, CacheAssumption DEF Tick, TypeOK
  <2> QED
    BY <1>2, <2>1, <2>2 DEF Tick, TypeOK, disk, local, start, care
<1>3. ASSUME NEW p \in Procs, Process(p)
      PROVE  TypeOK'
  <2>1. CASE Override(p)
    BY <2>1, OverrideTypeOK
  <2>2. CASE Begin(p)
    BY <2>2, BeginTypeOK
  <2>3. CASE ReadArtifact(p)
    BY <2>3 DEF ReadArtifact, TypeOK, env, disk, start, Holds
  <2>4. CASE ReadMeta(p)
    BY <2>4 DEF ReadMeta, TypeOK, env, disk, start, care
  <2>5. CASE FetchPack(p) \/ RefetchPack(p)
    BY <2>5, AcceptTypeOK, WantedType DEF FetchPack, RefetchPack
  <2>6. CASE FetchNotModified(p)
    BY <2>6, FetchNotModifiedTypeOK
  <2>7. CASE FetchNotAuthored(p) \/ FetchFails(p) \/ RefetchFails(p)
    BY <2>7, FallTypeOK DEF FetchNotAuthored, FetchFails, RefetchFails
  <2>8. CASE FetchUnasked304(p)
    BY <2>8 DEF FetchUnasked304, TypeOK, env, disk, local, start, care
  <2>9. CASE PutArtifact(p) \/ PutMeta(p)
    BY <2>9, PutTypeOK
  <2>12. CASE WriteFails(p)
    BY <2>12, ForgetTypeOK DEF WriteFails, Finish, TypeOK, env, disk, start, care
  <2>10. CASE ResolveFromCache(p)
    BY <2>10, ResolveFromCacheTypeOK
  <2>11. CASE Crash(p)
    BY <2>11, ForgetTypeOK, ClearTypeOK DEF Crash, TypeOK, Pending, Results, env, disk
  <2> QED
    BY <1>3, <2>1, <2>2, <2>3, <2>4, <2>5, <2>6, <2>7, <2>8, <2>9, <2>10, <2>11,
       <2>12
    DEF Process, Progress, Fetch
<1>4. CASE UNCHANGED vars
  BY <1>4 DEF vars, TypeOK
<1> QED
  BY <1>1, <1>2, <1>3, <1>4 DEF Next

\* Every variable keeps its type, for every value of the constants.
THEOREM TypeCorrect == Spec => []TypeOK
<1>1. Init => TypeOK
  BY InitTypeOK
<1>2. TypeOK /\ [Next]_vars => TypeOK'
  BY NextTypeOK
<1> QED
  BY <1>1, <1>2, PTL DEF Spec

-----------------------------------------------------------------------------
(* A process never moves another one's call. *)

\* A step of process p changes nothing that belongs to another call.
LEMMA OthersUnmoved ==
  ASSUME TypeOK, NEW p \in Procs, Process(p),
         NEW q \in Procs \ {p}
  PROVE  /\ pc'[q] = pc[q] /\ memArt'[q] = memArt[q] /\ memMeta'[q] = memMeta[q]
         /\ res'[q] = res[q] /\ req'[q] = req[q] /\ warm'[q] = warm[q]
         /\ degraded'[q] = degraded[q] /\ began'[q] = began[q]
<1>0. /\ pc \in [Procs -> Resting \cup Steps] /\ memArt \in [Procs -> 0..MaxVersion]
      /\ memMeta \in [Procs -> Metas] /\ res \in [Procs -> Results]
      /\ req \in [Procs -> RequestSet] /\ warm \in [Procs -> BOOLEAN]
      /\ degraded \in [Procs -> BOOLEAN] /\ began \in [Procs -> 0..MaxTime]
  BY DEF TypeOK
<1>1. CASE Override(p)
  BY <1>0, <1>1 DEF Override, Clear
<1>2. CASE Begin(p)
  BY <1>0, <1>2 DEF Begin
<1>3. CASE FetchPack(p) \/ RefetchPack(p)
  BY <1>0, <1>3 DEF FetchPack, RefetchPack, Accept, Finish, Forget, start
<1>4. CASE FetchNotModified(p)
  BY <1>0, <1>4 DEF FetchNotModified, Finish, Forget, start
<1>5. CASE ResolveFromCache(p)
  BY <1>0, <1>5 DEF ResolveFromCache, Finish, Forget, start
<1>6. CASE Crash(p)
  BY <1>0, <1>6 DEF Crash, Forget, Clear
<1>7. CASE ReadArtifact(p) \/ ReadMeta(p)
  BY <1>0, <1>7 DEF ReadArtifact, ReadMeta, start
<1>8. CASE FetchNotAuthored(p) \/ FetchFails(p) \/ RefetchFails(p)
  BY <1>0, <1>8 DEF FetchNotAuthored, FetchFails, RefetchFails, FallToCache, start
<1>9. CASE FetchUnasked304(p) \/ PutArtifact(p) \/ PutMeta(p) \/ WriteFails(p)
  BY <1>0, <1>9 DEF FetchUnasked304, PutArtifact, PutMeta, WriteFails, Finish, Forget, local, start
<1> QED
  BY <1>1, <1>2, <1>3, <1>4, <1>5, <1>6, <1>7, <1>8, <1>9 DEF Process, Progress, Fetch

\* What a result promises, whatever other processes did to the cache.
GoodResult(p) == res[p].kind = "pack" => res[p].ver \in EngineOK[p]

ResultInv ==
    /\ \A v \in Versions : confirmed[v] <= now
    /\ \A p \in Procs : GoodResult(p)

\* Only an answer of the registry adds a confirmation, stamped with the present.
LEMMA ConfirmedStep ==
  ASSUME TypeOK, NEW p \in Procs, Process(p)
  PROVE  now' = now /\ \A v \in Versions : confirmed'[v] \in {confirmed[v], now}
<1>0. confirmed \in [Versions -> 0..MaxTime]
  BY DEF TypeOK
<1>1. CASE Override(p) \/ Begin(p) \/ Crash(p)
  BY <1>1 DEF Override, Begin, Crash, env
<1>3. CASE FetchPack(p) \/ RefetchPack(p)
  BY <1>0, <1>3 DEF FetchPack, RefetchPack, Accept, env
<1>4. CASE FetchNotModified(p)
  BY <1>0, <1>4 DEF FetchNotModified, env
<1>6. CASE \/ ReadArtifact(p) \/ ReadMeta(p) \/ FetchNotAuthored(p) \/ FetchFails(p)
           \/ FetchUnasked304(p) \/ RefetchFails(p) \/ PutArtifact(p) \/ PutMeta(p)
           \/ WriteFails(p) \/ ResolveFromCache(p)
  BY <1>6 DEF ReadArtifact, ReadMeta, FetchNotAuthored, FetchFails, FetchUnasked304,
     RefetchFails, FallToCache, PutArtifact, PutMeta, WriteFails, ResolveFromCache, env
<1> QED
  BY <1>1, <1>3, <1>4, <1>6 DEF Process, Progress, Fetch

\* Confirmations never lie in the future and are never taken back.
LEMMA ConfirmedMonotone ==
  ASSUME TypeOK, ResultInv, Next
  PROVE  \A v \in Versions : confirmed[v] <= confirmed'[v] /\ confirmed'[v] <= now'
<1>0. \A v \in Versions : confirmed[v] \in Nat /\ confirmed[v] <= now /\ now \in Nat
  BY CacheAssumption DEF TypeOK, ResultInv
<1>1. CASE Publish \/ Tick
  BY <1>0, <1>1 DEF Publish, Tick
<1>2. ASSUME NEW p \in Procs, Process(p)
      PROVE  \A v \in Versions : confirmed[v] <= confirmed'[v] /\ confirmed'[v] <= now'
  <2>1. now' = now /\ \A v \in Versions : confirmed'[v] \in {confirmed[v], now}
    BY <1>2, ConfirmedStep
  <2> QED
    BY <1>0, <2>1
<1> QED
  BY <1>1, <1>2 DEF Next

LEMMA GoodResultStep ==
  ASSUME TypeOK, ResultInv, NEW p \in Procs,
         Process(p)
  PROVE  GoodResult(p)'
<1>0. res \in [Procs -> Results] /\ req \in [Procs -> RequestSet] /\ GoodResult(p)
  BY DEF TypeOK, ResultInv
<1>1. CASE Override(p)
  <2>1. PICK r \in Requests[p] :
        /\ r.override # 0
        /\ req' = [req EXCEPT ![p] = r]
        /\ res' = [res EXCEPT ![p] =
                     CASE r.override = Broken -> Abort("override")
                       [] r.override # Broken /\ r.pin \notin {0, r.override} -> Abort("pin")
                       [] r.override # Broken /\ r.pin \in {0, r.override}
                            /\ r.override \notin EngineOK[p] -> Abort("engine")
                       [] OTHER -> Pack("file", r.override, 0, FALSE, FALSE)]
    BY <1>1 DEF Override
  <2>2. CASE res'[p] = Pack("file", r.override, 0, FALSE, FALSE) /\ r.override \in EngineOK[p]
    BY <2>2 DEF GoodResult, Pack
  <2>3. CASE res'[p].kind = "abort"
    BY <2>3 DEF GoodResult
  <2> QED
    BY <1>0, <2>1, <2>2, <2>3 DEF Abort
<1>2. CASE Begin(p) \/ Crash(p)
  BY <1>0, <1>2 DEF Begin, Crash, GoodResult, Pending
<1>3. CASE FetchPack(p) \/ RefetchPack(p)
  BY <1>0, <1>3 DEF FetchPack, RefetchPack, Accept, GoodResult, Pack, Abort
<1>4. CASE FetchNotModified(p)
  BY <1>0, <1>4 DEF FetchNotModified, GoodResult, Pack, Abort
<1>5. CASE ResolveFromCache(p)
  BY <1>0, <1>5 DEF ResolveFromCache, CacheOutcome, GoodResult, Pack, Abort
<1>6. CASE ReadArtifact(p) \/ ReadMeta(p) \/ FetchNotAuthored(p) \/ FetchFails(p) \/ FetchUnasked304(p)
           \/ RefetchFails(p) \/ PutArtifact(p) \/ PutMeta(p) \/ WriteFails(p)
  BY <1>0, <1>6 DEF ReadArtifact, ReadMeta, FetchNotAuthored, FetchFails, FetchUnasked304, RefetchFails,
     FallToCache, PutArtifact, PutMeta, WriteFails, GoodResult, local
<1> QED
  BY <1>1, <1>2, <1>3, <1>4, <1>5, <1>6 DEF Process, Progress, Fetch

LEMMA NextResultInv == TypeOK /\ ResultInv /\ [Next]_vars => ResultInv'
<1> SUFFICES ASSUME TypeOK, ResultInv, [Next]_vars PROVE ResultInv'
  OBVIOUS
<1>1. CASE Publish \/ Tick
  <2>1. res' = res
    BY <1>1 DEF Publish, Tick
  <2> QED
    BY <1>1, <2>1, ConfirmedMonotone DEF ResultInv, GoodResult, Next
<1>2. ASSUME NEW p \in Procs, Process(p)
      PROVE  ResultInv'
  <2>1. GoodResult(p)'
    BY <1>2, GoodResultStep
  <2>2. \A q \in Procs \ {p} : GoodResult(q)'
    BY <1>2, OthersUnmoved DEF ResultInv, GoodResult
  <2> QED
    BY <1>2, <2>1, <2>2, ConfirmedMonotone DEF ResultInv, Next
<1>3. CASE UNCHANGED vars
  BY <1>3 DEF vars, ResultInv, GoodResult
<1> QED
  BY <1>1, <1>2, <1>3 DEF Next

LEMMA InitResultInv == Init => ResultInv
  BY CacheAssumption DEF Init, ResultInv, GoodResult, Pending

LEMMA ResultAlways == Spec => []ResultInv
<1>1. Init => ResultInv
  BY InitResultInv
<1>2. TypeOK /\ ResultInv /\ [Next]_vars => ResultInv'
  BY NextResultInv
<1> QED
  BY <1>1, <1>2, TypeCorrect, PTL DEF Spec

\* No run is ever given a pack its engine does not satisfy (checkEngine), whatever
\* the other processes, crashes and failed writes do to the shared cache.
THEOREM EngineAlwaysSound == Spec => []EngineSound
<1>1. ResultInv => EngineSound
  BY DEF ResultInv, GoodResult, EngineSound, Returned
<1> QED
  BY <1>1, ResultAlways, PTL

-----------------------------------------------------------------------------
(* A complete cache carries an unpinned run. *)

\* What the shared files can and cannot do to p's call.
WarmCall(p) ==
    /\ warm[p] => artifact # NoPack /\ meta # NoMeta
    /\ pc[p] = "putArtifact" => memArt[p] # NoPack
    /\ pc[p] \in {"putArtifact", "putMeta", "putRefresh"}
         => memMeta[p] # NoMeta /\ res[p] # Abort("exhausted")
    /\ pc[p] = "readMeta2" /\ warm[p] => memArt[p] # NoPack
    /\ pc[p] = "done" /\ res[p] = Abort("exhausted") /\ req[p].pin = 0 => ~warm[p]

WarmInv == \A p \in Procs : WarmCall(p)

\* A complete cache stays complete: a rename replaces a file, nothing removes one.
LEMMA CacheStaysComplete ==
  ASSUME TypeOK, WarmInv, Next
  PROVE  (artifact # NoPack => artifact' # NoPack) /\ (meta # NoMeta => meta' # NoMeta)
<1>1. CASE Publish \/ Tick
  BY <1>1 DEF Publish, Tick, disk
<1>2. ASSUME NEW p \in Procs, Process(p)
      PROVE  (artifact # NoPack => artifact' # NoPack) /\ (meta # NoMeta => meta' # NoMeta)
  <2>1. CASE PutArtifact(p)
    BY <2>1 DEF PutArtifact, WarmInv, WarmCall
  <2>2. CASE PutMeta(p)
    BY <2>2 DEF PutMeta, WarmInv, WarmCall
  <2>3. CASE UNCHANGED disk
    BY <2>3 DEF disk
  <2>4. CASE Override(p) \/ Begin(p) \/ Crash(p)
    BY <2>3, <2>4 DEF Override, Begin, Crash
  <2>5. CASE ReadArtifact(p) \/ ReadMeta(p) \/ WriteFails(p) \/ ResolveFromCache(p)
    BY <2>3, <2>5 DEF ReadArtifact, ReadMeta, WriteFails, ResolveFromCache
  <2>6. CASE Fetch(p)
    BY <2>3, <2>6 DEF Fetch, FetchPack, RefetchPack, Accept, FetchNotModified, FetchNotAuthored,
       FetchFails, RefetchFails, FallToCache, FetchUnasked304
  <2> QED
    BY <1>2, <2>1, <2>2, <2>4, <2>5, <2>6 DEF Process, Progress
<1> QED
  BY <1>1, <1>2 DEF Next

\* q does not move: it keeps its part of the invariant as long as the cache stays complete.
LEMMA OthersStayWarm ==
  ASSUME WarmInv, NEW q \in Procs,
         pc'[q] = pc[q], memArt'[q] = memArt[q], memMeta'[q] = memMeta[q],
         res'[q] = res[q], req'[q] = req[q], warm'[q] = warm[q],
         (artifact # NoPack => artifact' # NoPack) /\ (meta # NoMeta => meta' # NoMeta)
  PROVE  WarmCall(q)'
  BY DEF WarmInv, WarmCall

LEMMA WarmStep ==
  ASSUME TypeOK, WarmInv, NEW p \in Procs, Process(p)
  PROVE  WarmCall(p)'
<1>0. /\ pc \in [Procs -> Resting \cup Steps] /\ memArt \in [Procs -> 0..MaxVersion]
      /\ memMeta \in [Procs -> Metas] /\ res \in [Procs -> Results]
      /\ req \in [Procs -> RequestSet] /\ warm \in [Procs -> BOOLEAN]
      /\ WarmCall(p)
  BY DEF TypeOK, WarmInv
<1>00. Next
  BY DEF Next
<1>1. CASE Override(p)
  <2>1. res'[p] # Abort("exhausted")
    BY <1>0, <1>1 DEF Override, Abort, Pack
  <2> QED
    BY <1>0, <1>1, <2>1 DEF Override, Clear, WarmCall, disk
<1>2. CASE Begin(p) \/ Crash(p)
  BY <1>0, <1>2 DEF Begin, Crash, Clear, WarmCall, Pending, Abort, disk
<1>3. CASE FetchPack(p) \/ RefetchPack(p)
  <2>1. Accept(p, Wanted(p)) /\ Wanted(p) \in Versions
    BY <1>3, WantedType DEF FetchPack, RefetchPack
  <2> QED
    BY <1>0, <2>1, CacheAssumption DEF Accept, WarmCall, NoMeta, Pack, Abort, Finish, disk, start
<1>4. CASE FetchNotModified(p)
  <2>1. Wanted(p) \in Versions
    BY <1>4, WantedType DEF FetchNotModified
  <2>2. [memMeta[p] EXCEPT !.at = now].ver # NoPack
    BY <1>0, <1>4, <2>1 DEF FetchNotModified, Etag, Metas
  <2> QED
    BY <1>0, <1>4, <2>2 DEF FetchNotModified, WarmCall, NoMeta, Pack, Abort, Finish, disk, start
<1>5. CASE ResolveFromCache(p)
  BY <1>0, <1>5 DEF ResolveFromCache, CacheOutcome, PinOK, WarmCall, Pack, Abort, Finish, disk, start
<1>7. CASE ReadArtifact(p) \/ ReadMeta(p)
  BY <1>0, <1>7 DEF ReadArtifact, ReadMeta, WarmCall, disk, start
<1>8. CASE FetchNotAuthored(p) \/ FetchFails(p) \/ RefetchFails(p)
  BY <1>0, <1>8 DEF FetchNotAuthored, FetchFails, RefetchFails, FallToCache, WarmCall, disk, start
<1>9. CASE FetchUnasked304(p) \/ WriteFails(p)
  BY <1>0, <1>9 DEF FetchUnasked304, WriteFails, Finish, WarmCall, local, disk, start
<1>10. CASE PutArtifact(p) \/ PutMeta(p)
  BY <1>0, <1>10 DEF PutArtifact, PutMeta, Finish, WarmCall, local, start
<1> QED
  BY <1>1, <1>2, <1>3, <1>4, <1>5, <1>7, <1>8, <1>9, <1>10 DEF Process, Progress, Fetch

LEMMA NextWarmInv == TypeOK /\ WarmInv /\ [Next]_vars => WarmInv'
<1> SUFFICES ASSUME TypeOK, WarmInv, [Next]_vars PROVE WarmInv'
  OBVIOUS
<1>1. CASE Publish \/ Tick
  BY <1>1 DEF Publish, Tick, WarmInv, WarmCall, disk, local, start
<1>2. ASSUME NEW p \in Procs, Process(p)
      PROVE  WarmInv'
  <2>1. Next
    BY <1>2 DEF Next
  <2>2. \A q \in Procs \ {p} : WarmCall(q)'
    BY <1>2, <2>1, CacheStaysComplete, OthersUnmoved, OthersStayWarm
  <2> QED
    BY <1>2, <2>2, WarmStep DEF WarmInv
<1>3. CASE UNCHANGED vars
  BY <1>3 DEF vars, WarmInv, WarmCall
<1> QED
  BY <1>1, <1>2, <1>3 DEF Next

LEMMA InitWarmInv == Init => WarmInv
  BY DEF Init, WarmInv, WarmCall

\* A cache that was complete when an unpinned run began carries it through.
THEOREM WarmCacheAlwaysCarries == Spec => []WarmCacheCarries
<1>1. Init => WarmInv
  BY InitWarmInv
<1>2. TypeOK /\ WarmInv /\ [Next]_vars => WarmInv'
  BY NextWarmInv
<1>3. WarmInv => WarmCacheCarries
  BY DEF WarmInv, WarmCall, WarmCacheCarries
<1> QED
  BY <1>1, <1>2, <1>3, TypeCorrect, PTL DEF Spec

-----------------------------------------------------------------------------
(* A store that gets through both renames mends the cache. *)

\* The channel's head is in the registry and current; before the first pack there is none.
HeadInv ==
    /\ reg # NoPack => reg \in published /\ headAt[reg] = now
    /\ reg = NoPack => published = {}
    /\ \A v \in Versions : headAt[v] <= now

\* A stamp is of an answer about that version.
StoredIn(c, m) == m.ver # NoPack => c[m.ver] >= m.at /\ m.at >= 1
Stored(m) == StoredIn(confirmed, m)

\* The two files agree when they are whole, and hold what the registry once held.
PairInv ==
    /\ whole => artifact = meta.ver
    /\ Stored(meta)
    /\ artifact \in published \cup {NoPack}

\* What a call that has not returned yet knows of the files and of the channel: between the
\* two reads, after them, and on rung 2 when the registry had no pack.
Reads(p) ==
    /\ Between(p) /\ hold[p] # "torn" => hold[p] = "own" /\ whole /\ memArt[p] = artifact
    /\ pc[p] \in {"fetch", "putMeta", "putRefresh"} /\ hold[p] = "own" => memArt[p] = artifact
    /\ pc[p] \in {"fetch", "putRefresh"} /\ hold[p] # "torn" => memMeta[p].ver = memArt[p]

Searched(p) ==
    pc[p] \in {"readArtifact2", "readMeta2"} /\ req[p].pin = 0 /\ req[p].net /\ ~degraded[p]
      => \A v \in published : headAt[v] >= began[p]

CallInv(p) ==
    /\ memArt[p] \in published \cup {NoPack}
    /\ Stored(memMeta[p])
    /\ pc[p] \in {"putArtifact", "putMeta"}
         => memMeta[p].ver = memArt[p] /\ res[p].kind = "pack" /\ res[p].source = "network"
    /\ pc[p] \in {"readArtifact1", "readArtifact2"} \/ Between(p) => res[p] = Pending
    /\ pc[p] \in {"fetch", "refetch"} => res[p] = Pending
    /\ began[p] <= now
    /\ Reads(p) /\ Searched(p)

\* What a result promises of a run that was served.
Kept(p) ==
    res[p].kind = "pack" /\ (res[p].source = "cache" => hold[p] # "torn") =>
      /\ PinOK(p, res[p].ver)
      /\ res[p].source # "file" => confirmed[res[p].ver] >= res[p].at

Fresh(p) ==
    (/\ res[p].kind = "pack" /\ (res[p].source = "cache" => hold[p] # "torn")
     /\ res[p].source # "file" /\ ~res[p].stale /\ ~res[p].degraded)
      => /\ confirmed[res[p].ver] > 0
         /\ res[p].decided - confirmed[res[p].ver] <= Grace
         /\ req[p].pin = 0 /\ req[p].net => headAt[res[p].ver] >= began[p]

CacheInv == HeadInv /\ PairInv /\ \A p \in Procs : CallInv(p) /\ Kept(p) /\ Fresh(p)

\* No step of a process writes the registry.
LEMMA RegistryUnmoved ==
  ASSUME NEW p \in Procs, Process(p)
  PROVE  UNCHANGED env
<1>1. CASE Override(p) \/ Begin(p) \/ Crash(p)
  BY <1>1 DEF Override, Begin, Crash
<1>2. CASE FetchPack(p) \/ RefetchPack(p) \/ FetchNotModified(p)
  BY <1>2 DEF FetchPack, RefetchPack, Accept, FetchNotModified
<1>3. CASE \/ ReadArtifact(p) \/ ReadMeta(p) \/ FetchNotAuthored(p) \/ FetchFails(p)
           \/ FetchUnasked304(p) \/ RefetchFails(p) \/ PutArtifact(p) \/ PutMeta(p)
           \/ WriteFails(p) \/ ResolveFromCache(p)
  BY <1>3 DEF ReadArtifact, ReadMeta, FetchNotAuthored, FetchFails, FetchUnasked304,
     RefetchFails, FallToCache, PutArtifact, PutMeta, WriteFails, ResolveFromCache
<1> QED
  BY <1>1, <1>2, <1>3 DEF Process, Progress, Fetch

\* All but the two renames leave the files, and what everybody holds of them, alone.
LEMMA FilesUnmoved ==
  ASSUME TypeOK, NEW p \in Procs, Process(p), ~PutArtifact(p), ~PutMeta(p)
  PROVE  /\ UNCHANGED <<artifact, meta, whole>>
         /\ \A q \in Procs \ {p} : hold'[q] = hold[q]
         /\ pc[p] \in Steps /\ pc'[p] # "idle" /\ ~ReadArtifact(p) => UNCHANGED <<hold, began>>
<1>0. hold \in [Procs -> Holds] /\ pc \in [Procs -> Resting \cup Steps]
  BY DEF TypeOK
<1>1. CASE Begin(p)
  BY <1>0, <1>1 DEF Begin, disk
<1>2. CASE Override(p) \/ Crash(p)
  BY <1>0, <1>2 DEF Override, Crash, Clear, disk
<1>3. CASE FetchPack(p) \/ RefetchPack(p) \/ FetchNotModified(p)
  BY <1>3 DEF FetchPack, RefetchPack, Accept, FetchNotModified, disk, care, start
<1>4. CASE \/ ReadMeta(p) \/ FetchNotAuthored(p) \/ FetchFails(p)
           \/ FetchUnasked304(p) \/ RefetchFails(p) \/ WriteFails(p) \/ ResolveFromCache(p)
  BY <1>4 DEF ReadMeta, FetchNotAuthored, FetchFails, FetchUnasked304,
     RefetchFails, FallToCache, WriteFails, ResolveFromCache, disk, care, start
<1>5. CASE ReadArtifact(p)
  BY <1>0, <1>5 DEF ReadArtifact, disk
<1> QED
  BY <1>1, <1>2, <1>3, <1>4, <1>5 DEF Process, Progress, Fetch

\* What a step of p may do to what q holds: a new artifact beside it makes it old, a rename
\* between its two reads tears it, and a sidecar that mends the files leaves it be.
LEMMA OthersHold ==
  ASSUME TypeOK, NEW p \in Procs, Process(p), NEW q \in Procs \ {p}
  PROVE  /\ hold'[q] # "torn" => hold[q] # "torn"
         /\ hold'[q] = "own" => hold[q] = "own" /\ artifact' = artifact
         /\ Between(q) /\ hold'[q] # "torn"
              => hold'[q] = hold[q] /\ artifact' = artifact /\ (whole => whole')
<1>0. hold \in [Procs -> Holds]
  BY DEF TypeOK
<1>1. CASE PutArtifact(p)
  BY <1>0, <1>1 DEF PutArtifact, ArtifactMoved, Holds
<1>2. CASE PutMeta(p)
  BY <1>0, <1>2 DEF PutMeta, MetaMoved, Holds
<1>3. CASE ~PutArtifact(p) /\ ~PutMeta(p)
  BY <1>0, <1>3, FilesUnmoved
<1> QED
  BY <1>1, <1>2, <1>3

\* A stamp stays true: confirmations are never taken back.
LEMMA StampsStay ==
  ASSUME TypeOK, ResultInv, Next
  PROVE  \A m \in Metas : StoredIn(confirmed, m) => StoredIn(confirmed', m)
<1>1. \A v \in Versions : confirmed[v] <= confirmed'[v]
  BY ConfirmedMonotone
<1>2. TypeOK'
  BY NextTypeOK
<1>3. \A v \in Versions : confirmed[v] \in Int /\ confirmed'[v] \in Int
  BY <1>2, CacheAssumption DEF TypeOK
<1> QED
  BY <1>1, <1>3, CacheAssumption DEF StoredIn, Metas

-----------------------------------------------------------------------------
(* The environment moves head times forward and adds to the registry. *)

LEMMA EnvironmentStep ==
  ASSUME TypeOK, HeadInv, Publish \/ Tick
  PROVE  /\ UNCHANGED <<disk, pc, local, res, confirmed, start, care>>
         /\ published \subseteq published' /\ now <= now'
         /\ \A v \in published' \ published : headAt'[v] = now
         /\ \A v \in Versions : headAt[v] <= headAt'[v]
         /\ HeadInv'
<1>0. headAt \in [Versions -> 0..MaxTime] /\ now \in Nat /\ published \subseteq Versions
  BY CacheAssumption DEF TypeOK
<1>1. /\ UNCHANGED <<disk, pc, local, res, confirmed, start, care>>
      /\ published \subseteq published' /\ now <= now'
  BY <1>0 DEF Publish, Tick
<1>4. \A v \in published' \ published : headAt'[v] = now
  <2>1. CASE Publish
    BY <1>0, <2>1 DEF Publish
  <2>2. CASE Tick
    BY <2>2 DEF Tick
  <2> QED
    BY <2>1, <2>2
<1>2. \A v \in Versions : headAt[v] <= headAt'[v]
  <2>1. CASE Publish
    BY <1>0, <2>1 DEF Publish, HeadInv
  <2>2. CASE Tick
    BY <1>0, <2>2 DEF Tick, HeadInv
  <2> QED
    BY <2>1, <2>2
<1>3. HeadInv'
  <2>1. CASE Publish
    <3>1. PICK v \in Versions \ {reg} :
            /\ reg' = v /\ published' = published \cup {v}
            /\ headAt' = [headAt EXCEPT ![v] = now]
      BY <2>1 DEF Publish
    <3> QED
      BY <1>0, <2>1, <3>1 DEF Publish, HeadInv
  <2>2. CASE Tick /\ reg = NoPack
    <3>1. UNCHANGED <<reg, published, headAt>> /\ now' = now + 1
      BY <2>2 DEF Tick
    <3>2. \A v \in Versions : headAt[v] \in Nat /\ headAt[v] <= now
      BY <1>0 DEF HeadInv
    <3>3. \A v \in Versions : headAt[v] <= now + 1
      BY <1>0, <3>2
    <3> QED
      BY <1>0, <2>2, <3>1, <3>3 DEF HeadInv
  <2>3. CASE Tick /\ reg # NoPack
    <3>1. /\ UNCHANGED <<reg, published>> /\ now' = now + 1
          /\ headAt' = [headAt EXCEPT ![reg] = now + 1]
      BY <2>3 DEF Tick
    <3>2. reg \in Versions /\ reg \in published
      BY <1>0, <2>3 DEF HeadInv
    <3>3. headAt'[reg] = now + 1 /\ \A v \in Versions \ {reg} : headAt'[v] = headAt[v]
      BY <1>0, <3>1, <3>2
    <3>4. \A v \in Versions : headAt[v] \in Nat /\ headAt[v] <= now
      BY <1>0 DEF HeadInv
    <3>5. \A v \in Versions : headAt'[v] <= now + 1
      BY <1>0, <3>3, <3>4
    <3> QED
      BY <2>3, <3>1, <3>2, <3>3, <3>5 DEF HeadInv
  <2> QED
    BY <2>1, <2>2, <2>3
<1> QED
  BY <1>1, <1>2, <1>3, <1>4

\* Nobody's call is worse off for what happens elsewhere.
LEMMA CallStays ==
  ASSUME TypeOK, ResultInv, CacheInv, Next, NEW q \in Procs,
         UNCHANGED <<pc[q], memArt[q], memMeta[q], res[q], req[q], degraded[q], began[q]>>,
         published \subseteq published', now <= now',
         \A v \in published' \ published : headAt'[v] = now,
         \A v \in Versions : headAt[v] <= headAt'[v],
         hold'[q] # "torn" => hold[q] # "torn",
         hold'[q] = "own" => hold[q] = "own" /\ artifact' = artifact,
         Between(q) /\ hold'[q] # "torn"
           => hold'[q] = hold[q] /\ artifact' = artifact /\ (whole => whole')
  PROVE  CallInv(q)' /\ Kept(q)' /\ Fresh(q)'
<1>0. /\ CallInv(q) /\ Kept(q) /\ Fresh(q) /\ memMeta[q] \in Metas /\ res[q] \in Results
      /\ pc[q] \in Resting \cup Steps /\ hold[q] \in Holds /\ began[q] \in Nat
      /\ now \in Nat
  BY CacheAssumption DEF CacheInv, TypeOK
<1>00. TypeOK'
  BY NextTypeOK
<1>4. \A v \in Versions : /\ confirmed[v] <= confirmed'[v]
                          /\ confirmed[v] \in Nat /\ confirmed'[v] \in Nat
                          /\ headAt[v] \in Nat /\ headAt'[v] \in Nat
  <2>1. /\ confirmed \in [Versions -> 0..MaxTime] /\ confirmed' \in [Versions -> 0..MaxTime]
        /\ headAt \in [Versions -> 0..MaxTime] /\ headAt' \in [Versions -> 0..MaxTime]
    BY <1>00 DEF TypeOK
  <2>2. \A v \in Versions : confirmed[v] <= confirmed'[v]
    BY ConfirmedMonotone
  <2> QED
    BY <2>1, <2>2
<1>8. Between(q)' <=> Between(q)
  BY DEF Between
<1>1. Reads(q)'
  <2>0. /\ pc'[q] = pc[q] /\ memArt'[q] = memArt[q] /\ memMeta'[q] = memMeta[q]
        /\ (Between(q)' <=> Between(q)) /\ Reads(q)
    BY <1>0, <1>8 DEF CallInv, Between
  <2>1. Between(q)' /\ hold'[q] # "torn" => hold'[q] = "own" /\ whole' /\ memArt'[q] = artifact'
    BY <2>0 DEF Reads
  <2>2. pc'[q] \in {"fetch", "putMeta", "putRefresh"} /\ hold'[q] = "own"
          => memArt'[q] = artifact'
    BY <2>0 DEF Reads
  <2>3. pc'[q] \in {"fetch", "putRefresh"} /\ hold'[q] # "torn" => memMeta'[q].ver = memArt'[q]
    BY <2>0 DEF Reads
  <2> QED
    BY <2>1, <2>2, <2>3, Zenon DEF Reads
<1>9. Searched(q)' /\ began'[q] <= now'
  <2>1. began[q] <= now /\ Searched(q) /\ now' \in Nat
    BY <1>0, <1>00, CacheAssumption DEF CallInv, TypeOK
  <2>2. began'[q] <= now'
    BY <1>0, <2>1
  <2>3. ASSUME pc'[q] \in {"readArtifact2", "readMeta2"}, req'[q].pin = 0, req'[q].net,
               ~degraded'[q], NEW v \in published'
        PROVE  headAt'[v] >= began'[q]
    <3>1. v \in Versions
      BY <1>00 DEF TypeOK
    <3>2. CASE v \in published
      <4>1. headAt[v] >= began[q]
        BY <2>1, <2>3, <3>2 DEF Searched
      <4> QED
        BY <1>0, <1>4, <3>1, <4>1
    <3>3. CASE v \notin published
      BY <1>0, <2>1, <3>3
    <3> QED
      BY <3>2, <3>3
  <2> QED
    BY <2>2, <2>3 DEF Searched
<1>2. Stored(memMeta[q])'
  BY <1>0, StampsStay DEF CallInv, Stored
<1>3. CallInv(q)'
  <2>1. memArt'[q] \in published' \cup {NoPack}
    BY <1>0 DEF CallInv
  <2>2. pc'[q] \in {"putArtifact", "putMeta"}
          => memMeta'[q].ver = memArt'[q] /\ res'[q].kind = "pack" /\ res'[q].source = "network"
    BY <1>0 DEF CallInv
  <2>3. /\ pc'[q] \in {"readArtifact1", "readArtifact2"} \/ Between(q)' => res'[q] = Pending
        /\ pc'[q] \in {"fetch", "refetch"} => res'[q] = Pending
    BY <1>0, <1>8 DEF CallInv
  <2> QED
    BY <1>1, <1>2, <1>9, <2>1, <2>2, <2>3, Zenon DEF CallInv, Pending
<1>5. res[q].kind = "pack"
        => res[q].ver \in Versions /\ res[q].at \in Nat /\ res[q].decided \in Nat
  BY <1>0, CacheAssumption DEF Results
<1>6. Kept(q)'
  BY <1>0, <1>4, <1>5 DEF Kept, PinOK
<1>7. Fresh(q)'
  <2>0. /\ res'[q] = res[q] /\ req'[q] = req[q] /\ began'[q] = began[q]
        /\ hold'[q] # "torn" => hold[q] # "torn"
    OBVIOUS
  <2>1. SUFFICES ASSUME res'[q].kind = "pack", res'[q].source = "cache" => hold'[q] # "torn",
                        res'[q].source # "file", ~res'[q].stale, ~res'[q].degraded
                 PROVE  /\ confirmed'[res'[q].ver] > 0
                        /\ res'[q].decided - confirmed'[res'[q].ver] <= Grace
                        /\ req'[q].pin = 0 /\ req'[q].net => headAt'[res'[q].ver] >= began'[q]
    BY Zenon DEF Fresh
  <2>2. /\ confirmed[res[q].ver] > 0 /\ res[q].decided - confirmed[res[q].ver] <= Grace
        /\ req[q].pin = 0 /\ req[q].net => headAt[res[q].ver] >= began[q]
    BY <1>0, <2>0, <2>1, Zenon DEF Fresh
  <2>3. ASSUME NEW c \in Nat, NEW d \in Nat, NEW g \in Nat, NEW e \in Nat, c <= d, c > 0,
               e - c <= g
        PROVE  d > 0 /\ e - d <= g
    BY <2>3
  <2>4. confirmed'[res[q].ver] > 0 /\ res[q].decided - confirmed'[res[q].ver] <= Grace
    BY <1>4, <1>5, <2>0, <2>1, <2>2, <2>3, CacheAssumption
  <2>5. req[q].pin = 0 /\ req[q].net => headAt'[res[q].ver] >= began[q]
    <3>1. res[q].ver \in Versions
      BY <1>5, <2>0, <2>1
    <3>2. headAt[res[q].ver] <= headAt'[res[q].ver] /\ headAt[res[q].ver] \in Nat
          /\ headAt'[res[q].ver] \in Nat
      BY <1>4, <3>1
    <3> QED
      BY <1>0, <2>2, <3>2
  <2> QED
    BY <2>0, <2>4, <2>5
<1> QED
  BY <1>3, <1>6, <1>7

-----------------------------------------------------------------------------
(* The files. *)

LEMMA PairStep ==
  ASSUME TypeOK, ResultInv, CacheInv, NEW p \in Procs, Process(p)
  PROVE  PairInv'
<1>0. /\ PairInv /\ CallInv(p) /\ meta \in Metas /\ memMeta[p] \in Metas
      /\ pc[p] \in Resting \cup Steps /\ memArt[p] \in 0..MaxVersion
  BY DEF CacheInv, TypeOK
<1>1. \A m \in Metas : StoredIn(confirmed, m) => StoredIn(confirmed', m)
  BY StampsStay DEF Next
<1>2. published' = published
  BY RegistryUnmoved DEF env
<1>3. CASE PutArtifact(p)
  BY <1>0, <1>1, <1>2, <1>3 DEF PutArtifact, ArtifactMoved, PairInv, CallInv, Stored
<1>4. CASE PutMeta(p)
  <2>1. /\ artifact' = artifact /\ meta' = memMeta[p] /\ whole' = (hold[p] = "own")
        /\ pc[p] \in {"putMeta", "putRefresh"}
    BY <1>4 DEF PutMeta, MetaMoved
  <2>2. hold[p] = "own" => artifact = memMeta[p].ver
    BY <1>0, <2>1 DEF CallInv, Reads
  <2> QED
    BY <1>0, <1>1, <1>2, <2>1, <2>2 DEF PairInv, CallInv, Stored
<1>5. CASE ~PutArtifact(p) /\ ~PutMeta(p)
  <2>1. UNCHANGED <<artifact, meta, whole>>
    BY <1>5, FilesUnmoved
  <2> QED
    BY <1>0, <1>1, <1>2, <2>1 DEF PairInv, Stored
<1> QED
  BY <1>3, <1>4, <1>5

-----------------------------------------------------------------------------
(* The call that moves. *)

\* A pack the registry answered with or a 304 confirmed is the one it was asked for, and,
\* without a pin, the channel's head.
LEMMA WantedIsHead ==
  ASSUME NEW p \in Procs, TypeOK, HeadInv, Wanted(p) \in published
  PROVE  Wanted(p) \in Versions /\ (req[p].pin = 0 => headAt[Wanted(p)] = now)
  BY DEF TypeOK, HeadInv, Wanted

\* What a call finds in the files before and after its fetch, and in the registry.
LEMMA ReadsStep ==
  ASSUME TypeOK, CacheInv, NEW p \in Procs, Process(p)
  PROVE  Reads(p)' /\ Searched(p)' /\ began'[p] <= now'
<1>0. /\ pc \in [Procs -> Resting \cup Steps] /\ memArt \in [Procs -> 0..MaxVersion]
      /\ memMeta \in [Procs -> Metas] /\ req \in [Procs -> RequestSet]
      /\ degraded \in [Procs -> BOOLEAN] /\ hold \in [Procs -> Holds] /\ whole \in BOOLEAN
      /\ began \in [Procs -> 0..MaxTime] /\ now \in Nat
      /\ PairInv /\ HeadInv /\ CallInv(p) /\ Reads(p) /\ Searched(p) /\ began[p] <= now
  BY CacheAssumption DEF TypeOK, CacheInv, CallInv
<1>00. now' = now /\ headAt' = headAt /\ published' = published
  BY RegistryUnmoved DEF env
<1>1. CASE pc'[p] \in Resting \/ pc'[p] \in {"readArtifact1", "putArtifact", "refetch"}
  <2>1. Reads(p)' /\ Searched(p)'
    BY <1>1 DEF Reads, Searched, Between
  <2>2. began'[p] \in {began[p], now, 0}
    <3>1. CASE Override(p) \/ Crash(p) \/ Begin(p)
      BY <1>0, <3>1 DEF Override, Crash, Begin, Clear
    <3>2. CASE ~Override(p) /\ ~Crash(p) /\ ~Begin(p)
      BY <3>2 DEF Process, Progress, Fetch, ReadArtifact, ReadMeta, FetchPack, RefetchPack,
         Accept, FetchNotModified, FetchNotAuthored, FetchFails, RefetchFails, FallToCache,
         FetchUnasked304, PutArtifact, PutMeta, WriteFails, ResolveFromCache, start
    <3> QED
      BY <3>1, <3>2
  <2> QED
    BY <1>0, <1>00, <2>1, <2>2
<1>2. CASE Begin(p)
  <2>1. PICK r \in Requests[p] :
          /\ req' = [req EXCEPT ![p] = r]
          /\ pc' = [pc EXCEPT ![p] = IF r.net THEN "readArtifact1" ELSE "readArtifact2"]
    BY <1>2 DEF Begin
  <2>2. pc'[p] = "readArtifact1" \/ (pc'[p] = "readArtifact2" /\ ~req'[p].net)
    BY <1>0, <2>1
  <2>3. began'[p] = now
    BY <1>0, <1>2 DEF Begin
  <2> QED
    BY <1>0, <1>00, <2>2, <2>3 DEF Reads, Searched, Between
<1>3. CASE ReadArtifact(p)
  <2>1. /\ memArt'[p] = artifact /\ artifact' = artifact /\ whole' = whole
        /\ hold'[p] = (IF whole THEN "own" ELSE "torn") /\ began' = began
        /\ UNCHANGED <<req, degraded>>
        /\ \/ pc[p] = "readArtifact1" /\ pc'[p] = "readMeta1"
           \/ pc[p] = "readArtifact2" /\ pc'[p] = "readMeta2"
    BY <1>0, <1>3 DEF ReadArtifact, disk, start
  <2>2. Searched(p)'
    BY <1>0, <1>00, <2>1 DEF Searched
  <2> QED
    BY <1>0, <1>00, <2>1, <2>2 DEF Reads
<1>4. CASE ReadMeta(p)
  <2>1. /\ memMeta'[p] = meta /\ UNCHANGED <<artifact, meta, whole, hold, began, memArt>>
        /\ pc[p] = "readMeta1" /\ pc'[p] = "fetch"
    BY <1>0, <1>4 DEF ReadMeta, disk, care, start
  <2>2. hold[p] # "torn" => hold[p] = "own" /\ whole /\ memArt[p] = artifact
    BY <1>0, <2>1 DEF Reads, Between
  <2>3. ~Between(p)'
    BY <2>1 DEF Between
  <2> QED
    BY <1>0, <1>00, <2>1, <2>2, <2>3 DEF Reads, Searched, PairInv
<1>5. CASE FetchNotModified(p)
  <2>1. CASE memArt[p] \in EngineOK[p]
    <3>1. /\ memMeta' = [memMeta EXCEPT ![p] = [memMeta[p] EXCEPT !.at = now]]
          /\ pc'[p] = "putRefresh" /\ pc[p] = "fetch" /\ UNCHANGED <<memArt, hold, began, artifact>>
      BY <1>0, <1>5, <2>1 DEF FetchNotModified, care, start, disk
    <3>2. memMeta'[p].ver = memMeta[p].ver
      BY <1>0, <3>1 DEF Metas
    <3>3. ~Between(p)'
      BY <3>1 DEF Between
    <3> QED
      BY <1>0, <1>00, <3>1, <3>2, <3>3 DEF Reads, Searched
  <2>2. CASE memArt[p] \notin EngineOK[p]
    BY <1>0, <1>1, <1>5, <2>2 DEF FetchNotModified, Finish
  <2> QED
    BY <2>1, <2>2
<1>6. CASE FetchNotAuthored(p) \/ FetchFails(p) \/ RefetchFails(p)
  <2>1. /\ pc'[p] = "readArtifact2" /\ UNCHANGED <<req, began>>
        /\ ~degraded'[p] => Wanted(p) \notin published
    BY <1>0, <1>6 DEF FetchNotAuthored, FetchFails, RefetchFails, FallToCache, start
  <2>2. req[p].pin = 0 /\ ~degraded'[p] => published = {}
    BY <1>0, <2>1 DEF Wanted, HeadInv
  <2>3. Searched(p)'
    BY <1>00, <2>1, <2>2 DEF Searched
  <2> QED
    BY <1>0, <1>00, <2>1, <2>3 DEF Reads, Between
<1>7. CASE PutArtifact(p)
  <2>1. /\ artifact' = memArt[p] /\ memArt' = memArt /\ pc'[p] = "putMeta" /\ began' = began
    BY <1>0, <1>7 DEF PutArtifact, local, start
  <2> QED
    BY <1>0, <1>00, <2>1 DEF Reads, Searched, Between
<1>8. CASE \/ Override(p) \/ Crash(p) \/ WriteFails(p) \/ ResolveFromCache(p) \/ PutMeta(p)
           \/ FetchPack(p) \/ RefetchPack(p) \/ FetchUnasked304(p)
  <2>1. pc'[p] \in Resting \/ pc'[p] \in {"readArtifact1", "putArtifact", "refetch"}
    BY <1>0, <1>8 DEF Override, Crash, WriteFails, ResolveFromCache, PutMeta, FetchPack,
       RefetchPack, Accept, Finish, FetchUnasked304
  <2> QED
    BY <1>1, <2>1
<1> QED
  BY <1>2, <1>3, <1>4, <1>5, <1>6, <1>7, <1>8 DEF Process, Progress, Fetch

\* A call has a result only once it has left the files and the registry behind.
LEMMA PendingStep ==
  ASSUME TypeOK, CacheInv, NEW p \in Procs, Process(p)
  PROVE  /\ pc'[p] \in {"readArtifact1", "readArtifact2"} \/ Between(p)' => res'[p] = Pending
         /\ pc'[p] \in {"fetch", "refetch"} => res'[p] = Pending
<1>0. /\ pc \in [Procs -> Resting \cup Steps] /\ res \in [Procs -> Results]
      /\ pc[p] \in {"readArtifact1", "readArtifact2"} \/ Between(p) => res[p] = Pending
      /\ pc[p] \in {"fetch", "refetch"} => res[p] = Pending
  BY DEF TypeOK, CacheInv, CallInv
<1>1. CASE Begin(p)
  BY <1>0, <1>1 DEF Begin, Pending
<1>2. CASE ReadArtifact(p) \/ ReadMeta(p) \/ FetchUnasked304(p)
  <2>1. res' = res /\ (pc[p] \in {"readArtifact1", "readArtifact2", "fetch"} \/ Between(p))
    BY <1>2 DEF ReadArtifact, ReadMeta, FetchUnasked304, Between
  <2> QED
    BY <1>0, <2>1 DEF Pending
<1>3. CASE FetchNotAuthored(p) \/ FetchFails(p) \/ RefetchFails(p)
  <2>1. res' = res /\ pc[p] \in {"fetch", "refetch"}
    BY <1>3 DEF FetchNotAuthored, FetchFails, RefetchFails, FallToCache
  <2> QED
    BY <1>0, <2>1 DEF Pending
<1>4. CASE \/ Override(p) \/ Crash(p) \/ WriteFails(p) \/ ResolveFromCache(p) \/ PutMeta(p)
           \/ FetchPack(p) \/ RefetchPack(p) \/ FetchNotModified(p) \/ PutArtifact(p)
  <2>1. pc'[p] \in Resting \/ pc'[p] \in {"putArtifact", "putMeta", "putRefresh"}
    BY <1>0, <1>4 DEF Override, Crash, WriteFails, ResolveFromCache, PutMeta, FetchPack,
       RefetchPack, Accept, Finish, FetchNotModified, PutArtifact
  <2> QED
    BY <2>1 DEF Between
<1> QED
  BY <1>1, <1>2, <1>3, <1>4 DEF Process, Progress, Fetch

LEMMA CallStep ==
  ASSUME TypeOK, ResultInv, CacheInv, NEW p \in Procs, Process(p)
  PROVE  CallInv(p)'
<1>0. /\ pc \in [Procs -> Resting \cup Steps] /\ memArt \in [Procs -> 0..MaxVersion]
      /\ memMeta \in [Procs -> Metas] /\ res \in [Procs -> Results]
      /\ PairInv /\ CallInv(p) /\ meta \in Metas /\ now \in Times
      /\ confirmed \in [Versions -> 0..MaxTime]
  BY DEF TypeOK, CacheInv
<1>1. \A m \in Metas : StoredIn(confirmed, m) => StoredIn(confirmed', m)
  BY StampsStay DEF Next
<1>2. published' = published
  BY RegistryUnmoved DEF env
<1>3. /\ Reads(p)' /\ Searched(p)' /\ began'[p] <= now'
      /\ pc'[p] \in {"readArtifact1", "readArtifact2"} \/ Between(p)' => res'[p] = Pending
      /\ pc'[p] \in {"fetch", "refetch"} => res'[p] = Pending
  BY ReadsStep, PendingStep
<1>4. SUFFICES
        /\ memArt'[p] \in published \cup {NoPack}
        /\ StoredIn(confirmed', memMeta'[p])
        /\ pc'[p] \in {"putArtifact", "putMeta"}
             => memMeta'[p].ver = memArt'[p] /\ res'[p].kind = "pack" /\ res'[p].source = "network"
  BY <1>2, <1>3 DEF CallInv, Stored, Pending
<1>5. memArt[p] \in published \cup {NoPack} /\ StoredIn(confirmed', memMeta[p])
      /\ StoredIn(confirmed', meta) /\ StoredIn(confirmed', NoMeta)
      /\ artifact \in published \cup {NoPack}
  BY <1>0, <1>1 DEF CallInv, PairInv, Stored, StoredIn, NoMeta
<1>6. CASE Forget(p) /\ pc'[p] \in Resting
  <2>1. memArt'[p] = NoPack /\ memMeta'[p] = NoMeta
    BY <1>0, <1>6 DEF Forget
  <2> QED
    BY <1>5, <1>6, <2>1
<1>7. CASE FetchPack(p) \/ RefetchPack(p)
  <2>1. Accept(p, Wanted(p)) /\ Wanted(p) \in published /\ Wanted(p) \in Versions
    BY <1>7, WantedType DEF FetchPack, RefetchPack
  <2>2. CASE Wanted(p) \in EngineOK[p]
    <3>1. /\ memMeta'[p] = [ver |-> Wanted(p), at |-> now] /\ memArt'[p] = Wanted(p)
          /\ res'[p] = Pack("network", Wanted(p), now, FALSE, FALSE)
          /\ confirmed'[Wanted(p)] = now
      BY <1>0, <2>1, <2>2 DEF Accept
    <3>2. StoredIn(confirmed', memMeta'[p])
      BY <1>0, <3>1, CacheAssumption DEF StoredIn
    <3> QED
      BY <2>1, <3>1, <3>2 DEF Pack
  <2>3. CASE Wanted(p) \notin EngineOK[p]
    BY <1>0, <1>6, <2>1, <2>3 DEF Accept, Finish
  <2> QED
    BY <2>2, <2>3
<1>8. CASE FetchNotModified(p)
  <2>1. CASE memArt[p] \in EngineOK[p]
    <3>1. /\ memMeta' = [memMeta EXCEPT ![p] = [memMeta[p] EXCEPT !.at = now]]
          /\ memArt' = memArt /\ pc' = [pc EXCEPT ![p] = "putRefresh"]
          /\ confirmed' = [confirmed EXCEPT ![Wanted(p)] = now]
      BY <1>8, <2>1 DEF FetchNotModified
    <3>2. memMeta'[p].ver = memMeta[p].ver /\ memMeta'[p].at = now
      BY <1>0, <3>1 DEF Metas
    <3>3. Wanted(p) = memMeta[p].ver /\ Wanted(p) \in Versions
      BY <1>8, WantedType DEF FetchNotModified, Etag
    <3>4. StoredIn(confirmed', memMeta'[p])
      BY <1>0, <3>1, <3>2, <3>3, CacheAssumption DEF StoredIn
    <3> QED
      BY <1>0, <1>5, <3>1, <3>4
  <2>2. CASE memArt[p] \notin EngineOK[p]
    BY <1>0, <1>6, <1>8, <2>2 DEF FetchNotModified, Finish
  <2> QED
    BY <2>1, <2>2
<1>9. CASE Override(p) \/ Begin(p)
  <2>1. UNCHANGED <<memArt, memMeta>> /\ pc'[p] \notin {"putArtifact", "putMeta"}
    BY <1>0, <1>9 DEF Override, Begin
  <2> QED
    BY <1>5, <2>1
<1>10. CASE Crash(p) \/ WriteFails(p) \/ ResolveFromCache(p) \/ PutMeta(p)
  BY <1>0, <1>6, <1>10 DEF Crash, WriteFails, ResolveFromCache, PutMeta, Finish
<1>11. CASE ReadArtifact(p) \/ ReadMeta(p)
  <2>1. memArt'[p] \in {memArt[p], artifact} /\ memMeta'[p] \in {memMeta[p], meta}
        /\ pc'[p] \notin {"putArtifact", "putMeta"}
    BY <1>0, <1>11 DEF ReadArtifact, ReadMeta
  <2> QED
    BY <1>5, <2>1
<1>12. CASE FetchNotAuthored(p) \/ FetchFails(p) \/ RefetchFails(p) \/ FetchUnasked304(p)
  <2>1. UNCHANGED <<memArt, memMeta>> /\ pc'[p] \notin {"putArtifact", "putMeta"}
    BY <1>0, <1>12 DEF FetchNotAuthored, FetchFails, RefetchFails, FallToCache, FetchUnasked304,
       local
  <2> QED
    BY <1>5, <2>1
<1>13. CASE PutArtifact(p)
  BY <1>0, <1>5, <1>13 DEF PutArtifact, CallInv, local
<1> QED
  BY <1>7, <1>8, <1>9, <1>10, <1>11, <1>12, <1>13 DEF Process, Progress, Fetch

\* What a run is served is what it asked for, and stamped no later than it was confirmed.
LEMMA KeptStep ==
  ASSUME TypeOK, ResultInv, CacheInv, NEW p \in Procs, Process(p)
  PROVE  Kept(p)'
<1>0. /\ pc \in [Procs -> Resting \cup Steps] /\ memArt \in [Procs -> 0..MaxVersion]
      /\ memMeta \in [Procs -> Metas] /\ meta \in Metas /\ CallInv(p) /\ Kept(p) /\ PairInv
      /\ confirmed \in [Versions -> 0..MaxTime] /\ now \in Nat /\ artifact \in 0..MaxVersion
      /\ res \in [Procs -> Results] /\ req \in [Procs -> RequestSet]
  BY CacheAssumption DEF TypeOK, CacheInv
<1>1. CASE Override(p)
  <2>1. PICK r \in Requests[p] :
          /\ r.override # 0
          /\ req' = [req EXCEPT ![p] = r]
          /\ res' = [res EXCEPT ![p] =
                     CASE r.override = Broken -> Abort("override")
                       [] r.override # Broken /\ r.pin \notin {0, r.override} -> Abort("pin")
                       [] r.override # Broken /\ r.pin \in {0, r.override}
                            /\ r.override \notin EngineOK[p] -> Abort("engine")
                       [] OTHER -> Pack("file", r.override, 0, FALSE, FALSE)]
    BY <1>1 DEF Override
  <2>2. CASE res'[p].kind = "abort"
    BY <2>2 DEF Kept
  <2>3. CASE res'[p] = Pack("file", r.override, 0, FALSE, FALSE) /\ r.pin \in {0, r.override}
    BY <1>0, <2>1, <2>3 DEF Kept, Pack, PinOK
  <2> QED
    BY <1>0, <2>1, <2>2, <2>3 DEF Abort
<1>2. CASE Begin(p) \/ Crash(p)
  BY <1>0, <1>2 DEF Begin, Crash, Kept, Pending
<1>3. CASE FetchPack(p) \/ RefetchPack(p)
  <2>1. Accept(p, Wanted(p)) /\ Wanted(p) \in Versions
    BY <1>3, WantedType DEF FetchPack, RefetchPack
  <2>2. req'[p].pin \in {0, Wanted(p)} /\ confirmed'[Wanted(p)] = now
    BY <1>0, <2>1 DEF Accept, Wanted
  <2>3. CASE res'[p] = Pack("network", Wanted(p), now, FALSE, FALSE)
    <3>1. res'[p].ver = Wanted(p) /\ res'[p].at = now
      BY <2>3 DEF Pack
    <3> QED
      BY <1>0, <2>2, <3>1 DEF Kept, PinOK
  <2>4. CASE res'[p] = Abort("engine")
    BY <2>4 DEF Kept, Abort
  <2> QED
    BY <1>0, <2>1, <2>3, <2>4 DEF Accept
<1>4. CASE FetchNotModified(p)
  <2>0. pc[p] = "fetch" /\ hold' = hold /\ Wanted(p) \in Versions /\ Wanted(p) = memMeta[p].ver
    BY <1>4, WantedType DEF FetchNotModified, Etag, care
  <2>1. hold'[p] # "torn" => Wanted(p) = memArt[p]
    BY <1>0, <2>0 DEF CallInv, Reads
  <2>2. req'[p].pin \in {0, Wanted(p)} /\ confirmed'[Wanted(p)] = now
    BY <1>0, <1>4, <2>0 DEF FetchNotModified, Wanted
  <2>3. CASE res'[p] = Pack("cache", memArt[p], now, FALSE, FALSE)
    <3>1. res'[p].source = "cache" /\ res'[p].ver = memArt[p] /\ res'[p].at = now
      BY <2>3 DEF Pack
    <3> QED
      BY <1>0, <2>1, <2>2, <3>1 DEF Kept, PinOK
  <2>4. CASE res'[p] = Abort("engine")
    BY <2>4 DEF Kept, Abort
  <2> QED
    BY <1>0, <1>4, <2>3, <2>4 DEF FetchNotModified
<1>5. CASE ResolveFromCache(p)
  <2>1. pc[p] = "readMeta2" /\ UNCHANGED <<req, confirmed, hold>>
    BY <1>5 DEF ResolveFromCache, care
  <2>2. CASE /\ res'[p] = Pack("cache", memArt[p], meta.at, now - meta.at > Grace, degraded[p])
             /\ memArt[p] # NoPack /\ PinOK(p, meta.ver)
    <3>1. /\ res'[p].source = "cache" /\ res'[p].ver = memArt[p] /\ res'[p].at = meta.at
      BY <2>2 DEF Pack
    <3>2. hold[p] # "torn" => memArt[p] = meta.ver /\ confirmed[memArt[p]] >= meta.at
      BY <1>0, <2>1, <2>2 DEF CallInv, Reads, Between, PairInv, Stored, StoredIn
    <3> QED
      BY <1>0, <2>1, <2>2, <3>1, <3>2 DEF Kept, PinOK
  <2>3. CASE res'[p].kind = "abort"
    BY <2>3 DEF Kept
  <2> QED
    BY <1>0, <1>5, <2>2, <2>3 DEF ResolveFromCache, CacheOutcome, Abort
<1>6. CASE PutArtifact(p) \/ PutMeta(p)
  <2>1. /\ UNCHANGED <<res, req, confirmed>>
        /\ res[p].kind = "pack" /\ res[p].source = "cache" => hold'[p] = hold[p]
    <3>1. CASE PutArtifact(p)
      BY <1>0, <3>1 DEF PutArtifact, CallInv, local
    <3>2. CASE PutMeta(p)
      <4>1. pc[p] \in {"putMeta", "putRefresh"} /\ MetaMoved(p)
        BY <3>2 DEF PutMeta
      <4>2. hold'[p] = hold[p]
        BY <1>0, <4>1 DEF MetaMoved, Between
      <4> QED
        BY <3>2, <4>2 DEF PutMeta
    <3> QED
      BY <1>6, <3>1, <3>2
  <2> QED
    BY <1>0, <2>1 DEF Kept, PinOK
<1>8. CASE ReadArtifact(p)
  <2>1. res'[p] = Pending
    BY <1>0, <1>8 DEF ReadArtifact, CallInv
  <2> QED
    BY <2>1 DEF Kept, Pending
<1>7. CASE \/ ReadMeta(p) \/ FetchNotAuthored(p) \/ FetchFails(p)
           \/ RefetchFails(p) \/ FetchUnasked304(p) \/ WriteFails(p)
  <2>1. UNCHANGED <<res, req, confirmed, hold>>
    BY <1>7 DEF ReadMeta, FetchNotAuthored, FetchFails, RefetchFails, FallToCache,
       FetchUnasked304, WriteFails, local, care
  <2> QED
    BY <1>0, <2>1 DEF Kept, PinOK
<1> QED
  BY <1>8, <1>1, <1>2, <1>3, <1>4, <1>5, <1>6, <1>7 DEF Process, Progress, Fetch

\* What it is served without a flag is fresh.
LEMMA FreshStep ==
  ASSUME TypeOK, ResultInv, CacheInv, NEW p \in Procs, Process(p)
  PROVE  Fresh(p)'
<1>0. /\ pc \in [Procs -> Resting \cup Steps] /\ memArt \in [Procs -> 0..MaxVersion]
      /\ memMeta \in [Procs -> Metas] /\ meta \in Metas
      /\ degraded \in [Procs -> BOOLEAN] /\ req \in [Procs -> RequestSet]
      /\ res \in [Procs -> Results] /\ confirmed \in [Versions -> 0..MaxTime]
      /\ headAt \in [Versions -> 0..MaxTime] /\ Grace \in Nat /\ hold \in [Procs -> Holds]
      /\ began[p] \in Nat /\ began[p] <= now
      /\ now \in Nat /\ now >= 1 /\ artifact \in 0..MaxVersion
      /\ HeadInv /\ PairInv /\ CallInv(p) /\ Fresh(p)
  BY CacheAssumption DEF TypeOK, CacheInv, CallInv
<1>1. CASE Override(p)
  <2>1. PICK r \in Requests[p] :
          /\ r.override # 0
          /\ req' = [req EXCEPT ![p] = r]
          /\ res' = [res EXCEPT ![p] =
                     CASE r.override = Broken -> Abort("override")
                       [] r.override # Broken /\ r.pin \notin {0, r.override} -> Abort("pin")
                       [] r.override # Broken /\ r.pin \in {0, r.override}
                            /\ r.override \notin EngineOK[p] -> Abort("engine")
                       [] OTHER -> Pack("file", r.override, 0, FALSE, FALSE)]
    BY <1>1 DEF Override
  <2>2. CASE res'[p].kind = "abort"
    BY <2>2 DEF Fresh
  <2>3. CASE res'[p] = Pack("file", r.override, 0, FALSE, FALSE)
    BY <2>3 DEF Fresh, Pack
  <2> QED
    BY <1>0, <2>1, <2>2, <2>3 DEF Abort
<1>2. CASE Begin(p) \/ Crash(p)
  BY <1>0, <1>2 DEF Begin, Crash, Fresh, Pending
<1>3. CASE FetchPack(p) \/ RefetchPack(p)
  <2>1. Accept(p, Wanted(p)) /\ Wanted(p) \in published
    BY <1>3 DEF FetchPack, RefetchPack
  <2>2. Wanted(p) \in Versions /\ (req[p].pin = 0 => headAt[Wanted(p)] = now)
    BY <1>0, <2>1, WantedIsHead
  <2>3. confirmed'[Wanted(p)] = now /\ UNCHANGED <<headAt, req, began>>
    BY <1>0, <2>1, <2>2 DEF Accept, env, start
  <2>4. CASE res'[p] = Pack("network", Wanted(p), now, FALSE, FALSE)
    <3>1. res'[p].ver = Wanted(p) /\ res'[p].decided = now
      BY <2>4 DEF Pack
    <3> QED
      BY <1>0, <2>2, <2>3, <3>1 DEF Fresh
  <2>5. CASE res'[p] = Abort("engine")
    BY <2>5 DEF Fresh, Abort
  <2> QED
    BY <1>0, <2>1, <2>4, <2>5 DEF Accept
<1>4. CASE FetchNotModified(p)
  <2>1. Wanted(p) \in published /\ Wanted(p) = memMeta[p].ver /\ pc[p] = "fetch" /\ hold' = hold
    BY <1>4 DEF FetchNotModified, Etag, TypeOK, care
  <2>2. Wanted(p) \in Versions /\ (req[p].pin = 0 => headAt[Wanted(p)] = now)
    BY <1>0, <2>1, WantedIsHead
  <2>3. confirmed'[Wanted(p)] = now /\ UNCHANGED <<headAt, req, began>>
    BY <1>0, <1>4, <2>2 DEF FetchNotModified, env, start
  <2>4. hold'[p] # "torn" => Wanted(p) = memArt[p]
    BY <1>0, <2>1 DEF CallInv, Reads
  <2>5. CASE res'[p] = Pack("cache", memArt[p], now, FALSE, FALSE)
    <3>1. res'[p].source = "cache" /\ res'[p].ver = memArt[p] /\ res'[p].decided = now
      BY <2>5 DEF Pack
    <3> QED
      BY <1>0, <2>2, <2>3, <2>4, <3>1 DEF Fresh
  <2>6. CASE res'[p] = Abort("engine")
    BY <2>6 DEF Fresh, Abort
  <2> QED
    BY <1>0, <1>4, <2>5, <2>6 DEF FetchNotModified
<1>5. CASE ResolveFromCache(p)
  <2>1. pc[p] = "readMeta2" /\ UNCHANGED <<req, confirmed, headAt, hold, began>>
    BY <1>5 DEF ResolveFromCache, env, care, start
  <2>2. CASE /\ res'[p] = Pack("cache", memArt[p], meta.at, now - meta.at > Grace, degraded[p])
             /\ memArt[p] # NoPack
    <3>0. CASE hold[p] = "torn"
      BY <2>1, <2>2, <3>0 DEF Fresh, Pack
    <3>00. CASE hold[p] # "torn"
      <4>0. memArt[p] = artifact /\ memArt[p] = meta.ver
        BY <1>0, <2>1, <3>00 DEF CallInv, Reads, Between, PairInv
      <4>1. /\ res'[p].ver = memArt[p] /\ res'[p].decided = now
            /\ res'[p].stale = (now - meta.at > Grace) /\ res'[p].degraded = degraded[p]
        BY <2>2 DEF Pack
      <4>2. memArt[p] \in Versions /\ confirmed[memArt[p]] \in Nat /\ meta.at \in Nat
        BY <1>0, <2>2 DEF Metas
      <4>3. confirmed[memArt[p]] >= meta.at /\ meta.at >= 1
        BY <1>0, <4>0, <2>2 DEF PairInv, Stored, StoredIn
      <4>4. req[p].pin = 0 /\ req[p].net /\ ~degraded[p] => headAt[memArt[p]] >= began[p]
        BY <1>0, <2>1, <2>2 DEF CallInv, Searched
      <4>5. ~res'[p].stale => now - confirmed[memArt[p]] <= Grace
        <5> DEFINE c == confirmed[memArt[p]]
                   a == meta.at
        <5>1. c \in Nat /\ a \in Nat /\ now \in Nat /\ Grace \in Nat /\ c >= a
          BY <1>0, <4>2, <4>3
        <5>2. ~res'[p].stale => ~(now - a > Grace)
          BY <4>1
        <5> HIDE DEF c, a
        <5>3. ~(now - a > Grace) => now - c <= Grace
          BY <5>1
        <5> QED
          BY <5>2, <5>3 DEF c
      <4> QED
        BY <2>1, <4>1, <4>2, <4>3, <4>4, <4>5 DEF Fresh
    <3> QED
      BY <3>0, <3>00
  <2>3. CASE res'[p].kind = "abort"
    BY <2>3 DEF Fresh
  <2> QED
    BY <1>0, <1>5, <2>2, <2>3 DEF ResolveFromCache, CacheOutcome, Abort
<1>6. CASE PutArtifact(p) \/ PutMeta(p)
  <2>1. /\ UNCHANGED <<res, req, confirmed, headAt, began>>
        /\ res[p].kind = "pack" /\ res[p].source = "cache" => hold'[p] = hold[p]
    <3>1. CASE PutArtifact(p)
      BY <1>0, <3>1 DEF PutArtifact, CallInv, local, env, start
    <3>2. CASE PutMeta(p)
      <4>1. pc[p] \in {"putMeta", "putRefresh"} /\ MetaMoved(p)
        BY <3>2 DEF PutMeta
      <4>2. hold'[p] = hold[p]
        BY <1>0, <4>1 DEF MetaMoved, Between
      <4> QED
        BY <3>2, <4>2 DEF PutMeta, env, start
    <3> QED
      BY <1>6, <3>1, <3>2
  <2> QED
    BY <1>0, <2>1 DEF Fresh
<1>8. CASE ReadArtifact(p)
  <2>1. res'[p] = Pending
    BY <1>0, <1>8 DEF ReadArtifact, CallInv
  <2> QED
    BY <2>1 DEF Fresh, Pending
<1>7. CASE \/ ReadMeta(p) \/ FetchNotAuthored(p) \/ FetchFails(p)
           \/ RefetchFails(p) \/ FetchUnasked304(p) \/ WriteFails(p)
  <2>1. UNCHANGED <<res, req, confirmed, hold, headAt, began>>
    BY <1>7 DEF ReadMeta, FetchNotAuthored, FetchFails, RefetchFails, FallToCache,
       FetchUnasked304, WriteFails, local, care, env, start
  <2> QED
    BY <1>0, <2>1 DEF Fresh
<1> QED
  BY <1>8, <1>1, <1>2, <1>3, <1>4, <1>5, <1>6, <1>7 DEF Process, Progress, Fetch

-----------------------------------------------------------------------------
(* Everybody together. *)

LEMMA NextCacheInv == TypeOK /\ ResultInv /\ CacheInv /\ [Next]_vars => CacheInv'
<1> SUFFICES ASSUME TypeOK, ResultInv, CacheInv, [Next]_vars PROVE CacheInv'
  OBVIOUS
<1>1. CASE Publish \/ Tick
  <2>0. HeadInv /\ PairInv /\ Next
    BY <1>1 DEF CacheInv, Next
  <2>1. /\ UNCHANGED <<disk, pc, local, res, confirmed, start, care>>
        /\ published \subseteq published' /\ now <= now'
        /\ \A v \in published' \ published : headAt'[v] = now
        /\ \A v \in Versions : headAt[v] <= headAt'[v]
        /\ HeadInv'
    BY <1>1, <2>0, EnvironmentStep
  <2>2. PairInv'
    BY <2>0, <2>1 DEF PairInv, Stored, StoredIn, disk, care
  <2>3. ASSUME NEW q \in Procs PROVE CallInv(q)' /\ Kept(q)' /\ Fresh(q)'
    <3>1. /\ UNCHANGED <<pc[q], memArt[q], memMeta[q], res[q], req[q], degraded[q], began[q]>>
          /\ UNCHANGED <<artifact, whole, hold>>
      BY <2>1 DEF local, care, disk, start
    <3> QED
      BY <2>0, <2>1, <3>1, CallStays
  <2> QED
    BY <2>1, <2>2, <2>3 DEF CacheInv
<1>2. ASSUME NEW p \in Procs, Process(p)
      PROVE  CacheInv'
  <2>0. Next
    BY <1>2 DEF Next
  <2>1. UNCHANGED env
    BY <1>2, RegistryUnmoved
  <2>2. HeadInv' /\ published \subseteq published'
    BY <2>1 DEF CacheInv, HeadInv, env
  <2>3. \A v \in Versions : headAt[v] <= headAt'[v]
    <3>1. headAt' = headAt /\ \A v \in Versions : headAt[v] \in Nat
      BY <2>1, CacheAssumption DEF env, TypeOK
    <3> QED
      BY <3>1
  <2>6. now <= now' /\ published' = published
    <3>1. now' = now /\ now \in Nat
      BY <2>1, CacheAssumption DEF env, TypeOK
    <3> QED
      BY <2>1, <3>1 DEF env
  <2>4. CallInv(p)' /\ Kept(p)' /\ Fresh(p)'
    BY <1>2, CallStep, KeptStep, FreshStep
  <2>5. ASSUME NEW q \in Procs \ {p} PROVE CallInv(q)' /\ Kept(q)' /\ Fresh(q)'
    <3>1. UNCHANGED <<pc[q], memArt[q], memMeta[q], res[q], req[q], degraded[q], began[q]>>
      BY <1>2, OthersUnmoved
    <3>2. /\ hold'[q] # "torn" => hold[q] # "torn"
          /\ hold'[q] = "own" => hold[q] = "own" /\ artifact' = artifact
          /\ Between(q) /\ hold'[q] # "torn"
               => hold'[q] = hold[q] /\ artifact' = artifact /\ (whole => whole')
      BY <1>2, OthersHold
    <3> QED
      BY <2>0, <2>2, <2>3, <2>6, <3>1, <3>2, CallStays
  <2> QED
    BY <1>2, <2>2, <2>4, <2>5, PairStep DEF CacheInv
<1>3. CASE UNCHANGED vars
  BY <1>3 DEF vars, CacheInv, HeadInv, PairInv, CallInv, Reads, Searched, Between, Pending, Kept, Fresh, Stored, StoredIn, PinOK
<1> QED
  BY <1>1, <1>2, <1>3 DEF Next

LEMMA InitCacheInv == Init => CacheInv
<1> SUFFICES ASSUME Init PROVE CacheInv
  OBVIOUS
<1>1. HeadInv
  BY CacheAssumption DEF Init, HeadInv
<1>2. PairInv
  BY CacheAssumption DEF Init, PairInv, Stored, StoredIn, NoMeta
<1>3. ASSUME NEW p \in Procs PROVE CallInv(p) /\ Kept(p) /\ Fresh(p)
  BY DEF Init, CallInv, Reads, Searched, Between, Kept, Fresh, Stored, StoredIn, NoMeta, Pending
<1> QED
  BY <1>1, <1>2, <1>3 DEF CacheInv

LEMMA CacheAlways == Spec => []CacheInv
<1>1. Init => CacheInv
  BY InitCacheInv
<1>2. TypeOK /\ ResultInv /\ CacheInv /\ [Next]_vars => CacheInv'
  BY NextCacheInv
<1> QED
  BY <1>1, <1>2, TypeCorrect, ResultAlways, PTL DEF Spec

\* A run that is served gets the version it pinned, or an error (ResolveOptions.PinVersion):
\* whatever kills and failed writes tore the cache apart before, the next store that gets
\* through both renames (storeCachedPack, refreshCachedMeta) has put it right.
THEOREM PinAlwaysHonoured == Spec => []PinHonoured
<1>1. CacheInv => PinHonoured
  BY DEF CacheInv, Kept, PinHonoured, Served, Returned
<1> QED
  BY <1>1, CacheAlways, PTL

\* Provenance.FetchedAt of such a run is never later than the registry's last confirmation
\* of the pack that is returned (resolve.go).
THEOREM FetchedAtAlwaysHonest == Spec => []FetchedAtHonest
<1>1. CacheInv => FetchedAtHonest
  BY DEF CacheInv, Kept, FetchedAtHonest, Served, Returned
<1> QED
  BY <1>1, CacheAlways, PTL

\* No silent staleness of such a run: a pack without a flag was confirmed by the registry
\* within the grace window, and an unpinned online run got what was the channel's head
\* while it was under way, also when the files are replaced under its fetch.
THEOREM AlwaysFreshOrFlagged == Spec => []FreshOrFlagged
<1>1. CacheInv => FreshOrFlagged
  BY DEF CacheInv, Fresh, FreshOrFlagged, Served, Returned
<1> QED
  BY <1>1, CacheAlways, PTL

-----------------------------------------------------------------------------
(* Progress: a call never goes back on the ladder. *)

\* The steps a call at this place can take at most before it returns.
Left(place) ==
    CASE place = "readArtifact1" -> 7
      [] place = "readMeta1"     -> 6
      [] place = "fetch"         -> 5
      [] place = "refetch"       -> 4
      [] place \in {"readArtifact2", "putArtifact"} -> 2
      [] place \in {"readMeta2", "putMeta", "putRefresh"} -> 1
      [] OTHER -> 0
StepsLeft(p) == Left(pc[p])

LEMMA LeftIs ==
  ASSUME NEW place \in Resting \cup Steps
  PROVE  Left(place) \in 0..7 /\ (place \in Steps <=> Left(place) > 0)
BY DEF Left

\* Every step of a call's own takes it further.
Further(from, to) ==
    \/ from = "readArtifact1" /\ to = "readMeta1"
    \/ from = "readMeta1" /\ to = "fetch"
    \/ from = "fetch" /\ to \in {"refetch", "readArtifact2", "putArtifact", "putRefresh", "done"}
    \/ from = "refetch" /\ to \in {"readArtifact2", "putArtifact", "done"}
    \/ from = "readArtifact2" /\ to = "readMeta2"
    \/ from = "putArtifact" /\ to \in {"putMeta", "done"}
    \/ from \in {"readMeta2", "putMeta", "putRefresh"} /\ to = "done"

LEMMA FurtherIs == ASSUME NEW from, NEW to, Further(from, to) PROVE Left(to) < Left(from)
BY DEF Further, Left

LEMMA ProgressFalls ==
  ASSUME TypeOK, NEW p \in Procs, Progress(p) PROVE StepsLeft(p)' < StepsLeft(p)
<1>0. pc \in [Procs -> Resting \cup Steps]
  BY DEF TypeOK
<1>1. \E to : pc' = [pc EXCEPT ![p] = to] /\ Further(pc[p], to)
  <2> USE DEF Further
  <2>1. CASE ReadArtifact(p) \/ ReadMeta(p)
    BY <2>1 DEF ReadArtifact, ReadMeta
  <2>2. CASE FetchPack(p) \/ RefetchPack(p)
    <3>1. /\ pc[p] \in {"fetch", "refetch"}
          /\ pc' = [pc EXCEPT ![p] = "putArtifact"] \/ pc' = [pc EXCEPT ![p] = "done"]
      BY <2>2, Zenon DEF FetchPack, RefetchPack, Accept, Finish
    <3> QED
      BY <3>1
  <2>3. CASE FetchNotModified(p)
    <3>1. /\ pc[p] = "fetch"
          /\ pc' = [pc EXCEPT ![p] = "putRefresh"] \/ pc' = [pc EXCEPT ![p] = "done"]
      BY <2>3, Zenon DEF FetchNotModified, Finish
    <3> QED
      BY <3>1
  <2>4. CASE FetchNotAuthored(p) \/ FetchFails(p) \/ RefetchFails(p)
    BY <2>4 DEF FetchNotAuthored, FetchFails, RefetchFails, FallToCache
  <2>5. CASE FetchUnasked304(p) \/ PutArtifact(p) \/ PutMeta(p) \/ WriteFails(p)
    BY <2>5 DEF FetchUnasked304, PutArtifact, PutMeta, WriteFails, Finish
  <2>6. CASE ResolveFromCache(p)
    BY <2>6 DEF ResolveFromCache, Finish
  <2> QED
    BY <2>1, <2>2, <2>3, <2>4, <2>5, <2>6 DEF Progress, Fetch
<1>2. Further(pc[p], pc'[p])
  BY <1>0, <1>1
<1> QED
  BY <1>2, FurtherIs DEF StepsLeft

\* Nobody else sets a call back.
LEMMA NobodySetsBack ==
  ASSUME TypeOK, NEW p \in Procs, Running(p), Next PROVE StepsLeft(p)' <= StepsLeft(p)
<1>0. pc[p] \in Steps /\ Left(pc[p]) \in 0..7
  BY LeftIs DEF TypeOK, Running
<1>1. CASE Publish \/ Tick
  BY <1>0, <1>1 DEF Publish, Tick, StepsLeft
<1>2. ASSUME NEW q \in Procs \ {p}, Process(q) PROVE StepsLeft(p)' <= StepsLeft(p)
  BY <1>0, <1>2, OthersUnmoved DEF StepsLeft
<1>3. CASE Progress(p)
  <2>1. StepsLeft(p)' < StepsLeft(p)
    BY <1>3, ProgressFalls
  <2>2. TypeOK'
    BY NextTypeOK
  <2>3. Left(pc'[p]) \in 0..7
    BY <2>2, LeftIs DEF TypeOK
  <2> QED
    BY <1>0, <2>1, <2>3 DEF StepsLeft
<1>4. CASE Crash(p)
  BY <1>0, <1>4 DEF Crash, StepsLeft, Left, TypeOK
<1>5. ~Override(p) /\ ~Begin(p)
  BY <1>0 DEF Override, Begin
<1> QED
  BY <1>1, <1>2, <1>3, <1>4, <1>5 DEF Next, Process

\* A call of Resolve is over after seven steps of its own, whatever the registry answers,
\* the writes do and other processes do meanwhile: an unasked 304 is fetched once more and
\* never again, and rung 2 never leads back to rung 1 (Resolve).
THEOREM CallsBounded ==
  Spec => /\ [](\A p \in Procs : StepsLeft(p) \in 0..7 /\ (Running(p) <=> StepsLeft(p) > 0))
          /\ [][\A p \in Procs : /\ Progress(p) => StepsLeft(p)' < StepsLeft(p)
                                 /\ Running(p) => StepsLeft(p)' <= StepsLeft(p)]_vars
<1>1. TypeOK => \A p \in Procs : StepsLeft(p) \in 0..7 /\ (Running(p) <=> StepsLeft(p) > 0)
  BY LeftIs DEF TypeOK, Running, StepsLeft
<1>2. TypeOK /\ [Next]_vars =>
        [\A p \in Procs : /\ Progress(p) => StepsLeft(p)' < StepsLeft(p)
                          /\ Running(p) => StepsLeft(p)' <= StepsLeft(p)]_vars
  BY ProgressFalls, NobodySetsBack
<1> QED
  BY <1>1, <1>2, TypeCorrect, PTL DEF Spec
=============================================================================
