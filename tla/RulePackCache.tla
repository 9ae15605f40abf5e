--------------------------- MODULE RulePackCache ---------------------------
(***************************************************************************)
(* The rule-pack resolve ladder of internal/audit/rulesbundle              *)
(* (resolve.go) over its two-file on-disk cache (cache.go), run by several *)
(* cbx processes that share one cache directory while the registry         *)
(* publishes and rolls back packs.                                         *)
(*                                                                         *)
(* A pack is its version number.  The registry's ETag identifies the       *)
(* version, so the sidecar field "ver" stands for both ETag and            *)
(* PackVersion, which the code always writes from one response.  The clock *)
(* counts coarse units (days): a run's own latency is below one unit, so a *)
(* response and the timeNow() stamp that follows it are one action.        *)
(***************************************************************************)
EXTENDS Integers

CONSTANTS Procs,        \* cbx processes sharing the cache directory
          MaxVersion,   \* packs are 1..MaxVersion; 0 is "no pack"
          MaxTime,      \* bound of the clock
          Grace,        \* ResolveOptions.GraceWindow
          EngineOK,     \* EngineOK[p]: versions whose min_engine_version p's build satisfies
          Requests,     \* Requests[p]: the ResolveOptions p's runs may be started with
          MayCrash,     \* a run may be killed between any two steps
          WritesMayFail \* a cache write may fail (full disk, read-only HOME)

NoPack == 0
Versions == 1..MaxVersion
Times == 1..MaxTime
Broken == -1            \* an override file that cannot be read or parsed

\* pin 0 is "latest"; override 0 is "no CBX_AUDIT_RULES_FILE"; net is Fetch # nil.
RequestSet == [pin : 0..MaxVersion, override : {Broken} \cup (0..MaxVersion), net : BOOLEAN]

ASSUME CacheAssumption ==
    /\ MaxVersion \in Nat /\ MaxTime \in Nat \ {0} /\ Grace \in Nat
    /\ EngineOK \in [Procs -> SUBSET Versions]
    /\ Requests \in [Procs -> SUBSET RequestSet]
    /\ MayCrash \in BOOLEAN /\ WritesMayFail \in BOOLEAN

VARIABLES
    reg,        \* version the registry channel serves now, NoPack for an empty channel
    published,  \* versions the registry holds
    now,        \* wall clock
    artifact,   \* aws-<channel>-schema1.json: NoPack when missing or invalid
    meta,       \* aws-<channel>-schema1.meta.json
    pc,         \* pc[p]: where p's call of Resolve is
    req,        \* req[p]: its options
    memArt,     \* memArt[p]: artifact bytes p read last
    memMeta,    \* memMeta[p]: sidecar p read last, or is about to write
    degraded,   \* degraded[p]: the local variable of Resolve
    res,        \* res[p]: what the call returns
    headAt,     \* history: when the channel last pointed at each version
    confirmed,  \* history: when the registry last answered with (or 304'd) each version
    warm,       \* history: both cache files existed when p's run began
    began,      \* history: began[p]: when p's run began
    whole,      \* history: the artifact and the sidecar in the files are of one store
    hold        \* history: hold[p]: what p has of them is of one store

env == <<reg, published, now, headAt>>
disk == <<artifact, meta>>
local == <<req, memArt, memMeta, degraded>>
care == <<whole, hold>>
start == <<warm, began>>
vars == <<reg, published, now, headAt, artifact, meta, pc, req, memArt, memMeta,
          degraded, res, confirmed, warm, began, whole, hold>>

\* The artifact and the sidecar p read, or wrote, are of two stores; of one store; of the
\* one whose artifact is still in the files.
Holds == {"torn", "old", "own"}

NoMeta == [ver |-> NoPack, at |-> 0]
Metas == [ver : 0..MaxVersion, at : 0..MaxTime]
Sources == {"network", "cache", "file"}

\* The three kinds of outcome: none yet, an abort-class error, a pack with its Provenance.
Pending == [kind |-> "none"]
Abort(why) == [kind |-> "abort", why |-> why]
Pack(src, v, at, stale, degr) ==
    [kind |-> "pack", source |-> src, ver |-> v, at |-> at, stale |-> stale,
     degraded |-> degr, decided |-> now]
Results ==
    [kind : {"none"}]
      \cup [kind : {"abort"}, why : {"override", "pin", "engine", "exhausted"}]
      \cup [kind : {"pack"}, source : Sources, ver : Versions, at : 0..MaxTime,
            stale : BOOLEAN, degraded : BOOLEAN, decided : Times]

Resting == {"idle", "done"}
Steps == {"readArtifact1", "readMeta1", "fetch", "refetch", "putArtifact", "putMeta",
          "putRefresh", "readArtifact2", "readMeta2"}
Running(p) == pc[p] \in Steps

TypeOK ==
    /\ reg \in 0..MaxVersion /\ published \subseteq Versions /\ now \in Times
    /\ artifact \in 0..MaxVersion /\ meta \in Metas
    /\ pc \in [Procs -> Resting \cup Steps]
    /\ req \in [Procs -> RequestSet]
    /\ memArt \in [Procs -> 0..MaxVersion] /\ memMeta \in [Procs -> Metas]
    /\ degraded \in [Procs -> BOOLEAN]
    /\ res \in [Procs -> Results]
    /\ headAt \in [Versions -> 0..MaxTime]
    /\ confirmed \in [Versions -> 0..MaxTime]
    /\ warm \in [Procs -> BOOLEAN]
    /\ began \in [Procs -> 0..MaxTime] /\ whole \in BOOLEAN /\ hold \in [Procs -> Holds]

NoRequest == [pin |-> 0, override |-> 0, net |-> FALSE]

\* A cold cache, or one an earlier run filled at time 1 with the pack then current.
Init ==
    /\ now = 1
    /\ reg \in 0..MaxVersion
    /\ published = IF reg = NoPack THEN {} ELSE {reg}
    /\ headAt = [v \in Versions |-> IF v = reg THEN 1 ELSE 0]
    /\ artifact \in {NoPack, reg}
    /\ meta = IF artifact = NoPack THEN NoMeta ELSE [ver |-> artifact, at |-> 1]
    /\ confirmed = [v \in Versions |-> IF v = artifact THEN 1 ELSE 0]
    /\ pc = [p \in Procs |-> "idle"]
    /\ req = [p \in Procs |-> NoRequest]
    /\ memArt = [p \in Procs |-> NoPack]
    /\ memMeta = [p \in Procs |-> NoMeta]
    /\ degraded = [p \in Procs |-> FALSE]
    /\ res = [p \in Procs |-> Pending]
    /\ warm = [p \in Procs |-> FALSE]
    /\ began = [p \in Procs |-> 0] /\ whole = TRUE /\ hold = [p \in Procs |-> "torn"]

-----------------------------------------------------------------------------
(* The environment. *)

\* The channel is repointed: a new pack, or a rollback to an older one.
Publish ==
    /\ \E v \in Versions \ {reg} :
         /\ reg' = v /\ published' = published \cup {v}
         /\ headAt' = [headAt EXCEPT ![v] = now]
    /\ UNCHANGED <<now, disk, pc, local, res, confirmed, start, care>>

Tick ==
    /\ now < MaxTime
    /\ now' = now + 1
    /\ headAt' = IF reg = NoPack THEN headAt ELSE [headAt EXCEPT ![reg] = now + 1]
    /\ UNCHANGED <<reg, published, disk, pc, local, res, confirmed, start, care>>

-----------------------------------------------------------------------------
(* Rung 0 and the choice of rung. *)

PinOK(p, v) == req[p].pin \in {0, v}

\* The history of p's last run is over.
Clear(p) ==
    /\ warm' = [warm EXCEPT ![p] = FALSE] /\ began' = [began EXCEPT ![p] = 0]
    /\ hold' = [hold EXCEPT ![p] = "torn"]

\* Resolve with CBX_AUDIT_RULES_FILE set: network and cache are bypassed.
Override(p) ==
    /\ pc[p] \in Resting
    /\ \E r \in Requests[p] :
         /\ r.override # 0
         /\ req' = [req EXCEPT ![p] = r]
         /\ res' = [res EXCEPT ![p] =
                     CASE r.override = Broken -> Abort("override")
                       [] r.override # Broken /\ r.pin \notin {0, r.override} -> Abort("pin")
                       [] r.override # Broken /\ r.pin \in {0, r.override}
                            /\ r.override \notin EngineOK[p] -> Abort("engine")
                       [] OTHER -> Pack("file", r.override, 0, FALSE, FALSE)]
    /\ pc' = [pc EXCEPT ![p] = "done"]
    /\ Clear(p)
    /\ UNCHANGED <<env, disk, memArt, memMeta, degraded, confirmed, whole>>

\* The call is over, and its local variables with it.
Forget(p) ==
    /\ memArt' = [memArt EXCEPT ![p] = NoPack]
    /\ memMeta' = [memMeta EXCEPT ![p] = NoMeta]
    /\ degraded' = [degraded EXCEPT ![p] = FALSE]
Finish(p) == pc' = [pc EXCEPT ![p] = "done"] /\ Forget(p)

Begin(p) ==
    /\ pc[p] \in Resting
    /\ \E r \in Requests[p] :
         /\ r.override = 0
         /\ req' = [req EXCEPT ![p] = r]
         /\ pc' = [pc EXCEPT ![p] = IF r.net THEN "readArtifact1" ELSE "readArtifact2"]
    /\ res' = [res EXCEPT ![p] = Pending]
    /\ warm' = [warm EXCEPT ![p] = artifact # NoPack /\ meta # NoMeta]
    /\ began' = [began EXCEPT ![p] = now]
    /\ hold' = [hold EXCEPT ![p] = "torn"]
    /\ UNCHANGED <<env, disk, memArt, memMeta, degraded, confirmed, whole>>

-----------------------------------------------------------------------------
(* loadCachedPack: two reads, the artifact first. *)

ReadArtifact(p) ==
    /\ \/ pc[p] = "readArtifact1" /\ pc' = [pc EXCEPT ![p] = "readMeta1"]
       \/ pc[p] = "readArtifact2" /\ pc' = [pc EXCEPT ![p] = "readMeta2"]
    /\ memArt' = [memArt EXCEPT ![p] = artifact]
    /\ hold' = [hold EXCEPT ![p] = IF whole THEN "own" ELSE "torn"]
    /\ UNCHANGED <<env, disk, req, memMeta, degraded, res, confirmed, start, whole>>

ReadMeta(p) ==
    /\ pc[p] = "readMeta1"
    /\ memMeta' = [memMeta EXCEPT ![p] = meta]
    /\ pc' = [pc EXCEPT ![p] = "fetch"]
    /\ UNCHANGED <<env, disk, req, memArt, degraded, res, confirmed, start, care>>

\* The ETag sent with the fetch: withheld without a usable cache or on a pin mismatch.
Etag(p) ==
    IF memArt[p] # NoPack /\ memMeta[p] # NoMeta /\ PinOK(p, memMeta[p].ver)
    THEN memMeta[p].ver ELSE NoPack

-----------------------------------------------------------------------------
(* Rung 1: the registry's answers. *)

Wanted(p) == IF req[p].pin = 0 THEN reg ELSE req[p].pin

\* A validated pack in hand: abort on the engine handshake, else store it.
Accept(p, v) ==
    /\ confirmed' = [confirmed EXCEPT ![v] = now]
    /\ \/ /\ v \in EngineOK[p]
          /\ res' = [res EXCEPT ![p] = Pack("network", v, now, FALSE, FALSE)]
          /\ memArt' = [memArt EXCEPT ![p] = v]
          /\ memMeta' = [memMeta EXCEPT ![p] = [ver |-> v, at |-> now]]
          /\ pc' = [pc EXCEPT ![p] = "putArtifact"]
          /\ UNCHANGED degraded
       \/ /\ v \notin EngineOK[p]
          /\ res' = [res EXCEPT ![p] = Abort("engine")]
          /\ Finish(p)
    /\ UNCHANGED <<env, disk, req, start, care>>

FetchPack(p) ==
    /\ pc[p] = "fetch"
    /\ Wanted(p) \in published /\ Wanted(p) # Etag(p)
    /\ Accept(p, Wanted(p))

\* 304 to the ETag we sent: the copy read before the fetch is served.
FetchNotModified(p) ==
    /\ pc[p] = "fetch"
    /\ Wanted(p) \in published /\ Wanted(p) = Etag(p)
    /\ confirmed' = [confirmed EXCEPT ![Wanted(p)] = now]
    /\ \/ /\ memArt[p] \in EngineOK[p]
          /\ res' = [res EXCEPT ![p] = Pack("cache", memArt[p], now, FALSE, FALSE)]
          /\ memMeta' = [memMeta EXCEPT ![p].at = now]
          /\ pc' = [pc EXCEPT ![p] = "putRefresh"]
          /\ UNCHANGED <<memArt, degraded>>
       \/ /\ memArt[p] \notin EngineOK[p]
          /\ res' = [res EXCEPT ![p] = Abort("engine")]
          /\ Finish(p)
    /\ UNCHANGED <<env, disk, req, start, care>>

FallToCache(p, degr) ==
    /\ degraded' = [degraded EXCEPT ![p] = degr]
    /\ pc' = [pc EXCEPT ![p] = "readArtifact2"]
    /\ UNCHANGED <<env, disk, req, memArt, memMeta, res, confirmed, start, care>>

\* 404: the channel is empty or the registry does not hold the pinned version.
FetchNotAuthored(p) ==
    pc[p] = "fetch" /\ Wanted(p) \notin published /\ FallToCache(p, FALSE)

\* Mutant: the failure is not recorded.
FetchFails_Silent(p) ==
    pc[p] = "fetch" /\ FallToCache(p, FALSE)

\* A transport error or 5xx; bytes that fail Parse; a version other than the pin.
FetchFails(p) ==
    pc[p] = "fetch" /\ FallToCache(p, TRUE)

\* Mutant: the 304 is believed and the cache that does not exist is served.
FetchUnasked304_Serves(p) ==
    /\ pc[p] = "fetch" /\ Etag(p) = NoPack
    /\ res' = [res EXCEPT ![p] = Pack("cache", memArt[p], now, FALSE, FALSE)]
    /\ pc' = [pc EXCEPT ![p] = "done"]
    /\ UNCHANGED <<env, disk, local, confirmed, start, care>>

\* A fetcher that answers 304 although no ETag was sent.
FetchUnasked304(p) ==
    /\ pc[p] = "fetch" /\ Etag(p) = NoPack
    /\ pc' = [pc EXCEPT ![p] = "refetch"]
    /\ UNCHANGED <<env, disk, local, res, confirmed, start, care>>

RefetchPack(p) ==
    pc[p] = "refetch" /\ Wanted(p) \in published /\ Accept(p, Wanted(p))

\* Mutant: the unconditional refetch is retried instead of falling through.
RefetchFails_Retries(p) ==
    /\ pc[p] = "refetch"
    /\ pc' = [pc EXCEPT ![p] = "fetch"]
    /\ UNCHANGED <<env, disk, local, res, confirmed, start, care>>

RefetchFails(p) ==
    pc[p] = "refetch" /\ FallToCache(p, TRUE)

-----------------------------------------------------------------------------
(* storeCachedPack and refreshCachedMeta: best effort, one rename per file. *)

\* What a rename of the artifact does to the others who have read it, and one of a sidecar
\* that is not the artifact's to those who are about to read it.
Between(q) == pc[q] \in {"readMeta1", "readMeta2"}
ArtifactMoved(p) ==
    /\ whole' = FALSE
    /\ hold' = [q \in Procs |-> CASE q = p -> "own"
                                  [] q # p /\ Between(q) -> "torn"
                                  [] q # p /\ ~Between(q) /\ hold[q] = "own" -> "old"
                                  [] OTHER -> hold[q]]
MetaMoved(p) ==
    /\ whole' = (hold[p] = "own")
    /\ hold' = [q \in Procs |->
                  IF hold[p] # "own" /\ Between(q) THEN "torn" ELSE hold[q]]

\* Mutant: the artifact is truncated and written in place.
PutArtifact_InPlace(p) ==
    /\ pc[p] = "putArtifact"
    /\ \/ artifact' = NoPack /\ UNCHANGED pc
       \/ artifact' = memArt[p] /\ pc' = [pc EXCEPT ![p] = "putMeta"]
    /\ ArtifactMoved(p)
    /\ UNCHANGED <<env, meta, local, res, confirmed, start>>

PutArtifact(p) ==
    /\ pc[p] = "putArtifact"
    /\ artifact' = memArt[p]
    /\ pc' = [pc EXCEPT ![p] = "putMeta"]
    /\ ArtifactMoved(p)
    /\ UNCHANGED <<env, meta, local, res, confirmed, start>>

PutMeta(p) ==
    /\ pc[p] \in {"putMeta", "putRefresh"}
    /\ meta' = memMeta[p]
    /\ Finish(p)
    /\ MetaMoved(p)
    /\ UNCHANGED <<env, artifact, req, res, confirmed, start>>

WriteFails(p) ==
    /\ WritesMayFail /\ pc[p] \in {"putArtifact", "putMeta", "putRefresh"}
    /\ Finish(p)
    /\ UNCHANGED <<env, disk, req, res, confirmed, start, care>>

-----------------------------------------------------------------------------
(* Rung 2. *)

\* Mutants: rung 2 without the pin check, with a fresh stamp, without checkEngine.
CacheOutcome_AnyVersion(p) ==
    IF memArt[p] = NoPack \/ meta = NoMeta THEN Abort("exhausted")
    ELSE IF memArt[p] \in EngineOK[p]
         THEN Pack("cache", memArt[p], meta.at, now - meta.at > Grace, degraded[p])
         ELSE Abort("engine")

CacheOutcome_StampsNow(p) ==
    IF memArt[p] = NoPack \/ meta = NoMeta \/ ~PinOK(p, meta.ver) THEN Abort("exhausted")
    ELSE IF memArt[p] \in EngineOK[p]
         THEN Pack("cache", memArt[p], now, FALSE, degraded[p])
         ELSE Abort("engine")

CacheOutcome_AnyEngine(p) ==
    IF memArt[p] = NoPack \/ meta = NoMeta \/ ~PinOK(p, meta.ver) THEN Abort("exhausted")
    ELSE Pack("cache", memArt[p], meta.at, now - meta.at > Grace, degraded[p])

\* The sidecar decides the pin; the pack comes from the artifact.
CacheOutcome(p) ==
    IF memArt[p] # NoPack /\ meta # NoMeta /\ PinOK(p, meta.ver)
    THEN IF memArt[p] \in EngineOK[p]
         THEN Pack("cache", memArt[p], meta.at, now - meta.at > Grace, degraded[p])
         ELSE Abort("engine")
    ELSE Abort("exhausted")

ResolveFromCache(p) ==
    /\ pc[p] = "readMeta2"
    /\ res' = [res EXCEPT ![p] = CacheOutcome(p)]
    /\ Finish(p)
    /\ UNCHANGED <<env, disk, req, confirmed, start, care>>

\* The process is killed; its files stay as they are.
Crash(p) ==
    /\ MayCrash /\ Running(p)
    /\ pc' = [pc EXCEPT ![p] = "idle"]
    /\ res' = [res EXCEPT ![p] = Pending]
    /\ Forget(p)
    /\ Clear(p)
    /\ UNCHANGED <<env, disk, req, confirmed, whole>>

-----------------------------------------------------------------------------
Fetch(p) ==
    \/ FetchPack(p) \/ FetchNotModified(p) \/ FetchNotAuthored(p) \/ FetchFails(p)
    \/ FetchUnasked304(p) \/ RefetchPack(p) \/ RefetchFails(p)

\* A step of a call in progress.
Progress(p) ==
    \/ ReadArtifact(p) \/ ReadMeta(p) \/ Fetch(p)
    \/ PutArtifact(p) \/ PutMeta(p) \/ WriteFails(p) \/ ResolveFromCache(p)

Process(p) == Override(p) \/ Begin(p) \/ Progress(p) \/ Crash(p)

Next == Publish \/ Tick \/ \E p \in Procs : Process(p)

Spec == Init /\ [][Next]_vars

\* Every HTTP call has a timeout (knowledge.New: 20 s), so a fetch is answered;
\* file reads and writes return.  Nothing forces a new run or a registry change.
FairSpec == Spec /\ \A p \in Procs : WF_vars(Progress(p))

-----------------------------------------------------------------------------
(* Properties. *)

Returned(p) == pc[p] = "done" /\ res[p].kind = "pack"

\* A pack fetched, read from the override file, or taken from a cache whose two files, as p
\* read them, were of one store: the last one was not killed, failed or overlapped between
\* its two renames, and nobody renamed a file between p's two reads.
Served(p) == Returned(p) /\ (res[p].source = "cache" => hold[p] # "torn")

\* "A pin no source satisfies is an error" (ResolveOptions.PinVersion), to the letter.  The
\* code does not keep it: an artifact whose sidecar write failed or was killed
\* (storeCachedPack), or met another writer's, is served under the sidecar's version.
PinExact == \A p \in Procs : Returned(p) => PinOK(p, res[p].ver)

\* What it does keep of the pin, and how far the damage goes: however many writes failed
\* and processes were killed or overlapped before, the next store that gets through both
\* renames mends the pair, and no run served from then on is given another version.
PinHonoured == \A p \in Procs : Served(p) => PinOK(p, res[p].ver)

\* Provenance.FetchedAt is true of such a run: the pack that is returned was confirmed
\* current by the registry at that time or later (resolve.go, the field's comment), also
\* after a 304 that a failed refreshCachedMeta did not record.
FetchedAtHonest ==
    \A p \in Procs : Served(p) /\ res[p].source # "file"
                        => confirmed[res[p].ver] >= res[p].at

\* No silent staleness of such a run (the LLM-CB-RULES-STALE rule): a pack returned with
\* neither Stale nor Degraded set was served or revalidated by the registry within the
\* grace window, and an unpinned online run's was the channel's head while it was under
\* way, although the pack was read before the fetch and another process may replace the
\* files, or the registry the head, at any time since.
FreshOrFlagged ==
    \A p \in Procs :
      Served(p) /\ res[p].source # "file" /\ ~res[p].stale /\ ~res[p].degraded
        => /\ confirmed[res[p].ver] > 0
           /\ res[p].decided - confirmed[res[p].ver] <= Grace
           /\ req[p].pin = 0 /\ req[p].net => headAt[res[p].ver] >= began[p]

\* Whatever other processes, crashes and failed writes do to the cache, no run is
\* given a pack that needs a newer engine than its own build (checkEngine).
EngineSound == \A p \in Procs : Returned(p) => res[p].ver \in EngineOK[p]

\* A cache that was complete when an unpinned run began always carries it through:
\* no concurrent writer, crash or failed write makes the ladder run dry.
WarmCacheCarries ==
    \A p \in Procs : pc[p] = "done" /\ res[p] = Abort("exhausted") /\ req[p].pin = 0
                        => ~warm[p]

\* Every call of Resolve returns (or its process is killed).
CallsReturn == \A p \in Procs : []<>~Running(p)
=============================================================================
