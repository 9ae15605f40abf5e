----------------------------- MODULE Discovery -----------------------------
(***************************************************************************)
(* Discover (internal/audit/discover/aws): the read-only walk over one AWS *)
(* account.  Preflight, region resolution, the scout that narrows          *)
(* "--region all", a worker pool over (region, type) cells, and the        *)
(* integrity pass that lists a second time what came back empty.           *)
(*                                                                         *)
(* AWS is the set "there", which may grow while the audit runs.  What      *)
(* CloudControl answers is any outcome the code has a branch for, the      *)
(* silently empty list included.  Permission and other errors end in two   *)
(* slices of the same result: one set here.                                *)
(***************************************************************************)
EXTENDS Naturals, Sequences, FiniteSets

CONSTANTS Types,       \* the curated CFN types
          Kind,        \* Kind[t]: how t is listed, see Kinds
          Global,      \* types listed in one region only
          Probes,      \* scoutProbeTypes
          Ids,         \* identifiers of the resources of a cell
          Managed,     \* <<type, id>> that the type's KeepIdentifier drops
          Enabled,     \* the account's regions, in DescribeRegions order
          Named,       \* regions named on the command line, or the profile's default
          Wants,       \* kinds of invocation: "named", "all", "prompt", "none"
          Accounts,    \* what the account may hold when the run starts
          Concurrency, \* size of both worker pools
          Growth,      \* resources that may be created during the run
          CtxMayEnd    \* the caller's context may end

\* A type without a native lister is re-listed when its findings are curated ("bare").
Kinds == {"bare", "uncurated", "fallback", "custom"}
InSeq(s) == {s[i] : i \in DOMAIN s}
\* What a loop over s keeps of it: the members that are in S, in their order.
KeptUpTo(s, S) ==
    LET kept[n \in 0..Len(s)] ==
          IF n = 0 THEN <<>>
          ELSE IF s[n] \in S THEN Append(kept[n - 1], s[n]) ELSE kept[n - 1]
    IN  kept
Keep(s, S) == KeptUpTo(s, S)[Len(s)]
Regions == InSeq(Enabled) \cup InSeq(Named)
Everywhere == "global" \* the home of a global type's resources
Homes == Regions \cup {Everywhere}
Cells == Regions \X Types
Workers == 1..Concurrency

Home(c) == IF c[2] \in Global THEN Everywhere ELSE c[1]
Places == {x \in Homes \X Types \X Ids : x[1] = Everywhere <=> x[2] \in Global}

ASSUME DiscoveryAssumption ==
    /\ Kind \in [Types -> Kinds] /\ Types # {} /\ "scout" \notin Types
    /\ IsFiniteSet(Types)
    /\ Global \subseteq Types /\ Probes \subseteq Types \ Global
    /\ Ids \subseteq Nat /\ Managed \subseteq Types \X Ids
    /\ Enabled \in Seq(Regions) /\ Named \in Seq(Regions)
    /\ Enabled # <<>> /\ Named # <<>> /\ Everywhere \notin Regions
    /\ Wants \subseteq {"named", "all", "prompt", "none"}
    /\ Accounts \subseteq SUBSET Places /\ Concurrency \in Nat \ {0}
    /\ Growth \subseteq Places /\ CtxMayEnd \in BOOLEAN

VARIABLES
    there,      \* AWS: the resources, as <<home, type, id>>
    ended,      \* the context has ended
    phase,      \* where Discover is
    want, dry,  \* the invocation, and ScoutOnly
    regions,    \* its regions variable
    probed,     \* probed[r]: the scout's result for r
    queue,      \* cells the producer has still to hand out
    closed,     \* jobCh is closed
    job,        \* job[w]: the cell worker w holds, if any
    exited,     \* workers that have left their loop
    found,      \* the resources discovered, as <<cell, id>>
    errs,       \* PermissionErr and OtherErrs: whom they name and what failed
    candidates, \* integrityCandidates
    warnings,   \* IntegrityWarnings, as <<home, type>>
    truth,      \* history: what each cell held when it was listed, as <<cell, id>>
    silent,     \* history: cells whose listing dropped something without an error
    blind,      \* history: candidates the second listing said nothing about
    unfetched   \* history: resources listed, but not fetched after a failed GetResource

pool == <<queue, closed, job, exited>>
result == <<found, errs, candidates, warnings, truth, silent, blind,
            unfetched>>
vars == <<there, ended, phase, want, dry, regions, probed, pool, result>>

NotProbed == [alive |-> FALSE, err |-> FALSE, over |-> FALSE]

TypeOK ==
    /\ there \subseteq Homes \X Types \X Ids /\ ended \in BOOLEAN
    /\ phase \in {"preflight", "regions", "scout", "plan", "discover", "reprobe",
                  "done", "failed"}
    /\ want \in Wants /\ dry \in BOOLEAN
    /\ regions \in Seq(Regions)
    /\ probed \in [Regions -> [alive : BOOLEAN, err : BOOLEAN, over : BOOLEAN]]
    /\ queue \subseteq Cells /\ closed \in BOOLEAN
    /\ job \in [Workers -> SUBSET Cells] /\ exited \subseteq Workers
    /\ found \subseteq Cells \X Ids
    /\ errs \subseteq Regions \X (Types \cup {"scout"}) \X {"list", "other"}
    /\ candidates \subseteq Cells /\ warnings \subseteq Homes \X Types
    /\ truth \subseteq Cells \X Ids /\ silent \subseteq Cells /\ blind \subseteq Cells
    /\ unfetched \subseteq Cells \X Ids

Init ==
    /\ there \in Accounts
    /\ ended = FALSE /\ phase = "preflight"
    /\ want \in Wants /\ dry \in BOOLEAN
    /\ regions = <<>> /\ probed = [r \in Regions |-> NotProbed]
    /\ queue = {} /\ closed = TRUE /\ exited = Workers
    /\ job = [w \in Workers |-> {}]
    /\ found = {} /\ errs = {} /\ candidates = {} /\ warnings = {}
    /\ truth = {} /\ silent = {} /\ blind = {} /\ unfetched = {}

-----------------------------------------------------------------------------
(* Preflight and regions. *)

\* Config load, STS and DescribeRegions may fail; without a default region a
\* non-interactive run fails, and the user may abort the prompt.
Fail ==
    /\ phase = "preflight" \/ (phase = "regions" /\ want # "named")
    /\ phase' = "failed"
    /\ UNCHANGED <<there, ended, want, dry, regions, probed, pool, result>>

Preflight ==
    /\ phase = "preflight" /\ phase' = "regions"
    /\ UNCHANGED <<there, ended, want, dry, regions, probed, pool, result>>

\* The picker is open: Discover waits for the user.
Asking == phase = "regions" /\ want = "prompt"

\* Only a literal "all" on the command line is scouted, not "all" picked at the prompt.
ResolveRegions ==
    /\ phase = "regions" /\ want # "none"
    /\ regions' \in CASE want = "named" -> {Named}
                      [] want = "all" -> {Enabled}
                      [] want = "prompt" ->
                           {Keep(Enabled, S) : S \in (SUBSET InSeq(Enabled)) \ {{}}}
    /\ phase' = IF want = "all" /\ Len(regions') > 1 THEN "scout" ELSE "plan"
    /\ UNCHANGED <<there, ended, want, dry, probed, pool, result>>

-----------------------------------------------------------------------------
(* The scout: one goroutine per region. *)

Holds(r, t) == \E i \in Ids : <<Home(<<r, t>>), t, i>> \in there

\* Mutant: a failed probe is not put into the error slices.
ProbeRegion_Swallows(r) ==
    /\ phase = "scout" /\ r \in InSeq(regions) /\ ~probed[r].over
    /\ \E alive \in BOOLEAN, err \in BOOLEAN :
         /\ alive => \E t \in Probes : Holds(r, t)
         /\ probed' = [probed EXCEPT ![r] = [alive |-> alive, err |-> err, over |-> TRUE]]
         /\ UNCHANGED errs
    /\ UNCHANGED <<there, ended, phase, want, dry, regions, pool,
                   found, candidates, warnings, truth, silent, blind, unfetched>>

\* probeRegion counts the probe types in order up to the first error; a list may be
\* silently empty.
ProbeRegion(r) ==
    /\ phase = "scout" /\ r \in InSeq(regions) /\ ~probed[r].over
    /\ \E alive \in BOOLEAN, err \in BOOLEAN :
         /\ alive => \E t \in Probes : Holds(r, t)
         /\ probed' = [probed EXCEPT ![r] = [alive |-> alive, err |-> err, over |-> TRUE]]
         /\ errs' = errs \cup {e \in {<<r, "scout", "list">>} : err}
    /\ UNCHANGED <<there, ended, phase, want, dry, regions, pool,
                   found, candidates, warnings, truth, silent, blind, unfetched>>

Active == Keep(regions, {r \in Regions : probed[r].alive})

\* Only regions where something was seen are kept; if there is none, all are.
ScoutDone ==
    /\ phase = "scout" /\ \A r \in InSeq(regions) : probed[r].over
    /\ regions' = IF Active = <<>> THEN regions ELSE Active
    /\ phase' = "plan"
    /\ UNCHANGED <<there, ended, want, dry, probed, pool, result>>

-----------------------------------------------------------------------------
(* The worker pool of fanOutDiscovery and probeDiscoveryIntegrity.  The result  *)
(* channel has room for every job and one reader, and order plays no part in   *)
(* what is collected: a job's result is collected when the job ends.           *)

\* Mutant: a global type is listed without a region.
Jobs_NoRegion ==
    {c \in (InSeq(regions) \cup {Everywhere}) \X Types : c[2] \in Global <=> c[1] = Everywhere}

\* Every cell of a regional type; a global type in the first region only.
Jobs == {c \in InSeq(regions) \X Types : c[2] \in Global => c[1] = regions[1]}

Launch(cells) ==
    /\ queue' = cells /\ closed' = FALSE
    /\ job' = [w \in Workers |-> {}] /\ exited' = {}

\* --dry-run stops here, with the scout's errors.
Plan ==
    /\ phase = "plan"
    /\ \/ dry /\ phase' = "done" /\ UNCHANGED pool
       \/ ~dry /\ phase' = "discover" /\ Launch(Jobs)
    /\ UNCHANGED <<there, ended, want, dry, regions, probed, result>>

\* One fixed order of the jobs: no property depends on it.
Handoff(w) ==
    /\ ~closed /\ queue # {} /\ job[w] = {} /\ w \notin exited
    /\ LET c == CHOOSE c \in queue : TRUE
       IN  job' = [job EXCEPT ![w] = {c}] /\ queue' = queue \ {c}
    /\ UNCHANGED <<there, ended, phase, want, dry, regions, probed, closed, exited, result>>

\* Mutant: the channel is closed on cancellation only.
Close_OnDone ==
    /\ ~closed /\ ended
    /\ closed' = TRUE
    /\ UNCHANGED <<there, ended, phase, want, dry, regions, probed, queue, job, exited, result>>

Close ==
    /\ ~closed /\ (queue = {} \/ ended)
    /\ closed' = TRUE
    /\ UNCHANGED <<there, ended, phase, want, dry, regions, probed, queue, job, exited, result>>

Exit(w) ==
    /\ closed /\ job[w] = {} /\ w \notin exited
    /\ exited' = exited \cup {w}
    /\ UNCHANGED <<there, ended, phase, want, dry, regions, probed, queue, closed, job, result>>

-----------------------------------------------------------------------------
(* runJob. *)

Held(c) == {i \in Ids : <<Home(c), c[2], i>> \in there}
Kept(c) == {i \in Held(c) : <<c[2], i>> \notin Managed}

Listing(ids, err) == [raws |-> ids, err |-> err, unfetched |-> {}]

\* listAndGet: the list fails; the list or a GetResource drops some without a word;
\* a GetResource fails, and what comes after it is not fetched.
ListAndGet(c) ==
    LET FailsAt(k) == {[raws |-> s, err |-> TRUE, unfetched |-> {i \in Kept(c) : i > k}] :
                          s \in SUBSET {i \in Kept(c) : i < k}}
    IN  {Listing({}, TRUE)} \cup {Listing(s, FALSE) : s \in SUBSET Kept(c)}
          \cup UNION {FailsAt(k) : k \in Kept(c)}

\* The native listers return all there is, or some of it with an error.
Native(c) == {Listing(Kept(c), FALSE)} \cup {Listing(s, TRUE) : s \in SUBSET Kept(c)}

Primary(c) == IF Kind[c[2]] = "custom" THEN Native(c) ELSE ListAndGet(c)

\* Mutant: the fallback runs only after an error.
Fallback_OnError(c, l) ==
    IF l.raws = {} /\ l.err /\ Kind[c[2]] = "fallback" THEN Native(c) ELSE {Listing({}, FALSE)}

Fallback(c, l) ==
    IF l.raws = {} /\ Kind[c[2]] = "fallback" THEN Native(c) ELSE {Listing({}, FALSE)}

IsCandidate(c, listErr, mapped) == Kind[c[2]] = "bare" /\ ~listErr /\ mapped = {}

\* Primary list, fallback on empty, mapping (a resource that cannot be decoded is
\* dropped with an error) and enrichment (an error, the resource stays).
RunJob(w) ==
    /\ phase = "discover"
    /\ \E c \in job[w] : \E l \in Primary(c) : \E f \in Fallback(c, l) :
         LET raws == l.raws \cup f.raws
             listErr == l.err /\ f.raws = {}
         IN  \E mapped \in SUBSET raws, enrichErr \in BOOLEAN :
               /\ found' = found \cup ({c} \X mapped)
               /\ errs' = errs \cup {<<c[1], c[2], why>> : why \in
                            {x \in {"list"} : listErr}
                              \cup {x \in {"other"} : f.err \/ mapped # raws \/ enrichErr}}
               /\ candidates' = candidates \cup {x \in {c} : IsCandidate(c, listErr, mapped)}
               /\ truth' = truth \cup ({c} \X Kept(c))
               /\ unfetched' = unfetched \cup ({c} \X l.unfetched)
               /\ silent' = silent \cup {x \in {c} : ~l.err /\ l.raws # Kept(c)}
    /\ job' = [job EXCEPT ![w] = {}]
    /\ UNCHANGED <<there, ended, phase, want, dry, regions, probed, queue, closed, exited,
                   warnings, blind>>

\* wg.Wait, then the integrity pass if there is a candidate.
Collected ==
    /\ phase = "discover" /\ exited = Workers
    /\ \/ candidates = {} /\ phase' = "done" /\ UNCHANGED pool
       \/ candidates # {} /\ phase' = "reprobe" /\ Launch(candidates)
    /\ UNCHANGED <<there, ended, want, dry, regions, probed, result>>

-----------------------------------------------------------------------------
(* probeDiscoveryIntegrity. *)

\* Mutant: KeepIdentifier is not applied.
Reprobe_Unfiltered(w) ==
    /\ phase = "reprobe"
    /\ \E c \in job[w] :
         \/ Held(c) # {} /\ warnings' = warnings \cup {<<Home(c), c[2]>>} /\ UNCHANGED blind
         \/ blind' = blind \cup {c} /\ UNCHANGED warnings
    /\ job' = [job EXCEPT ![w] = {}]
    /\ UNCHANGED <<there, ended, phase, want, dry, regions, probed, queue, closed, exited,
                   found, errs, candidates, truth, silent, unfetched>>

\* The second list sees something that KeepIdentifier keeps, or says nothing: an
\* error, an empty list.
Reprobe(w) ==
    /\ phase = "reprobe"
    /\ \E c \in job[w] :
         \/ Kept(c) # {} /\ warnings' = warnings \cup {<<Home(c), c[2]>>} /\ UNCHANGED blind
         \/ blind' = blind \cup {c} /\ UNCHANGED warnings
    /\ job' = [job EXCEPT ![w] = {}]
    /\ UNCHANGED <<there, ended, phase, want, dry, regions, probed, queue, closed, exited,
                   found, errs, candidates, truth, silent, unfetched>>

Reprobed ==
    /\ phase = "reprobe" /\ exited = Workers
    /\ phase' = "done"
    /\ UNCHANGED <<there, ended, want, dry, regions, probed, pool, result>>

-----------------------------------------------------------------------------
(* The environment. *)

Over == phase \in {"done", "failed"}

Create ==
    /\ ~Over
    /\ \E x \in Growth \ there : there' = there \cup {x}
    /\ UNCHANGED <<ended, phase, want, dry, regions, probed, pool, result>>

End ==
    /\ CtxMayEnd /\ ~ended /\ ~Over
    /\ ended' = TRUE
    /\ UNCHANGED <<there, phase, want, dry, regions, probed, pool, result>>

Rest == Over /\ UNCHANGED vars

-----------------------------------------------------------------------------
Main ==
    \/ Preflight \/ Fail \/ ResolveRegions \/ ScoutDone \/ Plan \/ Close \/ Collected
    \/ Reprobed

Worker(w) == Handoff(w) \/ RunJob(w) \/ Reprobe(w) \/ Exit(w)

Next ==
    \/ Main
    \/ \E r \in Regions : ProbeRegion(r)
    \/ \E w \in Workers : Worker(w)
    \/ Create \/ End \/ Rest

Spec == Init /\ [][Next]_vars

\* Goroutines are scheduled and AWS calls return (the SDK's retries are bounded).  A user
\* need not answer the picker.
FairSpec ==
    /\ Spec
    /\ WF_vars(~Asking /\ Main)
    /\ \A r \in Regions : WF_vars(ProbeRegion(r))
    /\ \A w \in Workers : WF_vars(Worker(w))

-----------------------------------------------------------------------------
(* Properties. *)

Reported(c) == \E e \in errs : e[1] = c[1] /\ e[2] = c[2]
Warned(c) == <<Home(c), c[2]>> \in warnings
Scanned == phase = "done" /\ ~dry

\* No silent false-clean (integrity.go, the package comment): a resource that was
\* there when its cell was listed and is not in the result is accounted for by an
\* error or a warning of its cell.  The exceptions are those the comment concedes: a
\* list that dropped only part, a type without curated findings, a second list that
\* said nothing.  Every cell of the regions the scout left, a global type's in whichever of
\* them now comes first, has been listed in full, unless the context ended.
NoSilentLoss ==
    Scanned /\ ~ended =>
      /\ queue = {} /\ \A w \in Workers : job[w] = {}
      /\ \A c \in Jobs : \A i \in Kept(c) :
           <<Home(c), c[2], i>> \notin Growth => <<c, i>> \in truth
      /\ \A x \in truth \ found :
           LET c == x[1] IN
           \/ Reported(c) \/ Warned(c)
           \/ /\ c \in silent
              /\ \/ \E i \in Ids : <<c, i>> \in found
                 \/ Kind[c[2]] = "uncurated"
                 \/ c \in blind

\* "NO new false alarms": a warning names a cell that holds customer resources of
\* which discovery returned none, and whose list did not fail: no double warning.  A
\* resource created between the two lists gives one too: it is there, and not in the report.
WarningTruthful ==
    \A x \in warnings : \E c \in candidates :
      /\ x = <<Home(c), c[2]>> /\ Kept(c) # {}
      /\ \A i \in Ids : <<c, i>> \notin found
      /\ <<c[1], c[2], "list">> \notin errs

\* "Per-region failures ... don't drop the region from the active set" (scoutRegions; the
\* same of probeRegion).  The code does not keep it: the scan goes on with the regions where
\* something was counted, and a region whose probe failed is left out when another is alive.
FailedProbeKept ==
    want = "all" /\ phase \in {"plan", "discover", "reprobe", "done"} =>
      \A r \in InSeq(Enabled) : probed[r].err => r \in InSeq(regions)

\* What it does keep: a region the scout left out showed no life to it and, if its probe
\* failed, the failure is in the result, so that the report is not taken for complete.
SkippedAccounted ==
    phase = "done" /\ want = "all" =>
      \A r \in InSeq(Enabled) \ InSeq(regions) :
        /\ ~probed[r].alive
        /\ probed[r].err => <<r, "scout", "list">> \in errs
        /\ regions # <<>>

\* "One resource failing shouldn't kill the whole type" (listAndGet): the resources
\* listed after the one that failed are fetched too.
FailureCostsOne == unfetched = {}

\* Discover returns, whatever AWS answers and whenever the context ends, unless its user
\* leaves the picker open for ever.
DiscoverReturns == []<>~Asking => <>Over
=============================================================================
