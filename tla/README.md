# cbx: models, checks and proofs

`cbx` audits an AWS account from the command line. It discovers resources with
read-only calls, asks the CloudBooster backend for a rule pack and for best
practices ("grounding"), has an LLM judge the resources against them, and writes
reports and an exit code that CI gates on. As a library it also audits state files
and source trees, with external scanners or an LLM. The models here are about what
can go wrong between those parts: processes sharing a cache, a token and a
configuration, workers sharing a result, lists that fail halfway, calls that are
denied, tools that hang, a process killed between two renames. They are translated
from the Go source under `src/`; `PROJECT.json` maps every definition to the lines it
stands for.

## The system

The parts, what state they keep, and what makes each correct. Names of files are
under `src/`; PROJECT.json lists all parts with their status.

| part | state | operations | correct when |
|---|---|---|---|
| Rule-pack resolver (`internal/audit/rulesbundle`) | two cache files, one registry fetch | `Resolve`: override file, network, cache | a pin is honoured, nothing stale is served unmarked, a pack needing a newer engine is never served |
| Grounding (`internal/audit/grounding.go`, `knowledge/client.go`) | result slots, misses, an error channel, a worker pool | `BuildGrounding`, `fanOut`, `Client.do` | aborts for an auth answer or a total wipeout only; misses separate "no entry" from "not reached"; always returns, leaks nothing |
| AWS discovery (`internal/audit/discover/aws`) | job queue, result, integrity candidates, warnings | `Discover`, `scoutRegions`, `fanOutDiscovery`, `runJob`, `listAndGet`, `probeDiscoveryIntegrity` | no resource is lost without a trace, no false warning, always returns |
| Describers, native listers, passes over the inventory | the inputs of one resource, the whole inventory | `Enrich`, `List`, `crossReference...`, `computeTrailCoverage` | a failed call never becomes "there is none", a gap is always reported, nothing is concluded from what was not seen |
| Severity floor (`internal/audit/severity_floor.go`) | a finding and the resource it names | `applySeverityFloor`, `downgradeCanonicalOrgRoleFindings` | what is dangerous by the facts is never reported low; but for a text on ECS Exec, nothing is raised without a fact |
| Audit pipeline (`pkg/cmd/audit_aws.go`, `internal/audit/runner.go`) | findings, files written, exit code | preflights, discovery, scan, post-processing, writes, exit | the exit code and the reports say the same; a failed scan never looks clean |
| Orchestrator, scanners, LLM analyzer (`internal/audit/orchestrator.go`, `scanner.go`, `adapter*.go`, `llm_*.go`) | one goroutine a provider, a channel of results, temporary files, subprocesses | `Scan`, `ScanSource`, `CheckVersion`, `Stream`, `collectFindings` | no provider's outcome is lost; nothing broken passes for clean; the scan returns |
| State and source parsers (`internal/audit/parser.go`, `parsers`, `iactype.go`, `llm_files.go`) | none | `ParseState`, `ParseTerraformSource`, `DetectIaCType`, `CollectSourceFiles` | a denied file yields nothing; resources a prompt has no room for are said |
| Authentication, configuration, LLM keys (`internal/core/auth`, `internal/config`, `internal/keychain`, `pkg/cmd`) | token, configuration file, keyring, shared by all processes | login, logout, status, `llm`, `config`, `telemetry` | the stores agree; a command's edit of the configuration is whole or not made; a model pin is respected |
| Execute, update check (`pkg/cmd/execute.go`, `internal/update`) | error channel, cached version | run a command, check in the background | the command's exit code is never the check's |
| Findings browser (`internal/tui/audit`) | cursor, filter, window | key and resize handling | the selection is what the screen shows |

How they interact: the command resolves the rule pack first (memoised in
`rulepack_resolve.go`), then discovers, then hands the resources to a provider; the LLM
provider builds the grounding, streams findings, and the runner post-processes them
(severity floor, integrity findings), writes the report files one after the other and
returns; the command maps findings to an exit code. The cache directory, the token file
and the configuration file are shared by every `cbx` process of a user, without locks;
each file is replaced by a rename. The HTTP clients, but for that of the device login,
have timeouts (20 s in `knowledge.New`). `cbx audit aws` runs under a background
context; a library caller's context ends when it cancels or when `Options.Timeout`
passes.

What is hard in it:

* **Interleavings**: the cache's two files are renamed one at a time and read one at
  a time; a command loads the configuration, works, and saves what it had loaded,
  whatever another did meanwhile. Goroutine pools exist in grounding, discovery and
  the orchestrator.
* **Failure halfway**: a list that returns part of its pages, a `GetResource` that
  fails after others succeeded, a cache write that fails after the artifact, a
  report written and its sidecar not, a context that ends between two jobs, a token
  stored and a configuration not, a describer's third call denied, a scanner killed
  with half its output written.
* **Absence**: a denied call, a missing setting and a setting that is off look alike
  to a careless reader of an SDK error; an inventory with a gap looks like an account
  without the thing.
* **Staleness**: a cached pack, a cached ETag compared with another file's
  contents, a resource created between the list and its re-list.
* **Termination**: a pool whose producer, workers and reader must not wait on one
  another after an error or a cancellation; bounded retries; a subprocess that hangs.

PROJECT.json "hazards" gives each one at its line, with the properties that cover
it or why none does yet.

## The modules

| module | is | models |
|---|---|---|
| `RulePackCache` | state machine | `Resolve`, the disk cache, the registry, N processes |
| `RulePackCache_proofs` | proofs | type, engine, warm cache, pin, stamp and staleness, progress |
| `FanOutCall` | abstract specification | what a caller of `fanOut` may rely on |
| `FanOut` | state machine | `fanOut`: producer, workers, error channel, derived context |
| `Grounding` | composition, EXTENDS `FanOut` | `BuildGrounding` and `knowledge.Client.do` |
| `Grounding_proofs` | proofs about `FanOut` and `Grounding` | type, no leak, refinement of `FanOutCall`, the error policy, the pool as a `FanOut`, progress |
| `Discovery` | state machine | `Discover` from preflight to the integrity pass |
| `Discovery_proofs` | proofs | type, every safety property of `Discovery`, progress |
| `Describers` | operators | the calls of every `Enrich` and native `List`, as tables |
| `CrossRef` | operators | the passes over the whole inventory |
| `SeverityFloor` | operators | the floor's facts, trust policies, and what IAM makes of them |
| `Listing` | abstract specification | what a native lister promises `runJob` |
| `Posture` | composition, INSTANCE of `Listing` | one cell from its listing to the severity of a finding |
| `Posture_proofs` | proofs | type, every safety property of `Posture`, refinement of `Listing` |
| `Settings` | operators | what each command does to the configuration it has loaded |
| `Shell` | state machine over `Settings` | the commands of one user in several terminals |
| `Shell_proofs` | proofs | type and every safety property of `Shell`, progress |
| `Browser` | state machine | the update function of the findings browser |
| `Browser_proofs` | proofs | type, every property of `Browser`, what its sort and filters return |
| `Inventory` | operators | state files, source trees, the prompt's cap |
| `Scanners` | operators over `Inventory` | what every finding provider makes of its input |
| `Scan` | composition over `Scanners` | `Run`, `CollectContext`, `CollectFromResources` and the orchestrator |
| `Scan_proofs` | proofs | the walks over state and streams, every safety property of `Scan`, progress |
| `MC...` | constants | small instances for TLC |
| `AuditRun` | state machine | `cbx audit aws` from its flags to its exit code, run after run |
| `AuditRun_proofs` | proofs | type correctness and every safety property of `AuditRun` that a passing run checks |

Operators whose name has an underscore and a suffix (`CacheOutcome_AnyVersion`,
`Fallback_OnError`) are mutants: the change a plausible bug would make to the
definition that follows. Replacing the definition by its mutant makes TLC find a
violation of the property PROJECT.json names, so each property is known to be able
to fail.

### RulePackCache

One action per step that another process can see between: `ReadArtifact` and
`ReadMeta` are the two reads of `loadCachedPack`; `FetchPack`, `FetchNotModified`,
`FetchNotAuthored`, `FetchFails`, `FetchUnasked304`, `RefetchPack` and
`RefetchFails` are the branches of rung 1; `PutArtifact` and `PutMeta` the two
renames of `storeCachedPack` (`PutMeta` also the one of `refreshCachedMeta`);
`ResolveFromCache` is rung 2; `Override` is rung 0. `writeAtomic` writes a
temporary file and renames it, so a write is one action or none. `Publish`
repoints the channel (rollbacks included), `Tick` moves the clock, `Crash` kills a
process anywhere. A pack is its version number, which also stands for the ETag.
`headAt`, `confirmed`, `warm` and `began` are history variables: the registry's view and
the start of a run, against which what a run says is judged.

So are `whole` and `hold`. The code has no lock and two files, so the files may be of
two stores: a write failed, a process was killed, or another writer came between the
two renames. `whole` says they are of one, `hold[p]` whether what process p has read or
written of them is ("torn" if not, "own" while its artifact is still the one in the
files, "old" after another has replaced it). A store that gets through both renames
while its artifact lasts makes the files whole again (`ArtifactMoved`, `MetaMoved`).
What the code promises of a pin, a stamp and a flag it keeps for a run whose `hold` is
not torn (`Served`), also when its files are replaced under its fetch; for a torn one it
breaks the pin, which the run `cache_pin` shows.

### FanOutCall, FanOut, Grounding

`FanOut` has the producer (`Handoff`, `Close`), the workers (`WorkOK`,
`WorkFails`, `SendErr`, `Cancel`, `Exit`) and the caller (`Call`, `Return`).
`Handoff` is a rendezvous, because `jobs` is unbuffered; `errs` is a sequence with
the channel's capacity; a drained job is a `Handoff` to a worker in "drain".
`FanOutCall` says the same without goroutines: an error is returned only for work
that failed, nil only if nothing failed and everything was done or the caller's
context had ended. `Promise == INSTANCE FanOutCall` maps the shared names; it is
checked as a PROPERTY and proved.

`Grounding` EXTENDS `FanOut` (its own state and actions carry the prefix `Build` where the
names would clash), runs two calls of it and one lookup by the caller. `Request`,
`Backoff`, `Retry` are the two attempts of `knowledge.Client.do`; `Definitive`,
`Transient`, `Auth` its outcomes with the bookkeeping of `work(i)`. `answer` is the
history of what the backend said last about a key.

### Discovery

`Preflight`, `Fail`, `ResolveRegions`, `ProbeRegion`, `ScoutDone`, `Plan`, the pool
(`Handoff`, `Close`, `Exit`), `RunJob` with `Primary`, `Fallback` and the mapping,
`Collected`, `Reprobe`, `Reprobed`. What AWS answers is any outcome the code has a
branch for: `ListAndGet` may fail, silently return part or nothing, or stop at a
`GetResource`; a native lister returns everything or a part with an error. Four
kinds of types stand for the curated table: a type whose findings are curated and
that has no native lister ("bare", re-listed by the integrity pass), one without
curated findings, one with a native fallback, one listed by its own lister only. The
passing run has the first and the third, the kinds that are listed twice; the others
are in the run `discovery_get` and in the proofs.
`Growth` is the set of resources that may be created while the audit runs.
`truth`, `silent`, `blind` and `unfetched` are history variables.

The result channel has room for every job and one reader and its order is not
observable, so a job's result is collected when the job ends. Jobs are handed out
in one fixed order: no property depends on it and every interleaving of the
workers is kept.

### AuditRun

One action per step of the command after which it can stop: `Start` (flags),
`ResolvePack` and `Probe` (the two preflights), `Discover` (with the end of a dry
run), `Construct` (the analyzer), `Scan`
(`ScanResources`), `Collect` (the post-processing of `RunFromResources`),
`WriteSVG`, `WriteReport`, `WriteHTML`, `WriteState` (its `os.WriteFile` calls, of
which two end the run when they fail) and `Report` (payload and exit code). `End`
is the way through `ExitCode` in `execute.go`. `Kill` ends the process between any
two steps; `written` names the report files this run has completed, and every other
file on disk is an earlier run's or torn.

A finding is a rule, a severity, a resource and the keyword gates of
`severity_floor.go` its text passes (`Gates`): the gate of its resource's critical and
of its high condition, the one of the organization role's cap, and the one about ECS
Exec without logging. `Floored`, `Downgraded` and `DropSelfIdentity` are the three
passes; the structural predicates on a resource are the constants `FloorCritical`,
`FloorHigh`, `OrgRoles` and `Self`. The gate about ECS Exec asks for no fact and no type
of resource (`severity_floor.go:192`), and so raises even a finding about the audit
itself whose text, which quotes an error, happens to pass it; the model has that
(`About`) and `Serious` says so. Findings are a set: neither pass nor exit code looks at
order or repetition. Discovery and grounding appear by their results only (modules
`Discovery` and `Grounding`), and so does the resolver (`RulePackCache`), whose memo in
the command is a single assignment. Standard output is not modelled.

### Describers, CrossRef, SeverityFloor, Posture, Listing

A describer is a sequence of steps in `Describers`: which field it reads, from a call
or from the payload it was given, under what condition, and what an answer, a "there
is none" and a failure each do to the field and to the rest of the sequence. A native
lister is a sequence of probes of each of its items. `Posture` runs the tables:
`ListCC`, `PageFails`, `ProbeReads`, `ProbeFails`, `KeepItem`, `Listed` list;
`StartItem`, `SkipStep`, `Answered`, `NotInPayload`, `ThereIsNone`, `CallFails`,
`Described` describe; `CrossReferenceKMS`, `CrossReferenceNetwork`,
`CrossReferenceLambdaRole`, `AnnotateFlowLogs`, `ComputeTrailCoverage` join the
resource with an account around it of which discovery may have missed a piece (a
"world" of `CrossRef`); `JudgeRole` and `Judge` apply the floor. The account posture
is described like a resource. `read` and `gone` are history: what AWS said, whatever
was written.

`SeverityFloor` has the code's reading of a trust policy (`Exposes`) beside IAM's
(`MayAssume`); `TrustSound` compares the two. The floor's text gates are the set of
topics a finding touches, of which "exec" raises whatever finding has it. The facts
that a type of resource has are those of the code, which asks for the wildcard grant of
any type (`OfAnyType`).

`Listing` promises: everything and no error, or any part with an error.
`ImplementsListing` shows that the sequence of a lister's calls, whichever of them
fail, keeps it.

A field the Cloud Control payload carries is taken at its word. The pages of attached
policies are one call. The describers of keys and of snapshots use clients of the
region the configuration came with, whatever region the resource is of; the model has
that, and `GapsReported` concedes it.

### Settings, Shell

`Settings` has every command's edit of one configuration as a function, `Loaded` the
replacement of retired models and the environment's override. `Shell` runs processes:
`Begin` (flags, the telemetry question), `Answer`, `Load`, `Save` (one rename),
`OpenKeyring`, the login flow (`Callback` and `ServeFails` by the environment,
`FlowEnds`, `Exchange`, `Device`, `StoreToken`), logout (`DeleteToken`), status
(`HasToken`, `LoadToken`, `SaveToken`, `Answered`), keys (`GetKey`, `EnterKey`, `Validate`,
`StoreKey`, `DeleteKey`), an audit or test with a model (`Model`, `Probe`), `Checks`
of the doctor, `Exit`, and `Kill` anywhere. Each access to a shared store is an action
of its own. `overlapped`, `cut`, `signedOut`, `raced`, `pin`, `ever` and `before`
are history: what a user knows of the commands entered so far, `raced` what a neighbour of
the last logout may bring back (`alone` and `met` of a process say beside whom it has
run). `Own(p)` are the steps the program takes by itself, `Outside(p)` those that
wait for somebody else.

### Browser

One action per key or window event of the Bubble Tea model; `LinesTo` and `Drawn` are
the rows and dividers the list panel draws, against which `MovementVisible` judges the
cursor's arithmetic. `SortFindings` (Go's stable sort) and `ApplyFilters` put a set of
rows in an order: `InOrder` counts, for each place, the members up to it.

### Inventory, Scanners, Scan

`Inventory` makes resources of a state file (Pulumi, Terraform, older or foreign
formats, a provisioner that is denied, a file over the size limit) and of a source
tree; the modules of `terraform show` are a sequence in which every module comes before
its children, so that the walk is a function the provers can unfold (`Below`).
`Scanners` makes findings of resources: the static rules, the orphan detectors, and the
four adapters with the version gate and the severity words of each tool.
`Scan` starts with any of a set of requests (the library's `Options` with what they
name), then runs one goroutine a provider: `Judge` for the built-in ones,
`CheckVersion`, `Prepare`, `RunTool` for the external ones, `Gather`, `FetchBundle`,
`Stream...` for the LLM over its CLI, grounded and HTTP callers; `Panic`, `Hang`,
`Killed` and `ProviderTimeout` may strike any of them; `Send`, `Close`, `Drain`,
`Return` are the stream and `collectFindings`. `happened` is history: what really went
wrong with a provider, whatever it reported.

## The runs

Every bound is a CONSTANT of the module, given its value in the .cfg.

| run | configuration | question | outcome |
|---|---|---|---|
| `cache` | 2 processes of different builds, 2 versions, 2 time units, grace 0, crashes, failing writes | what of pin, stamp and flag survives interleaving, failed writes and crashes? | `PinHonoured`, `FetchedAtHonest`, `FreshOrFlagged`, `EngineSound`, `WarmCacheCarries`, `CallsReturn` hold |
| `cache_pin` | 1 process, failing writes | is a pinned run given its pin or an error? | violated |
| `fanout` | 3 workers, calls of 0..4 indices, repeated | do the goroutines implement the promise? | `ImplementsCall`, `NoLeak`, `CallReturns` hold |
| `grounding` | 2 workers, 0..2 keys of each family | is the error policy kept? | `MissesExact`, `AbortsExactly`, `BuildReturns` hold |
| `discovery` | 2 regions, a global type and one with a fallback, 2 identifiers, 2 workers, all four invocations, resources created meanwhile, context may end | is anything lost silently, or a region skipped without a trace? | `NoSilentLoss`, `WarningTruthful`, `SkippedAccounted`, `DiscoverReturns` hold |
| `discovery_probe` | 2 regions, one worker, `--region all` | is a region whose probe failed scanned? | violated |
| `discovery_get` | 1 region, 4 types of 4 kinds, one worker | does one failing `GetResource` cost one resource? | violated |
| `posture` | every kind of resource, 2 items, 2 regions, every small account, trust policies of one or two statements | is anything claimed that was not read? | `AbsenceEarned`, `GapsReported`, `UsedKept`, `FloorJust`, `ImplementsListing` hold |
| `audit` | own user, organization role that is also an admin; 4 texts; 0 to 2 LLM findings; any flags | do exit code and reports agree with what was found? | `ExitExact`, `FailureVisible`, `IntegrityAdvisory`, `ReportsAgree` hold |
| `scan` | 23 requests of up to 3 providers, 7 tool versions, 2 severity words | can a provider's failure be lost, pass for clean, or hold up the audit? | `OutcomesKept`, `NeverFalselyClean`, `ScanReturns` hold |
| `browser` | 7 findings of 2 services and 4 severities, 2 widths, 4 heights, 4 texts | is the selection what the screen shows? | `SelectionSound`, `MovementVisible` hold |
| `shell` | 2 terminals, 2 commands of 19, 3 configurations to start from | do stores, commands and pins stay right? | `StoresAgree`, `AllOrNothing`, `PinRespected`, `CommandReturns` hold |

Why the bounds are enough. *Cache*: two versions give a mismatch between the two files
and a rollback; two processes give every pairwise interleaving of reads and renames; two
time units with a grace of 0 give a stamp inside and one outside of it. *Fan-out*: more
indices than workers (4 > 3) gives a producer blocked on a send while workers fail;
fewer gives the clamp. *Grounding*: two keys on two workers let one fail while the other
is in any step of its retry, and the composition lookup adds a third caller.
*Discovery*: two workers and three cells interleave two jobs of its kinds; two
identifiers separate "part of the list" from "none"; a second region gives the scout a
choice, and the global type a first region that may change. *Posture*: two items
separate a part of a list from all of it and from nothing; resources do not interact
before the passes, so one is described; the passes ask about one resource at a time, and
each world has every combination of what they look at. A second statement gives every
pair of an Allow and a Deny. *Audit run*: the two resources meet every case of the
post-processing, one of them two that disagree (the organization role is raised by the
floor and lowered by the cap), and the four texts pass each gate, two at once, or none;
two findings let a serious one hide behind a dropped or lowered one. *Scan*: three
providers give a failing, a hanging and a finding one at once, and one name twice;
`MaxFiles` 1 and `MaxResources` 2 let the caps bite. *Browser*: seven rows with three
dividers do not fit any of the windows but do fill them; heights lie on both sides of
the smallest page. *Shell*: one name is both provider and executor, the other executor
only; two commands give every pair, overlapping or not. A third command would matter
only to a hazard with three actors, of which the code's stores have none.

Deadlock is checked in every run but `scan`, whose audit simply ends. In `FanOut` and
`Grounding` the caller's context can end at any time, and in `Discovery` and `Shell`
a finished run rests, so there a stuck pool or command shows as a violation of
`CallReturns`, `BuildReturns`, `DiscoverReturns` or `CommandReturns`, not as a
deadlock.

`TypeOK` is checked in the runs `cache` and `discovery`, `BuildTypeOK` in `grounding`;
those of `FanOut`, `AuditRun`, `Posture`, `Browser`, `Shell` and `Scan` are proved only
(the last two stand in the proof modules).

### Fairness

`CallsReturn`, `CallReturns`, `BuildReturns` and `DiscoverReturns` assume weak
fairness of the program's own steps only: the Go scheduler runs a runnable
goroutine, a file operation returns, and an HTTP or AWS call is answered, fails or
times out (`knowledge.New` sets 20 s; the SDK's retryer is bounded). No fairness is
given to the environment (`Publish`, `Tick`, `Create`, `End`, `Crash`), to starting
a run, or to one outcome of a request over another: a backend may fail every
attempt. `AuditRun` states no liveness: the LLM subprocess of a CLI run has no
timeout, so nothing in the code bounds its scan.

In `Discovery` the region picker is not fair (`Asking`): a user need not answer it, and
`DiscoverReturns` concedes a picker left open for ever.

`CommandReturns` assumes weak fairness of `Own(p)`, what a command does by itself: file
operations, and requests through an HTTP client with a timeout. What it waits for from
others is `Outside(p)` and never fair: the answer to the telemetry question
(`telemetry/prompt.go:74`), a key being typed (`llm.go:456`), the device flow, whose
client has no timeout (`oauth.go:213`, `220`), a keyring that may ask the user
(`keyring.go:57`), and an executor that may hold its pipe. Nor is the browser's
callback. The property concedes a command that one of these keeps waiting for ever
(`Waiting`).

`ScanReturns` assumes weak fairness of the caller's and
each goroutine's own steps and of a deadline that is set. `Hang` is never fair and
what hangs owes no answer: the property concedes a hang with no timeout set, and a
killed tool whose child keeps the output pipe open.

### Findings

Three statements of the code's own comments have a run that shows the code does not keep
them.

* `discovery_get`: "One resource failing shouldn't kill the whole type"
  (`cloudcontrol.go:73`). The first failing `GetResource` ends the listing; the error is
  in the result all the same (`NoSilentLoss`).
* `cache_pin`: "A pin no source satisfies is an error" (`resolve.go:76`). Rung 2 compares
  the pin with the sidecar and serves the artifact, which is another version's after a
  sidecar write that failed.
* `discovery_probe`: a region whose probe failed "is still kept in the active set"
  (`scout.go:106`; line 41 says the same). It is dropped when another region shows life;
  its error is in the result (`SkippedAccounted`).

The following were met while modelling. The models have what the code does, the
properties state what holds, and no run is spent on the difference.

*Grounding.* A context that ends during a fan-out leaves zero-valued slots in a bundle
and a nil error (`grounding.go:394`; line 25 says one entry per id); the LLM stream that
follows runs on the same context and fails.

*Exit code.* When a report cannot be written the findings are dropped and the exit
code is 1, that of an informational run (`runner.go:449`; `README.md:106` tells CI to
tolerate it). A discovery-integrity finding is to be exit code 2 and CI "must not stay
green on it" (`discovery_integrity.go:19`); without `--strict` the code is 0, which is
what `Gating` and its comment say (`discovery_integrity.go:72`). A text on ECS Exec
without logging is raised to high on any resource and without a fact
(`severity_floor.go:192`, `378`), a finding about the audit itself included. The failed
LLM preflight prints a JSON envelope and returns an error for which `ExitCode` prints
another (`audit_aws.go:245`; line 254 says that it is done in one place).

*Posture.* A key that AWS manages counts as used only if its manager could be read
(`crossref_kms.go:193` says that it should never be flagged); a key whose user was not
discovered may be called unused, as `crossref_kms.go:33` says. A Deny of one principal
covers its whole account (`severity_floor.go:583`).

*Scan.* The HTTP stream skips error events and chunks it cannot read, and accepts an end
without the end marker (`llm/caller.go:100`), so a failure inside the stream before the
first token is an empty answer, which counts as clean (`llm_analyzer.go:1034`; the
comment at 484 says that a failed analysis is always a finding). `UsedMockOnlyForSource`
does not look at the LLM option, so `Result.MockOnly` is true of an LLM's audit of
sources (`runner.go:217` says that it mirrors `collectFromSource`). `DetectIaCType`
decides in an order of its own, not by the first match, and prefers CloudFormation to
Helm (`iactype.go:11`). A source file cut at its limit is marked in the prompt only
(`llm_analyzer.go:603`), and files beyond `--llm-max-files` or unreadable are mentioned
nowhere (`llm_files.go:20` says that the user is told, line 34 "warned"). References by
other security groups do not keep one from being an orphan, whose text says that no
resource refers to it. Diagnostics of the Terraform parser are dropped; a scanner name
nobody knows is skipped, so that a scan of a state file may have nobody to run; an LLM's
audit of a tree without a readable relevant file is clean. Of the instances of one
Terraform resource the first is read. `compareVersions` puts 1.28 below 1.28.0. A killed
scanner whose child keeps the pipe open still blocks its adapter, whose comment says
that it cannot wedge the CLI.

*Shell.* A login to an API provider writes its entry anew and drops the pin of the
executor of that name. `llm api logout` ignores a key that cannot be deleted and exits
with 0 (`llm.go:512`, `520`). `llm default` accepts an entry that is a mere pin
(`llm.go:899`). A logout cut after the token is gone cannot be completed: the next finds
no token and fails. The address from `CBX_API_URL` is stored by whatever command saves
next. Commands that overlap save whole configurations without a lock, the older over the
newer (`config.go:215`). A status that overlaps a logout may restore the token
(`token.go:124`). A retired model is replaced even where the user pinned it
(`config.go:225`). The upgrade shares its ten seconds with the check before it
(`upgrade.go:60`), and the update cache is not written atomically (`update.go:353`).

*Browser.* In the search line Ctrl+C goes to the text field (`model.go:204` says that it
always exits); Escape closes the line and keeps what was typed; after a resize the
cursor may be off the screen until the next key.

## What is proved

TLAPS checks these for every value of the constants.

`RulePackCache_proofs`, from `CacheAssumption` (the types of the constants):

* `TypeCorrect`. Most of the work is `Accept` and `FetchNotModified`, where a result
  and a sidecar are built from what was read.
* `EngineAlwaysSound`. It is not inductive: it follows from `ResultInv`, which says that
  `confirmed` never lies in the future and that a result, from the moment it is set until
  its call returns, is one the engine handshake let through (`GoodResult`).
  `OthersUnmoved` (a process moves no other's call) and `ConfirmedMonotone`
  (confirmations are never taken back) reduce every step to the process that takes it.
* `WarmCacheAlwaysCarries`, from `WarmInv`: nothing removes a cache file
  (`CacheStaysComplete`), so a run that found both files at its start finds both at
  every later read, and a writer always holds a pack and a sidecar to write.
* `PinAlwaysHonoured`, `FetchedAtAlwaysHonest`, `AlwaysFreshOrFlagged`, for any number of
  processes, crashes and failed writes. The inductive invariant is `CacheInv`: `HeadInv`
  (what the registry's history says of a version), `PairInv` (files that are `whole` are of
  one version, and stamped no later than it was confirmed), and for each process `CallInv`
  (what it remembers of the files is what `hold` says: `Reads` between its two reads,
  `Searched` once it has looked in vain), `Kept` and `Fresh` (what its result says is
  true of the pack in hand). Without `hold` none of the three is true, as `cache_pin`
  shows; with it a writer that comes between two reads or two renames only tears what
  others hold (`OthersHold`, `FilesUnmoved`).

`Grounding_proofs`, from `FanOutAssumption` and `GroundingAssumption`. Of `FanOut`:

* `PoolTypeCorrect`, `NothingLeaks`, `Refinement` (`Spec => ImplementsCall`). The
  inductive invariant has four parts: `PoolInv` (who runs), `JobInv` (each index is
  handed out once, to one worker), `ErrInv` (a failed index is in the error channel
  or about to be sent; only workers after an error cancel or drain), `StopInv` (the
  producer stops early only for an error or the caller; without an error every index
  handed out is done, failed or in work). `Return` needs all four to be a `Return` of
  the promise; every other step maps to `Do`, `Call`, `End` or a stutter.
* `SendNeverBlocks`: a worker that failed finds room in the error channel, from
  `RoomInv`: the errors in it and the workers that may still send one are together at
  most its capacity, the smaller of the concurrency and the number of indices. This is
  why a caller that reads `errs` only after `wg.Wait` cannot deadlock.
* `PoolProgress`, see below.

And of `Grounding`, whose invariants build on those:

* `PoolIsFanOut`: what every behaviour of the audit's lookups does to the pool is a
  behaviour of `FanOut` (`NextPool`, step by step).
* `TypeCorrect` (of `BuildTypeOK`), `MissesTold`, `AbortsJustified`. The inductive
  invariant on top of the pool's: `CallerInv` (whose turn it is), `ResultInv` (what the value of a call that is
  over says of the work done), `RecordInv` (a slot and a miss agree with the one answer a
  key got), `ProgressInv` (what is settled of a family that is over), `FetchedInv` (the
  counter is 0 iff there was no definitive answer) and `VerdictInv`.
* `LookupsKeepPromise`: the calls made by the audit keep the promise of `FanOutCall`.
* `BuildProgress`, see below.

`AuditRun_proofs`, from `AuditAssumption` (resources are not the names of the audit
itself, classes are sets of resources, texts are sets of gates):

* `TypeCorrect`: the exit code stays below 4.
* `RunInv` is the inductive invariant: `ScanInv` (a failed scan and an outdated pack left
  their findings), `PostInv` (the findings are the scan's after the post-processing),
  `FileInv` (which reports exist at which step), `ExitInv` (the code is that of the gating
  findings). Only `FileInv` is close to a property (`ReportsAlwaysAgree`); the others are
  about a run that has ended and need to know how it got there.
* `ExitAlwaysExact`, `FailureAlwaysVisible`, `IntegrityAlwaysAdvisory` join it to
  what the passes do to one finding (`FlooredFacts`, `DowngradedFacts`, `PostFacts`:
  after all three a finding is high or critical iff it is `Serious`) and to
  `ExitIsWorst` (the code is the maximum over the findings). They hold for any number
  of findings, resources and texts, where the run has two, two and four.

`Discovery_proofs`, from `DiscoveryAssumption`:

* `TypeCorrect`, `NothingLostSilently`, `WarningsTruthful`, `SkippedAreAccounted`.
  `PoolInv` (a worker holds one cell, no two the same) and `CellInv` (a cell still to be
  listed has left no trace) make a job's end a change to its own cell; `ListedInv`,
  `LossInv` and `ReprobeInv` say what has become of each cell, `WarnedInv` and `ScoutInv`
  of each warning and region. `Keep` walks the items with a recursive function;
  `KeptUpToUnfolds` and `KeepIs` say what it computes for every sequence of items.
* `DiscoverProgress`, see below.

`Posture_proofs`, from `PostureAssumption`:

* `StepsRight`: every step of every describer's table (one lemma a kind) has the facts
  the proofs need of it, such as that only `creation_date` may be given up without an
  error, and that a field which feeds the floor as a "no" is part of the payload.
  `FactsRight`: what the floor's table asks for are fields of such steps.
* `TypeCorrect`, `AbsenceIsEarned`, `GapsAreReported`, `UsedAreKept`, `FloorIsJust`
  from one inductive invariant: what was written was read or has an excuse beside it
  (`YesInv`, `NoInv`, `SolidInv`, `LeadInv`), what was passed over is in the report
  (`GapInv`, `MissedInv`), the passes' verdicts belong to one account (`PassInv`).
  `UsedAreKept` follows each spelling of a reference through the payload fields of every
  kind that may hold one. `FloorIsJust` excepts the text on ECS Exec, which asks for no
  fact.
* `Refinement` (`Spec => ImplementsListing`): a native lister's step is one of `Listing`
  or a stutter.

`Shell_proofs`, from `ShellAssumption`:

* `TypeCorrect`, and `InvAlways` for the inductive invariant: `CmdInv` (which steps each
  command can be at), `AloneInv` and `FreshInv` (what a process that runs alone holds is
  what the stores hold), `MetInv` and `OutInv` (after a logout nobody is left to undo it but
  those it ran beside), `KeyInv`,
  `EverInv` (every pin, on disk or in memory, is one the user has set) and `ForceInv`.
* `StoresAlwaysAgree`, `CommandsAllOrNothing`, `PinsRespected` follow, for any number of
  terminals, providers, models and commands. `CommandsAllOrNothing` is about the edit of the
  configuration and what a login stores: of the key it promises nothing after `llm api
  logout`, whose deletion may fail unseen. The lemmas before them (`CommandsAre`,
  `WriteIs`, `AnswerIs` ...) say what each operator of `Settings` and `Shell` returns.

`Scan_proofs`, from `InventoryAssumption` and `ScanAssumption`:

* Three theorems about data. `KeptIs`: the dedupe of findings loses no key, adds nothing
  of its own and keeps nothing twice. `WalkComplete`: the walk over Terraform's modules
  meets every resource of every module, however deep they nest, and makes up none.
  `NothingGrounded`: where no source file can be shown to the LLM, the prompt's cap cuts
  nothing off.
* `InvAlways`, then `OutcomesAlwaysKept` and `NeverFalselyCleanAlways`. The inductive
  invariant says of each provider where it can be, what can have happened to it there and
  what its answer tells (`RunsInv`: `IsRun`, `Tidy`, `Place`, `Told`), and of the audit
  what is in the stream, what was sent, the errors and the report (`StreamInv`,
  `SentInv`, `ErrorsInv`, `ReportInv`). The argument: once the scan has returned, the
  stream is empty and every provider is done, so all that was told is collected; what
  went wrong was told as an error or, by the LLM alone, as a finding that is at least a
  warning; what is conceded (prowler's exit code, an error before the first token of a
  stream over HTTP, files left out of a prompt) is told by nobody, and the HTTP
  caller is never grounded, so it cuts nothing off. This
  holds for any requests, trees, states, tools and answers.
* `ScanProgress`, see below.

The library's induction theorems cannot be applied here (their operator parameter is
beyond the provers), so the proofs that go over data use a least counterexample (`Least`)
or a set closed under successor (`Induction`, `Recursion`). For this reason the models
write recursion as functions and folds (`KeptUpTo`, `Below`, `Kept`).

`Browser_proofs`, from `BrowserAssumption`:

* `SortIsStable` and `FilterIsExact`. `InOrderIs` says of any finite set and total order
  that `InOrder` takes each member once, in that order, by counting places; the sort's
  order is total because a tie is broken by the place it was handed in.
* `TypeCorrect`, `SelectionAlwaysSound`. The inductive invariant is
  `FindingsInv /\ TypeOK /\ SelectionSound`: the findings are the sorted ones throughout.
* `MovementAlwaysVisible`. Along the filtered list severities never fall and there are
  four, so the dividers map one-to-one into 1..3 (`DividersFew`), and three lines are what
  a page keeps back (`visibleCount`).

### Progress

What makes each part return is proved too, as far as it is a safety property. For each
there is a measure in the naturals, and the guards of the program's own steps are
written out (`Ready`). The theorem says that while there is something left to do a guard
holds, and that every step of the program lowers the measure. On the instances of the runs
TLC finds `Ready` true exactly where such a step is enabled. With the fairness of the
specification the liveness property follows; that last inference is TLC's. In
`RulePackCache` a call waits for nobody, each of its places has a step guarded by the
place alone, so there the theorem bounds the steps only.

| theorem | says | of |
|---|---|---|
| `PoolProgress` | some goroutine of a call can go on, and each of its steps lowers `PoolRank` | `CallReturns` |
| `BuildProgress` | the same for all of `BuildGrounding`; `BuildRank` adds the attempts and families left to four times the pool's | `BuildReturns` |
| `DiscoverProgress` | the same from preflight to integrity pass, the region picker excepted; the measure adds phases, cells and workers, and probes | `DiscoverReturns` |
| `CallsBounded` | a `Resolve` has at most seven steps, and no other process gives it more | `CallsReturn` |
| `CommandsProgress` | a command has at most twelve steps and waits for somebody outside (`Waiting`) or can go on by itself; no terminal, browser or user gives it more | `CommandReturns` |
| `ScanProgress` | an audit of N providers has at most 7N + 4 steps, deadlines, cancellations and hangs included, and waits for nothing unless it is wedged as `Wedged` says | `ScanReturns` |

Three of them need an invariant of their own. `RoomInv` of `FanOut` is above. `RoomInv` of
`Scan`: the goroutines that have not sent and the results in the stream are together at
most the number of providers, so a result finds room even if nobody drains the stream.
`AnsweredInv` of `Shell`: a callback that was served, or a server that failed, has told the
command, so the flow cannot wait for one that will not come.

### Model-checked only

The six liveness properties themselves (`CallReturns`, `CallsReturn`, `BuildReturns`,
`DiscoverReturns`, `CommandReturns`, `ScanReturns`): fairness and ENABLED are beyond the
prover. Every other property of a passing run is a theorem. `FailureCostsOne`,
`FailedProbeKept` and `PinExact`, which the code does not keep, are TLC's as well.

## What is not modelled

* Bytes: the pack format, JSON, HCL, HTTP headers, YAML, prompts, reports, SVG layout.
  The modules take the verdict (valid, invalid) or leave the text out.
* In the resolver: environment variables are the request's fields; the memo over it
  (`rulepack_resolve.go`) is one assignment.
* In the audit run: standard output and its JSON envelope, replay of the state file, what
  the reports say, and the words a text gate of the severity floor looks for (a text is
  the set of gates it passes).
* In the knowledge client: URL building, decoding and the rule-pack endpoint's headers.
* In discovery: the event-count estimate and the progress callbacks. In the describers:
  which text of a payload means yes (ECS commands, environment variables that look like
  secrets), and the pages of attached policies.
* In the LLM analyzer: the prompt's text and the citations.
* In the shell: the plaintext and file stores behind the keychain (one store), the
  contents of tokens, the update check's banner and the upgrade.
* The retry and rate-limit transports of the generated API client: one command sends a
  GET through them, and its outcomes are `Answered`'s.
* Grouping, workload classification and the primitive tables: pure functions that a unit
  test reaches. Generated code (`client.gen.go`), telemetry's events, terminal output,
  developer tools.

## Plan

What is left: one component, small and on no hard path of the commands modelled here.

| module | adds | theorems |
|---|---|---|
| `RetryTransport` | retry, backoff, rate limit, body replay | the last answer is returned, bounded attempts |
