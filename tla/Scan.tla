-------------------------------- MODULE Scan --------------------------------
(***************************************************************************)
(* The library's audit of a state file, a source tree or resources already *)
(* discovered (internal/audit/runner.go: Run, CollectContext,              *)
(* CollectFromResources): the providers chosen, one goroutine for each     *)
(* (orchestrator.go), the stream of their results, and the report.         *)
(* A provider may run a tool or an LLM that fails, hangs or is killed.     *)
(***************************************************************************)
EXTENDS Scanners, FiniteSets

CONSTANTS
    Requests, \* what may be asked for
    Versions, \* what a tool may say its version is
    Words,    \* severities a tool may report
    Answers   \* what an LLM may answer: sequences of [rule, res, word], or Prose

ASSUME ScanAssumption ==
    /\ \A r \in Requests :
         /\ r.via \in {"run", "context", "resources"} /\ r.mode \in {"state", "source", "resources"}
         /\ r.llm \in {"", "cli", "grounded", "http"} /\ r.pool \in 0..2 /\ IsState(r.state)
         /\ Sequence(r.names) /\ Sequence(r.resources)
         /\ Sequence(r.tree) /\ \A i \in DOMAIN r.tree : Sequence(r.tree[i].resources)
         /\ r.mode # "source" => r.tree = <<>>  \* SourceDir is what names the tree
    /\ \A answer \in Answers : Sequence(answer)

VARIABLES
    request,   \* the Options, and what they name
    phase,     \* where the caller is
    ended,     \* the context of the whole run is done
    providers, \* names, one for each goroutine
    runs,      \* what each goroutine knows, and what really happened to it
    stream,    \* the channel of results; it holds one for each provider
    closed,
    report,    \* collectFindings' findings and scanErrs
    errors,
    result     \* what the caller got

collected == <<report, errors>>
channel == <<stream, closed>>
vars == <<request, phase, ended, providers, runs, channel, collected, result>>

Iac == IF request.iac # "auto" THEN request.iac ELSE DetectIaCType(request.tree)

Input ==
    CASE request.mode = "state"     -> ParseState(request.state, request.yes)
      [] request.mode = "resources" -> request.resources
      [] OTHER                      -> <<>>

\* Unknown names are skipped.
SelectProviders ==
    IF request.mock \/ request.names = <<>> THEN <<"static", "orphan">>
    ELSE Select(request.names, LAMBDA name : name \in Known)

SourceProviders ==
    Select(SelectProviders, LAMBDA p : p \in SupportsSource
                                       /\ (p = "tfsec" => Iac \in {"", "terraform"}))

Providers ==
    IF request.mode # "source" THEN SelectProviders
    ELSE IF request.llm # "" THEN <<"llm">> ELSE SourceProviders

\* Mutant: nobody to run is not an error.
Refused_NoCheck ==
    \/ request.mode = "state" /\ Input = <<>>
    \/ request.mode = "source" /\ ~request.dir

Refused ==
    \/ request.mode = "state" /\ Input = <<>>
    \/ request.mode = "source" /\ (~request.dir \/ Providers = <<>>)

First(provider) ==
    CASE provider \in {"static", "orphan"} -> "judge"
      [] provider = "llm"                  -> "gather"
      [] OTHER                             -> "version"

Spawned(provider) ==
    [at |-> First(provider), late |-> FALSE, hung |-> FALSE, temp |-> FALSE,
     found |-> <<>>, err |-> FALSE, happened |-> "nothing"]

Init ==
    /\ request \in Requests /\ phase = "collect" /\ ended = FALSE
    /\ providers = <<>> /\ runs = <<>> /\ stream = <<>> /\ closed = FALSE
    /\ report = <<>> /\ errors = {} /\ result = "none"

\* newLLMAnalyzer: no binary, token, rule pack or knowledge base.
MayLack == request.mode = "source" /\ request.llm # ""

\* The scan is started, or refused.
Collect ==
    /\ phase = "collect"
    /\ \/ /\ ~Refused /\ ~ended
          /\ phase' = "scan" /\ providers' = Providers
          /\ runs' = [i \in DOMAIN Providers |-> Spawned(Providers[i])]
          /\ UNCHANGED result
       \/ /\ Refused \/ ended \/ MayLack
          /\ phase' = "returned" /\ result' = "refused"
          /\ UNCHANGED <<providers, runs>>
    /\ UNCHANGED <<request, ended, channel, collected>>

\* Only a caller of CollectContext has a context to cancel.
Cancel ==
    /\ request.via = "context" /\ phase \in {"collect", "scan"} /\ ~ended
    /\ ended' = TRUE
    /\ UNCHANGED <<request, phase, providers, runs, channel, collected, result>>

Timeout ==
    /\ request.total /\ phase = "scan" /\ ~ended
    /\ ended' = TRUE
    /\ UNCHANGED <<request, phase, providers, runs, channel, collected, result>>

-----------------------------------------------------------------------------
(* The goroutine of provider i. *)

Becomes(i, run) ==
    /\ phase = "scan" /\ runs' = [runs EXCEPT ![i] = run]
    /\ UNCHANGED <<request, phase, ended, providers, channel, collected, result>>

Goes(i, place) == Becomes(i, [runs[i] EXCEPT !.at = place])

\* Scan or ScanSource returns; its deferred calls remove its temporary files.
Answer(i, happened, found, err) ==
    Becomes(i, [runs[i] EXCEPT !.at = "send", !.temp = FALSE, !.happened = happened,
                               !.found = found, !.err = err])

Fails(i, happened) == Answer(i, happened, <<>>, TRUE)

\* Mutant: the context handed on is not the one with the provider's own timeout.
Done_Outer(i) == ended

Done(i) == ended \/ runs[i].late

ProviderTimeout(i) ==
    /\ request.each /\ ~runs[i].late /\ runs[i].at \notin {"send", "done", "held"}
    /\ Becomes(i, [runs[i] EXCEPT !.late = TRUE])

\* Mutant: the recovered provider has nothing to say.
Panic_Silent(i) ==
    /\ runs[i].at \notin {"send", "done", "held"} /\ ~runs[i].hung
    /\ Answer(i, "panic", <<>>, FALSE)

\* Recovered: the panic is the provider's error.
Panic(i) ==
    /\ runs[i].at \notin {"send", "done", "held"} /\ ~runs[i].hung
    /\ Fails(i, "panic")

Judge(i) ==
    /\ runs[i].at = "judge"
    /\ Answer(i, "nothing",
              CASE providers[i] = "orphan"   -> Orphans(Input)
                [] request.mode = "source" -> StaticSource(request.tree, request.pool)
                [] OTHER                   -> EvaluateAll(Input), FALSE)

CheckVersion(i) ==
    /\ runs[i].at = "version" /\ ~runs[i].hung
    /\ \/ Fails(i, "missing")
       \/ \E version \in Versions :
            IF VersionFits(providers[i], version)
            THEN Goes(i, IF request.mode = "source" THEN "tool" ELSE "prepare")
            ELSE Fails(i, "version")

\* writeResourcesToTempDir, writeTerraformStateFile, or prowler's output directory.
Prepare(i) ==
    /\ runs[i].at = "prepare"
    /\ \/ Becomes(i, [runs[i] EXCEPT !.at = "tool", !.temp = TRUE])
       \/ Fails(i, "write")

\* A tool finds the same thing wrong with the first few of the resources it is given.
Subjects(i) ==
    LET handed == Handed(Input)
    IN  IF request.mode = "source" \/ providers[i] = "prowler" THEN <<<<"r1">>, <<"r2">>>>
        ELSE [k \in DOMAIN handed |-> Address(handed[k])]
Outputs(i) ==
    LET Result(k, word) == [rule |-> "R", res |-> Subjects(i)[k], file |-> <<"main.tf">>,
                            word |-> word, fail |-> word # "info"]
    IN  [kind : {"none", "prose"}]
        \cup {[kind |-> "results", results |-> [k \in 1..n |-> Result(k, word)]] :
                 n \in 0..Len(Subjects(i)), word \in Words}

Read(i, exit, output) ==
    LET read == Adapter(providers[i], exit, Done(i), output)
    IN  Answer(i, IF exit # "ok" THEN exit ELSE IF output.kind # "results" THEN "output" ELSE "nothing",
               read.found, read.err)

RunTool(i) ==
    /\ runs[i].at = "tool" /\ ~runs[i].hung
    /\ \E exit \in {"ok", "exit"}, output \in Outputs(i) : Read(i, exit, output)

-----------------------------------------------------------------------------
(* The LLM analyzer.  None of its failures is an error of the provider. *)

Prose == <<"prose">>
About(rule, sev) == Finding(rule, <<"llm">>, sev)

\* Mutant: a failure of the stream or the parser leaves nothing.
Disappoints_Quiet(i, happened) == Answer(i, happened, <<>>, FALSE)

\* errorFinding
Disappoints(i, happened) == Answer(i, happened, <<About("LLM-ERROR", Warning)>>, FALSE)

Grounds == request.llm = "grounded" /\ Iac = "terraform" /\ ~Diagnostics(request.tree)
Grounded == IF Grounds THEN ParseTerraformSource(request.tree) ELSE <<>>

Gather(i) ==
    /\ runs[i].at = "gather"
    /\ IF CollectSourceFiles(request.tree, Iac) = <<>>
       THEN Answer(i, "nothing", <<>>, FALSE)
       ELSE Goes(i, IF Grounds THEN "fetch" ELSE "stream")

\* The bundle is what module Grounding says: whole, with misses, or an error.
FetchBundle(i) ==
    /\ runs[i].at = "fetch"
    /\ \/ ~Done(i) /\ Goes(i, "stream")
       \/ Becomes(i, [runs[i] EXCEPT !.at = "stream", !.happened = "misses"])
       \/ Disappoints(i, "knowledge")

\* postProcessGrounded and the findings appended after it; module AuditRun tells the
\* grounded and the ungrounded apart.
PostProcess(i, findings) ==
    LET If(condition, finding) == IF condition THEN <<finding>> ELSE <<>>
    IN  findings
        \o If(CapPromptResources(Grounded) > 0, About("LLM-CB-TRUNCATED", Info))
        \o If(runs[i].happened = "misses", About("LLM-CB-KNOWLEDGE-PARTIAL", Warning))
        \o <<About("LLM-CB-RULES-PROVENANCE", Info)>>

\* The words of tools and two more.
ClampSeverity(word) == IF word \in {"warning", "warn"} THEN Warning ELSE MapSeverity(word, Info)

\* A rule that is not named LLM-* gets a name made from its title.
ParseLLMFindings(answer) ==
    [k \in DOMAIN answer |->
        Finding(IF answer[k].rule = "LLM-1" THEN "LLM-1" ELSE "LLM-hash", answer[k].res,
                ClampSeverity(answer[k].word))]

\* Nothing said is nothing found; prose has no JSON in it.
Hear(i, answer, happened) ==
    IF answer = Prose THEN Disappoints(i, "output")
    ELSE LET findings == ParseLLMFindings(answer)
         IN  Answer(i, happened,
                    IF request.llm = "grounded" THEN PostProcess(i, findings) ELSE findings, FALSE)

Hears(i) == \E answer \in Answers : Hear(i, answer, runs[i].happened)

\* claude -p or codex exec: exits with an error, or with an answer.
StreamCLI(i) ==
    /\ request.llm = "cli"
    /\ Hears(i) \/ Disappoints(i, "exit")

\* The grounded executors.  Without its result event the raw output is the answer.
StreamGrounded(i) ==
    /\ request.llm = "grounded"
    /\ Hears(i) \/ Hear(i, Prose, "output") \/ Disappoints(i, "exit")

\* Caller.Stream.  Events that are not tokens are skipped, errors too, and the stream may
\* end without its end marker: before the first token that is an empty answer.
StreamHTTP(i) ==
    /\ request.llm = "http"
    /\ Hears(i) \/ Hear(i, <<>>, "silence") \/ Hear(i, Prose, "output") \/ Disappoints(i, "exit")

Stream(i) ==
    /\ runs[i].at = "stream" /\ ~runs[i].hung
    /\ StreamCLI(i) \/ StreamGrounded(i) \/ StreamHTTP(i)

-----------------------------------------------------------------------------
(* Subprocesses, and the stream of results. *)

Waiting == {"version", "tool", "stream"}

Hang(i) ==
    /\ runs[i].at \in Waiting /\ ~runs[i].hung
    /\ Becomes(i, [runs[i] EXCEPT !.hung = TRUE])

\* CommandContext kills the process; whoever else has its output pipe open is waited for.
\* A request over HTTP just ends.
Killed(i) ==
    /\ runs[i].at \in Waiting /\ Done(i)
    /\ \/ request.llm # "http" /\ Goes(i, "held")
       \/ runs[i].at = "version" /\ Fails(i, "killed")
       \/ runs[i].at = "tool" /\ \E output \in Outputs(i) : Read(i, "killed", output)
       \/ runs[i].at = "stream" /\ Disappoints(i, "killed")

Send(i) ==
    /\ phase = "scan" /\ runs[i].at = "send" /\ Len(stream) < Len(providers)
    /\ stream' = Append(stream, [from |-> i, found |-> runs[i].found, err |-> runs[i].err])
    /\ runs' = [runs EXCEPT ![i].at = "done"]
    /\ UNCHANGED <<request, phase, ended, providers, closed, collected, result>>

Close ==
    /\ phase = "scan" /\ ~closed /\ \A i \in DOMAIN runs : runs[i].at = "done"
    /\ closed' = TRUE
    /\ UNCHANGED <<request, phase, ended, providers, runs, stream, collected, result>>

\* Mutant: the result of a provider that failed is skipped, and its error with it, once
\* there are findings.
Drained_Skips(next) ==
    [report |-> report \o next.found,
     errors |-> IF next.err /\ report = <<>> THEN errors \cup {next.from} ELSE errors]

\* The loop over the findings of one result: the first of a rule on a resource is kept.
Kept(seen, found) ==
    LET kept[n \in 0..Len(found)] ==
          IF n = 0 THEN seen
          ELSE LET before == kept[n - 1] IN
               IF Key(found[n]) \in Keys(before) THEN before ELSE Append(before, found[n])
    IN  kept

\* collectFindings
Drained(next) ==
    [report |-> Kept(report, next.found)[Len(next.found)],
     errors |-> IF next.err THEN errors \cup {next.from} ELSE errors]

Drain ==
    /\ phase = "scan" /\ stream # <<>>
    /\ report' = Drained(Head(stream)).report
    /\ errors' = Drained(Head(stream)).errors
    /\ stream' = Tail(stream)
    /\ UNCHANGED <<request, phase, ended, providers, runs, closed, result>>

Verdict == IF errors = {} THEN "ok" ELSE "errors"

\* Run writes what was found, unless there is nothing but errors.
Return ==
    /\ phase = "scan" /\ closed /\ stream = <<>>
    /\ phase' = "returned"
    /\ IF request.via # "run" THEN result' = Verdict
       ELSE IF errors # {} /\ report = <<>> THEN result' = "nothing"
       ELSE result' \in {Verdict, "unwritten"}
    /\ UNCHANGED <<request, ended, providers, runs, channel, collected>>

Goroutine(i) ==
    \/ Panic(i) \/ Judge(i) \/ CheckVersion(i) \/ Prepare(i) \/ RunTool(i)
    \/ Gather(i) \/ FetchBundle(i) \/ Stream(i) \/ Killed(i) \/ Send(i)

Next ==
    \/ Collect \/ Cancel \/ Timeout \/ Close \/ Drain \/ Return
    \/ \E i \in DOMAIN runs : Goroutine(i) \/ Hang(i) \/ ProviderTimeout(i)

\* The scheduler runs what can run, and a deadline that is set passes.  A tool owes nothing:
\* it may hang.
Fairness ==
    /\ WF_vars(Collect) /\ WF_vars(Close \/ Drain \/ Return) /\ WF_vars(Timeout)
    /\ \A i \in 1..3 : WF_vars(i \in DOMAIN runs /\ Goroutine(i))
                       /\ WF_vars(i \in DOMAIN runs /\ ProviderTimeout(i))

Spec == Init /\ [][Next]_vars /\ Fairness

-----------------------------------------------------------------------------

Reported == Keys(report)

\* However the goroutines interleave, panic or are killed: when the stream has been drained
\* every provider has either its error in the joined error or the key of every finding of
\* its own in the report, which has nothing else, nothing twice and of two findings with
\* one key one that some provider made, which need not be the more severe; and no temporary
\* copy of the resources is left (orchestrator.go:36-66, runner.go:296-317, the adapters'
\* deferred RemoveAll).
OutcomesKept ==
    phase = "returned" /\ result # "refused" =>
        /\ \A i \in DOMAIN runs :
             /\ runs[i].err <=> i \in errors
             /\ runs[i].happened = "panic" => i \in errors
             /\ \A k \in DOMAIN runs[i].found : Key(runs[i].found[k]) \in Reported
             /\ ~runs[i].temp
        /\ Cardinality(Reported) = Len(report)
        /\ \A k \in DOMAIN report : \E i \in DOMAIN runs : report[k] \in ToSet(runs[i].found)
        /\ result = "ok" => errors = {}

\* A caller that gets no error and no finding above info (exit code 0) has had every
\* provider that was started run to its end: no tool was missing, refused, killed or
\* unreadable, no LLM failed, no lookup was missed; a source tree had a provider; and if
\* resources did not fit the grounded prompt the report says so (runner.go:193-215,
\* llm_analyzer.go:303-360, 507-567).  It does not have that everything was looked at:
\* prowler may exit with an error and count (adapter_prowler.go:42-48), names no adapter
\* has are skipped, and files beyond MaxFiles, cut at their limit or unreadable are left out
\* and told to nobody, where llm_files.go:20-23 wants the user told.  An error event before
\* the first token of an HTTP stream is an empty answer (llm/caller.go:100-105) and passes
\* for clean, where llm_analyzer.go:484-486 wants it told apart; after a token it does not.
NeverFalselyClean ==
    (result = "ok" /\ \A k \in DOMAIN report : report[k].sev = Info) =>
        /\ \A i \in DOMAIN runs :
             \/ runs[i].happened = "nothing"
             \/ <<providers[i], runs[i].happened>> \in {<<"prowler", "exit">>, <<"llm", "silence">>}
        /\ request.mode = "source" => runs # <<>>
        /\ CapPromptResources(Grounded) > 0 =>
               \E k \in DOMAIN report : report[k].rule = "LLM-CB-TRUNCATED"

\* A tool hangs and no timeout is set, or a killed tool's child keeps its output open.
Wedged ==
    \E i \in DOMAIN runs : runs[i].at = "held" \/ (runs[i].hung /\ ~request.total /\ ~request.each)

\* Every audit returns, whatever its providers do, unless it is wedged in one of these ways:
\* a provider that panics or overruns its timeout does not hold up the others
\* (orchestrator.go:30-66).
ScanReturns == (phase # "returned") ~> (phase = "returned" \/ Wedged)
=============================================================================
