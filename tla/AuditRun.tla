------------------------------- MODULE AuditRun -------------------------------
(***************************************************************************)
(* One "cbx audit aws" after another in the same directory: the preflights *)
(* of pkg/cmd/audit_aws.go, discovery (module Discovery, here its result), *)
(* the LLM scan, the post-processing and the report writes of              *)
(* internal/audit/runner.go, and the exit code.                            *)
(*                                                                         *)
(* A finding names a resource, has a severity and a text.  Of the text     *)
(* only the keyword gates of severity_floor.go it passes are kept.  What   *)
(* an earlier run left is not told apart.                                  *)
(***************************************************************************)
EXTENDS Integers

CONSTANTS Resources,     \* what discovery may return
          Self,          \* those that are the caller's own IAM user
          OrgRoles,      \* canonical OrganizationAccountAccessRoles
          FloorCritical, \* those with a condition that is raised to critical
          FloorHigh,     \* those with a condition that is raised to high
          Texts,         \* the texts of the LLM's findings, as the gates they pass
          MaxRaw         \* bound of the number of findings the LLM reports

\* The keyword gates: the findingConcerns... of the resource's critical and of its high
\* condition, findingIsCanonicalOrgRoleTrust, and isECSExecWithoutLogging.
Gates == {"critical", "high", "trust", "exec"}

Tool == "tool"   \* the resource of the findings about the audit itself
Missed == "type" \* the resource of a discovery-integrity finding
Elsewhere == "account" \* an LLM finding on the account, or on nothing discovered

ASSUME AuditAssumption ==
    /\ Self \subseteq Resources /\ OrgRoles \subseteq Resources
    /\ FloorCritical \subseteq Resources /\ FloorHigh \subseteq Resources
    /\ {Tool, Missed, Elsewhere} \cap Resources = {}
    /\ Texts \subseteq SUBSET Gates /\ MaxRaw \in Nat \ {0}

Info == 1
Warning == 2
High == 3
Critical == 4
Severities == Info..Critical

Finding(rule, sev, res, says) == [rule |-> rule, sev |-> sev, res |-> res, says |-> says]
LLMFindings ==
    [rule : {"LLM"}, sev : Severities, res : Resources \cup {Elsewhere}, says : Texts]

\* Findings about the audit itself.  Their text quotes an error, the failed lookups or
\* the names of rules, and may by accident read like one about ECS Exec.
About(rule, sev) == {Finding(rule, sev, Tool, says) : says \in {{}, {"exec"}}}

\* LLM-CB-RULES-AHEAD stands for the other info-level ones too (LLM-CB-TRUNCATED,
\* LLM-CB-UNGROUNDED), whose text is fixed.
Errors == About("LLM-ERROR", Warning)
Ahead == About("LLM-CB-RULES-AHEAD", Info)
Partial == About("LLM-CB-KNOWLEDGE-PARTIAL", Warning)
Stale == About("LLM-CB-RULES-STALE", Warning)
Provenance == Finding("LLM-CB-RULES-PROVENANCE", Info, Tool, {})
Integrity == Finding("CBX-DISCOVERY-INTEGRITY", Warning, Missed, {})

Findings ==
    [rule : {"LLM", "LLM-ERROR", "LLM-CB-RULES-AHEAD", "LLM-CB-KNOWLEDGE-PARTIAL",
             "LLM-CB-RULES-STALE", "LLM-CB-RULES-PROVENANCE", "CBX-DISCOVERY-INTEGRITY"},
     sev : Severities, res : Resources \cup {Tool, Missed, Elsewhere}, says : SUBSET Gates]

VARIABLES
    pc,       \* where the run is
    opt,      \* its flags --strict and --dry-run
    pack,     \* the rule pack: none yet, current, or old (Stale or Degraded)
    found,    \* resources discovered
    missed,   \* the discovery-integrity findings
    scan,     \* what the analyzer returned
    findings, \* the findings of the result
    written,  \* the report files this run has written; the others are missing, of an
              \* earlier run, or torn by a write that failed
    linked,   \* the report links its SVG sibling
    why,      \* how the run ended
    code      \* its exit code

vars == <<pc, opt, pack, found, missed, scan, findings, written, linked, why, code>>
before == <<pack, found, missed, scan>>
after == <<findings, written, linked>>

Files == {"svg", "md", "html", "state"}
Stages == {"pack", "probe", "discover", "construct", "scan", "post",
           "svg", "md", "html", "state", "report"}
Ends == {"pack", "probe", "discover", "construct", "dry", "write", "stdout",
         "findings", "killed"}

TypeOK ==
    /\ pc \in Stages \cup {"ended"}
    /\ opt \in [strict : BOOLEAN, dry : BOOLEAN]
    /\ pack \in {"none", "current", "old"}
    /\ found \subseteq Resources /\ missed \subseteq {Integrity}
    /\ scan \subseteq Findings /\ findings \subseteq Findings
    /\ written \subseteq Files
    /\ linked \in BOOLEAN
    /\ why \in Ends \cup {"not"} /\ code \in 0..3

Init ==
    /\ pc = "ended" /\ why = "not" /\ code = 0
    /\ opt = [strict |-> FALSE, dry |-> FALSE]
    /\ pack = "none" /\ found = {} /\ missed = {} /\ scan = {} /\ findings = {}
    /\ written = {} /\ linked = FALSE

\* The memory of a process is its own.
Forget == pack' = "none" /\ found' = {} /\ missed' = {} /\ scan' = {} /\ findings' = {}

\* A new process: the files there are of earlier runs.
Start ==
    /\ pc = "ended" /\ pc' = "pack"
    /\ opt' \in [strict : BOOLEAN, dry : BOOLEAN]
    /\ Forget /\ written' = {} /\ linked' = FALSE
    /\ why' = "not" /\ code' = 0

-----------------------------------------------------------------------------
(* How a run ends. *)

End(reason, exit) == pc' = "ended" /\ why' = reason /\ code' = exit

\* RunE returns an error: ExitCode says 1.
Abort(reason) == End(reason, 1)

Goto(stage) == pc' = stage /\ UNCHANGED <<why, code>>

-----------------------------------------------------------------------------
(* Before any AWS call. *)

\* resolveAuditExecutor and ResolveRulePack.
ResolvePack ==
    /\ pc = "pack"
    /\ \/ /\ pack' \in {"current", "old"}
          /\ Goto(IF opt.dry THEN "discover" ELSE "probe")
       \/ Abort("pack") /\ UNCHANGED pack
    /\ UNCHANGED <<opt, found, missed, scan, after>>

\* preflightAuditLLM.
Probe ==
    /\ pc = "probe"
    /\ Goto("discover") \/ Abort("probe")
    /\ UNCHANGED <<opt, before, after>>

-----------------------------------------------------------------------------
(* Discovery, and the end of a dry run. *)

Discover ==
    /\ pc = "discover"
    /\ \/ Abort("discover") /\ UNCHANGED <<found, missed>>
       \/ opt.dry /\ End("dry", 0) /\ UNCHANGED <<found, missed>>
       \/ /\ ~opt.dry /\ Goto("construct")
          /\ found' \in SUBSET Resources /\ missed' \in SUBSET {Integrity}
    /\ UNCHANGED <<opt, pack, scan, after>>

-----------------------------------------------------------------------------
(* The scan. *)

\* newLLMAnalyzer: without the executor's binary there is no analyzer.
Construct ==
    /\ pc = "construct"
    /\ Goto("scan") \/ Abort("construct")
    /\ UNCHANGED <<opt, before, after>>

\* What the LLM may report: findings of any severity on the resources or the account.
Answers ==
    {{}} \cup {{list[i] : i \in 1..MaxRaw} :
                  list \in [1..MaxRaw -> {f \in LLMFindings : f.res \in found \cup {Elsewhere}}]}

\* The findings that say how far the answer can be trusted.
Caveats ==
    {own \cup {Provenance} :
       own \in UNION {SUBSET {a, p} : a \in Ahead, p \in Partial}}

StaleNotes == IF pack = "old" THEN {{s} : s \in Stale} ELSE {{}}

Judgements ==
    {raw \cup own \cup note : raw \in Answers, own \in Caveats, note \in StaleNotes}

\* Mutant: a failed scan is an empty one.
Scan_FailsEmpty ==
    /\ pc = "scan" /\ Goto("post")
    /\ scan' = {} \/ (found # {} /\ scan' \in Judgements)
    /\ UNCHANGED <<opt, pack, found, missed, after>>

\* ScanResources: nothing to scan; a failure of grounding, stream or parse as a
\* finding and no error; or the LLM's findings with those about the audit.
Scan ==
    /\ pc = "scan" /\ Goto("post")
    /\ \/ found = {} /\ scan' = {}
       \/ found # {} /\ \E e \in Errors : scan' = {e}
       \/ found # {} /\ scan' \in Judgements
    /\ UNCHANGED <<opt, pack, found, missed, after>>

-----------------------------------------------------------------------------
(* The post-processing of RunFromResources. *)

DropSelfIdentity(fs) == {f \in fs : f.res \notin Self}

RaiseTo(f, sev) == [f EXCEPT !.sev = IF sev > @ THEN sev ELSE @]
CapTo(f, sev) == [f EXCEPT !.sev = IF sev < @ THEN sev ELSE @]

\* The finding that reports a condition its resource has is raised.
Pinned(f) ==
    CASE "critical" \in f.says /\ f.res \in FloorCritical -> RaiseTo(f, Critical)
      [] /\ "high" \in f.says /\ f.res \in FloorHigh
         /\ ~("critical" \in f.says /\ f.res \in FloorCritical) -> RaiseTo(f, High)
      [] OTHER -> f

\* Then the text heuristic for ECS Exec, whatever the finding is about.
Floored(f) == IF "exec" \in f.says THEN RaiseTo(Pinned(f), High) ELSE Pinned(f)

SeverityFloor(fs) == {Floored(f) : f \in fs}

\* The trust finding of a canonical organization role is informational.
Downgraded(f) == IF "trust" \in f.says /\ f.res \in OrgRoles THEN CapTo(f, Info) ELSE f

DowngradeOrgRole(fs) == {Downgraded(f) : f \in fs}

\* Mutant: the cap runs before the floor.
PostProcess_CapFirst(fs) == SeverityFloor(DowngradeOrgRole(DropSelfIdentity(fs)))

PostProcess(fs) == DowngradeOrgRole(SeverityFloor(DropSelfIdentity(fs)))

Collect ==
    /\ pc = "post" /\ Goto("svg")
    /\ findings' = PostProcess(scan \cup missed)
    /\ UNCHANGED <<opt, before, written, linked>>

-----------------------------------------------------------------------------
(* The report files.  os.WriteFile truncates: a write that fails, or is cut    *)
(* short, may leave a torn file and never one this run has written.           *)

Wrote(f) == written' = written \cup {f}
NotWritten == UNCHANGED written

\* Best effort, and skipped when there is nothing to draw.
WriteSVG ==
    /\ pc = "svg" /\ Goto("md")
    /\ \/ Wrote("svg") /\ linked' = TRUE
       \/ NotWritten /\ linked' = FALSE
    /\ UNCHANGED <<opt, before, findings>>

\* The Markdown report, then its HTML companion: a failure ends the run.
WriteReport ==
    /\ pc = "md"
    /\ \/ Wrote("md") /\ Goto("html")
       \/ NotWritten /\ Abort("write")
    /\ UNCHANGED <<opt, before, findings, linked>>

\* Mutant: the HTML report is best effort like the SVG.
WriteHTML_BestEffort ==
    /\ pc = "html" /\ Goto("state")
    /\ Wrote("html") \/ NotWritten
    /\ UNCHANGED <<opt, before, findings, linked>>

WriteHTML ==
    /\ pc = "html"
    /\ \/ Wrote("html") /\ Goto("state")
       \/ NotWritten /\ Abort("write")
    /\ UNCHANGED <<opt, before, findings, linked>>

\* SaveAuditState, best effort.
WriteState ==
    /\ pc = "state" /\ Goto("report")
    /\ Wrote("state") \/ NotWritten
    /\ UNCHANGED <<opt, before, findings, linked>>

-----------------------------------------------------------------------------
(* The exit code. *)

ExitCode(sev) == IF sev = Critical THEN 3 ELSE sev

\* ExitWithSeverity: the worst finding; an empty set is clean.
ExitWithSeverity(fs) ==
    CHOOSE c \in 0..4 :
      /\ \A f \in fs : ExitCode(f.sev) <= c
      /\ c = 0 \/ \E f \in fs : ExitCode(f.sev) = c

\* Mutant: integrity findings always gate.
Gating_All == findings

Gating == IF opt.strict THEN findings ELSE {f \in findings : f.rule # Integrity.rule}

\* The JSON payload, which may fail to print, or the plain report; then the code.  The
\* analyzer returns no error, so the "partial failure" code 1 is never reached here.
Report ==
    /\ pc = "report"
    /\ End("findings", ExitWithSeverity(Gating)) \/ Abort("stdout")
    /\ UNCHANGED <<opt, before, after>>

\* Ctrl-C or a kill, at any point: no signal is handled, the memory is gone and the
\* exit code is not ours.
Kill ==
    /\ pc \in Stages
    /\ pc' = "ended" /\ why' = "killed"
    /\ Forget /\ UNCHANGED <<opt, written, linked, code>>

-----------------------------------------------------------------------------
Next ==
    \/ Start \/ Kill
    \/ ResolvePack \/ Probe \/ Discover \/ Construct \/ Scan \/ Collect
    \/ WriteSVG \/ WriteReport \/ WriteHTML \/ WriteState \/ Report

Spec == Init /\ [][Next]_vars

-----------------------------------------------------------------------------
(* Properties. *)

Ended == pc = "ended" /\ why # "not"
Judged == Ended /\ why = "findings"

\* A finding that must fail a CI gate: it is not about the caller's own user, not the
\* expected trust of an organization role, and it is called high, reports a condition of
\* its resource that "every framework rates" so, or has a text about ECS Exec without
\* logging, of which nothing is read (severity_floor.go:192).
Serious(f) ==
    /\ f.res \notin Self
    /\ ~("trust" \in f.says /\ f.res \in OrgRoles)
    /\ \/ f.sev >= High
       \/ "critical" \in f.says /\ f.res \in FloorCritical
       \/ "high" \in f.says /\ f.res \in FloorHigh
       \/ "exec" \in f.says

\* From the LLM's answer to the exit code, through drop, floor, cap and filter: 3 iff
\* something serious was reported, whatever severities the LLM chose and whatever else
\* was found on the same resource; 0 only if nothing was reported at all.  Serious
\* includes a finding about the audit itself (an LLM-ERROR, say, which errorFinding
\* means to exit with 2) if the text it quotes reads like one about ECS Exec.
ExitExact ==
    Judged => /\ code = 3 <=> \E f \in scan : Serious(f)
              /\ code = 0 => \A f \in scan : f.res \in Self

\* "Total analysis failure" never looks clean and neither does a degraded one: with
\* resources to judge, the code is at least 2 if the scan failed, the pack was stale or
\* a lookup was missed, and never 0 (LLM-ERROR, LLM-CB-RULES-STALE, ...-PARTIAL).
FailureVisible ==
    Judged /\ found # {} =>
      /\ code >= 1
      /\ Provenance \notin scan => code >= 2
      /\ Provenance \in scan /\ (pack = "old" \/ Partial \cap scan # {}) => code >= 2

\* A missed lookup is a finding of the result on every path, neither dropped nor raised
\* nor capped with the LLM's.  It moves the exit code under --strict only, and a real
\* warning beside it moves the code as if it were alone.  So ExitWithSeverityStrict has
\* it; the comment of DiscoveryIntegrityFinding (discovery_integrity.go:19-24) wants exit
\* code 2 always, "CI must not stay green on it", and that is not so: without --strict a
\* run whose only finding is a missed lookup exits with 0.
IntegrityAdvisory ==
    Judged => /\ missed \subseteq findings
              /\ opt.strict /\ missed # {} => code >= 2
              /\ ~opt.strict => (code >= 2 <=> \E f \in findings \ missed : f.sev >= Warning)

\* The exit code of a run that judged something and the two reports the user opens are
\* of the same run, and so is the diagram they link: earlier files, failed and torn
\* writes and kills never leave a mixture behind such a code.
ReportsAgree ==
    Judged => /\ {"md", "html"} \subseteq written
              /\ linked => "svg" \in written
=============================================================================
