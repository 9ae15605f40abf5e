--------------------------- MODULE AuditRun_proofs ---------------------------
(***************************************************************************)
(* Proofs about AuditRun for any resources, severity classes, texts and    *)
(* number of findings the LLM reports.                                     *)
(*                                                                         *)
(*  - TypeCorrect: the type invariant.                                     *)
(*  - ReportsAlwaysAgree and the three theorems on the exit code, from the *)
(*    inductive RunInv.                                                    *)
(***************************************************************************)
EXTENDS AuditRun, TLAPS

-----------------------------------------------------------------------------
(* The findings and their severities. *)

USE DEF Info, Warning, High, Critical, Severities

LEMMA FindingFields ==
  ASSUME NEW f \in Findings
  PROVE  f.sev \in Severities /\ f.says \subseteq Gates
  BY DEF Findings

\* The findings a scan may return are findings, and none is an integrity finding.
ScanFindings == LLMFindings \cup Errors \cup Ahead \cup Partial \cup Stale \cup {Provenance}

LEMMA ScanFindingsType ==
  ASSUME NEW f \in ScanFindings
  PROVE  f \in Findings /\ f.rule # Integrity.rule
<1> USE DEF Finding, Findings
<1>1. Integrity.rule = "CBX-DISCOVERY-INTEGRITY"
  BY DEF Integrity
<1>2. CASE f \in LLMFindings
  BY <1>1, <1>2, AuditAssumption DEF LLMFindings
<1>3. CASE f \in Errors \cup Ahead \cup Partial \cup Stale
  BY <1>1, <1>3 DEF Errors, Ahead, Partial, Stale, About, Gates
<1>4. CASE f = Provenance
  BY <1>1, <1>4 DEF Provenance
<1> QED
  BY <1>2, <1>3, <1>4 DEF ScanFindings

LEMMA IntegrityFields ==
  /\ Integrity \in Findings /\ Integrity.res = Missed /\ Integrity.sev = Warning
  /\ Integrity.says = {}
  BY DEF Integrity, Finding, Findings

LEMMA Resevere ==
  ASSUME NEW f \in Findings, NEW s \in Severities
  PROVE  /\ [f EXCEPT !.sev = s] \in Findings
         /\ [f EXCEPT !.sev = s].sev = s /\ [f EXCEPT !.sev = s].res = f.res
         /\ [f EXCEPT !.sev = s].says = f.says /\ [f EXCEPT !.sev = s].rule = f.rule
  BY DEF Findings

\* g is f with another severity.
Same(f, g) == g \in Findings /\ g.res = f.res /\ g.says = f.says /\ g.rule = f.rule

LEMMA RaiseFacts ==
  ASSUME NEW f \in Findings, NEW s \in {High, Critical}
  PROVE  Same(f, RaiseTo(f, s)) /\ RaiseTo(f, s).sev >= High
<1> DEFINE t == IF s > f.sev THEN s ELSE f.sev
<1>1. RaiseTo(f, s) = [f EXCEPT !.sev = t]
  BY DEF RaiseTo
<1>2. t \in Severities /\ t >= High
  BY FindingFields
<1> HIDE DEF t
<1>3. Same(f, [f EXCEPT !.sev = t]) /\ [f EXCEPT !.sev = t].sev = t
  BY <1>2, Resevere DEF Same
<1> QED
  BY <1>1, <1>2, <1>3

LEMMA CapFacts ==
  ASSUME NEW f \in Findings
  PROVE  Same(f, CapTo(f, Info)) /\ ~(CapTo(f, Info).sev >= High)
<1> DEFINE t == IF Info < f.sev THEN Info ELSE f.sev
<1>1. CapTo(f, Info) = [f EXCEPT !.sev = t]
  BY DEF CapTo
<1>2. t \in Severities /\ ~(t >= High)
  BY FindingFields
<1> HIDE DEF t
<1>3. Same(f, [f EXCEPT !.sev = t]) /\ [f EXCEPT !.sev = t].sev = t
  BY <1>2, Resevere DEF Same
<1> QED
  BY <1>1, <1>2, <1>3

\* The finding reports a condition of its resource the floor knows.
Reports(f) ==
    \/ "critical" \in f.says /\ f.res \in FloorCritical
    \/ "high" \in f.says /\ f.res \in FloorHigh

LEMMA PinnedFacts ==
  ASSUME NEW f \in Findings
  PROVE  /\ Same(f, Pinned(f))
         /\ Pinned(f).sev >= High <=> f.sev >= High \/ Reports(f)
<1>1. CASE "critical" \in f.says /\ f.res \in FloorCritical
  <2>1. Pinned(f) = RaiseTo(f, Critical)
    BY <1>1 DEF Pinned
  <2>2. Reports(f)
    BY <1>1 DEF Reports
  <2> QED
    BY <2>1, <2>2, RaiseFacts
<1>2. CASE /\ "high" \in f.says /\ f.res \in FloorHigh
           /\ ~("critical" \in f.says /\ f.res \in FloorCritical)
  <2>1. Pinned(f) = RaiseTo(f, High)
    BY <1>2 DEF Pinned
  <2>2. Reports(f)
    BY <1>2 DEF Reports
  <2> QED
    BY <2>1, <2>2, RaiseFacts
<1>3. CASE ~Reports(f)
  <2>1. Pinned(f) = f
    BY <1>3 DEF Pinned, Reports
  <2> QED
    BY <1>3, <2>1 DEF Same
<1> QED
  BY <1>1, <1>2, <1>3 DEF Reports

\* The floor raises what reports a condition or reads like ECS Exec, and nothing else.
LEMMA FlooredFacts ==
  ASSUME NEW f \in Findings
  PROVE  /\ Same(f, Floored(f))
         /\ Floored(f).sev >= High <=> f.sev >= High \/ Reports(f) \/ "exec" \in f.says
<1>1. Same(f, Pinned(f)) /\ (Pinned(f).sev >= High <=> f.sev >= High \/ Reports(f))
  BY PinnedFacts
<1>2. CASE "exec" \in f.says
  <2>1. Floored(f) = RaiseTo(Pinned(f), High)
    BY <1>2 DEF Floored
  <2>2. Same(Pinned(f), Floored(f)) /\ Floored(f).sev >= High
    BY <1>1, <2>1, RaiseFacts DEF Same
  <2> QED
    BY <1>1, <1>2, <2>2 DEF Same
<1>3. CASE "exec" \notin f.says
  BY <1>1, <1>3 DEF Floored
<1> QED
  BY <1>2, <1>3

\* The cap lowers the trust finding of an organization role and nothing else.
LEMMA DowngradedFacts ==
  ASSUME NEW f \in Findings
  PROVE  /\ Same(f, Downgraded(f))
         /\ Downgraded(f).sev >= High
              <=> f.sev >= High /\ ~("trust" \in f.says /\ f.res \in OrgRoles)
<1>1. CASE "trust" \in f.says /\ f.res \in OrgRoles
  BY <1>1, CapFacts DEF Downgraded
<1>2. CASE ~("trust" \in f.says /\ f.res \in OrgRoles)
  BY <1>2 DEF Downgraded, Same
<1> QED
  BY <1>1, <1>2

Post(f) == Downgraded(Floored(f))

LEMMA PostProcessIsPost ==
  ASSUME NEW fs
  PROVE  PostProcess(fs) = {Post(f) : f \in {g \in fs : g.res \notin Self}}
  BY DEF PostProcess, DowngradeOrgRole, SeverityFloor, DropSelfIdentity, Post

\* From a finding to the one that is judged: high if and only if it is serious.
LEMMA PostFacts ==
  ASSUME NEW f \in Findings
  PROVE  /\ Same(f, Post(f))
         /\ Serious(f) <=> f.res \notin Self /\ Post(f).sev >= High
<1>1. Same(f, Floored(f))
  BY FlooredFacts
<1>2. /\ Same(Floored(f), Post(f))
      /\ Post(f).sev >= High
           <=> Floored(f).sev >= High /\ ~("trust" \in f.says /\ f.res \in OrgRoles)
  BY <1>1, DowngradedFacts DEF Post, Same
<1>3. Same(f, Post(f))
  BY <1>1, <1>2 DEF Same
<1>4. Floored(f).sev >= High <=> f.sev >= High \/ Reports(f) \/ "exec" \in f.says
  BY FlooredFacts
<1> DEFINE Up(x) == x.sev >= High
<1>5. /\ Up(Post(f)) <=> Up(Floored(f)) /\ ~("trust" \in f.says /\ f.res \in OrgRoles)
      /\ Up(Floored(f)) <=> Up(f) \/ Reports(f) \/ "exec" \in f.says
  BY <1>2, <1>4
<1>6. Serious(f) <=> /\ f.res \notin Self
                     /\ ~("trust" \in f.says /\ f.res \in OrgRoles)
                     /\ Up(f) \/ Reports(f) \/ "exec" \in f.says
  BY DEF Serious, Reports
<1> HIDE DEF Up
<1>7. Serious(f) <=> f.res \notin Self /\ Up(Post(f))
  BY <1>5, <1>6
<1> QED
  BY <1>3, <1>7 DEF Up

\* What says nothing the floor or the cap knows is judged as it was reported.
LEMMA PostPlain ==
  ASSUME NEW f \in Findings, f.says = {}
  PROVE  Post(f) = f
  BY DEF Post, Floored, Pinned, Downgraded

\* Raised or not, a warning about no organization role stays one at least.
LEMMA PostKeeps ==
  ASSUME NEW f \in Findings, f.res \notin OrgRoles
  PROVE  /\ Post(f).sev >= Info
         /\ f.sev >= Warning => Post(f).sev >= Warning
<1>1. Post(f) = Floored(f)
  <2>1. Same(f, Floored(f))
    BY FlooredFacts
  <2> QED
    BY <2>1 DEF Post, Downgraded, Same
<1>2. Floored(f) = f \/ Floored(f).sev >= High
  <2>1. Pinned(f) = f \/ Pinned(f).sev >= High
    BY PinnedFacts DEF Pinned, Reports
  <2>2. CASE "exec" \in f.says
    BY <2>2, FlooredFacts
  <2>3. CASE "exec" \notin f.says
    BY <2>1, <2>3 DEF Floored
  <2> QED
    BY <2>2, <2>3
<1>3. Floored(f).sev \in Severities /\ f.sev \in Severities
  BY FlooredFacts, FindingFields DEF Same
<1> QED
  BY <1>1, <1>2, <1>3

LEMMA PostProcessType ==
  ASSUME NEW fs \in SUBSET Findings
  PROVE  PostProcess(fs) \in SUBSET Findings
  BY PostProcessIsPost, PostFacts DEF Same

-----------------------------------------------------------------------------
(* The exit code is the worst severity's. *)

LEMMA ExitCodeFacts ==
  ASSUME NEW s \in Severities
  PROVE  /\ ExitCode(s) \in 1..3
         /\ ExitCode(s) = 3 <=> s >= High
         /\ ExitCode(s) >= 2 <=> s >= Warning
  BY DEF ExitCode

LEMMA ExitIsWorst ==
  ASSUME NEW fs \in SUBSET Findings
  PROVE  /\ ExitWithSeverity(fs) \in 0..3
         /\ \A f \in fs : ExitCode(f.sev) <= ExitWithSeverity(fs)
         /\ ExitWithSeverity(fs) = 0 \/ \E f \in fs : ExitCode(f.sev) = ExitWithSeverity(fs)
<1> DEFINE Is(c) == /\ \A f \in fs : ExitCode(f.sev) <= c
                    /\ c = 0 \/ \E f \in fs : ExitCode(f.sev) = c
<1>1. \A f \in fs : ExitCode(f.sev) \in 1..3
  BY FindingFields, ExitCodeFacts
<1>2. \E c \in 0..4 : Is(c)
  <2>1. CASE \E f \in fs : ExitCode(f.sev) = 3
    BY <1>1, <2>1
  <2>2. CASE /\ \A f \in fs : ExitCode(f.sev) # 3
             /\ \E f \in fs : ExitCode(f.sev) = 2
    <3>1. \A f \in fs : ExitCode(f.sev) <= 2
      BY <1>1, <2>2
    <3> QED
      BY <2>2, <3>1
  <2>3. CASE /\ \A f \in fs : ExitCode(f.sev) \notin {2, 3}
             /\ fs # {}
    <3>1. \A f \in fs : ExitCode(f.sev) = 1
      BY <1>1, <2>3
    <3>2. Is(1)
      BY <2>3, <3>1
    <3> QED
      BY <3>2
  <2>4. CASE fs = {}
    <3>1. Is(0)
      BY <2>4
    <3> QED
      BY <3>1
  <2> QED
    BY <2>1, <2>2, <2>3, <2>4
<1>3. ExitWithSeverity(fs) = CHOOSE c \in 0..4 : Is(c)
  BY DEF ExitWithSeverity
<1>4. ExitWithSeverity(fs) \in 0..4 /\ Is(ExitWithSeverity(fs))
  BY <1>2, <1>3
<1>5. ExitWithSeverity(fs) \in 0..3
  BY <1>1, <1>4
<1> QED
  BY <1>4, <1>5

-----------------------------------------------------------------------------
(* The type invariant. *)

LEMMA AnswersAreFindings == \A raw \in Answers : raw \subseteq LLMFindings
<1> SUFFICES ASSUME NEW raw \in Answers PROVE raw \subseteq LLMFindings
  OBVIOUS
<1>1. CASE raw = {}
  BY <1>1
<1>2. ASSUME NEW list \in [1..MaxRaw -> {f \in LLMFindings : f.res \in found \cup {Elsewhere}}],
             raw = {list[i] : i \in 1..MaxRaw}
      PROVE  raw \subseteq LLMFindings
  BY <1>2
<1> QED
  BY <1>1, <1>2 DEF Answers

\* What a scan that did not fail returns.
LEMMA JudgementFacts ==
  ASSUME NEW js \in Judgements
  PROVE  /\ js \subseteq ScanFindings
         /\ Provenance \in js
         /\ pack = "old" => Stale \cap js # {}
<1>1. PICK raw \in Answers, own \in Caveats, note \in StaleNotes : js = raw \cup own \cup note
  BY DEF Judgements
<1>2. raw \subseteq LLMFindings
  BY AnswersAreFindings
<1>3. own \subseteq Ahead \cup Partial \cup {Provenance} /\ Provenance \in own
  BY DEF Caveats
<1>4. note \subseteq Stale /\ (pack = "old" => Stale \cap note # {})
  BY DEF StaleNotes
<1> QED
  BY <1>1, <1>2, <1>3, <1>4 DEF ScanFindings

LEMMA InitTypeOK == Init => TypeOK
<1> SUFFICES ASSUME Init PROVE TypeOK
  OBVIOUS
<1>1. opt \in [strict : BOOLEAN, dry : BOOLEAN]
  BY DEF Init
<1>2. found = {} /\ missed = {} /\ scan = {} /\ findings = {} /\ written = {}
  BY DEF Init
<1>3. /\ pc \in Stages \cup {"ended"} /\ why \in Ends \cup {"not"}
      /\ pack \in {"none", "current", "old"}
  BY DEF Init
<1>4. code \in 0..3
  BY DEF Init
<1>5. linked \in BOOLEAN
  BY Zenon DEF Init
<1> QED
  BY <1>1, <1>2, <1>3, <1>4, <1>5 DEF TypeOK

\* The three variables through which a run ends.
EndTypeOK ==
    /\ pc \in Stages \cup {"ended"} /\ why \in Ends \cup {"not"} /\ code \in 0..3

LEMMA GatingType == TypeOK => Gating \in SUBSET Findings
  BY DEF TypeOK, Gating

LEMMA NextEndTypeOK == TypeOK /\ [Next]_vars => EndTypeOK'
<1> SUFFICES ASSUME TypeOK, [Next]_vars PROVE EndTypeOK'
  OBVIOUS
<1>1. EndTypeOK
  BY DEF TypeOK, EndTypeOK
<1>2. ASSUME NEW stage \in Stages, Goto(stage) PROVE EndTypeOK'
  BY <1>1, <1>2 DEF Goto, EndTypeOK
<1>3. ASSUME NEW reason \in Ends, NEW exit \in 0..3, End(reason, exit) PROVE EndTypeOK'
  BY <1>3 DEF End, EndTypeOK
<1>4. ASSUME NEW reason \in Ends, Abort(reason) PROVE EndTypeOK'
  BY <1>3, <1>4 DEF Abort
<1>5. CASE Start
  BY <1>5 DEF Start, EndTypeOK, Stages
<1>6. CASE Kill
  BY <1>1, <1>6 DEF Kill, EndTypeOK, Ends
<1>7. CASE ResolvePack
  BY <1>2, <1>4, <1>7 DEF ResolvePack, Stages, Ends
<1>8. CASE Probe
  BY <1>2, <1>4, <1>8 DEF Probe, Stages, Ends
<1>9. CASE Discover
  <2>1. CASE Abort("discover")
    BY <1>4, <2>1 DEF Ends
  <2>2. CASE End("dry", 0)
    BY <1>3, <2>2 DEF Ends
  <2>3. CASE Goto("construct")
    BY <1>2, <2>3 DEF Stages
  <2> QED
    BY <1>9, <2>1, <2>2, <2>3 DEF Discover
<1>10. CASE Construct \/ Scan \/ Collect \/ WriteSVG
  BY <1>2, <1>4, <1>10 DEF Construct, Scan, Collect, WriteSVG, Stages, Ends
<1>11. CASE WriteReport \/ WriteHTML \/ WriteState
  BY <1>2, <1>4, <1>11 DEF WriteReport, WriteHTML, WriteState, Stages, Ends
<1>12. CASE Report
  <2>1. CASE End("findings", ExitWithSeverity(Gating))
    <3>1. ExitWithSeverity(Gating) \in 0..3
      BY GatingType, ExitIsWorst
    <3> QED
      BY <1>3, <2>1, <3>1 DEF Ends
  <2>2. CASE Abort("stdout")
    BY <1>4, <2>2 DEF Ends
  <2> QED
    BY <1>12, <2>1, <2>2 DEF Report
<1>13. CASE UNCHANGED vars
  BY <1>1, <1>13 DEF vars, EndTypeOK
<1> QED
  BY <1>5, <1>6, <1>7, <1>8, <1>9, <1>10, <1>11, <1>12, <1>13 DEF Next

\* The other variables.
DataTypeOK ==
    /\ opt \in [strict : BOOLEAN, dry : BOOLEAN]
    /\ pack \in {"none", "current", "old"}
    /\ found \subseteq Resources /\ missed \subseteq {Integrity}
    /\ scan \subseteq Findings /\ findings \subseteq Findings
    /\ written \subseteq Files /\ linked \in BOOLEAN

LEMMA ScanType == ASSUME Scan PROVE scan' \subseteq ScanFindings
<1>1. \A e \in Errors : {e} \subseteq ScanFindings
  BY DEF ScanFindings
<1> QED
  BY <1>1, JudgementFacts DEF Scan

LEMMA NextDataTypeOK == TypeOK /\ [Next]_vars => DataTypeOK'
<1> SUFFICES ASSUME TypeOK, [Next]_vars PROVE DataTypeOK'
  OBVIOUS
<1>0. DataTypeOK
  BY DEF TypeOK, DataTypeOK
<1>1. CASE Start
  BY <1>1 DEF Start, Forget, DataTypeOK
<1>2. CASE Kill
  BY <1>0, <1>2 DEF Kill, Forget, DataTypeOK
<1>3. CASE ResolvePack
  BY <1>0, <1>3 DEF ResolvePack, after, DataTypeOK
<1>4. CASE Probe \/ Construct
  BY <1>0, <1>4 DEF Probe, Construct, before, after, DataTypeOK
<1>5. CASE Discover
  BY <1>0, <1>5 DEF Discover, after, DataTypeOK
<1>6. CASE Scan
  <2>1. scan' \subseteq Findings
    BY <1>6, ScanType, ScanFindingsType
  <2> QED
    BY <1>0, <1>6, <2>1 DEF Scan, after, DataTypeOK
<1>7. CASE Collect
  <2>1. scan \cup missed \in SUBSET Findings
    BY <1>0, IntegrityFields DEF DataTypeOK
  <2>2. findings' \subseteq Findings
    BY <1>7, <2>1, PostProcessType DEF Collect
  <2> QED
    BY <1>0, <1>7, <2>2 DEF Collect, before, DataTypeOK
<1>8. CASE WriteSVG \/ WriteReport \/ WriteHTML \/ WriteState
  BY <1>0, <1>8 DEF WriteSVG, WriteReport, WriteHTML, WriteState, Wrote, NotWritten, Files,
                    before, DataTypeOK
<1>9. CASE Report
  BY <1>0, <1>9 DEF Report, before, after, DataTypeOK
<1>10. CASE UNCHANGED vars
  BY <1>0, <1>10 DEF vars, DataTypeOK
<1> QED
  BY <1>1, <1>2, <1>3, <1>4, <1>5, <1>6, <1>7, <1>8, <1>9, <1>10 DEF Next

\* Every run keeps to the types: in particular the exit code stays below 4.
THEOREM TypeCorrect == Spec => []TypeOK
<1>1. TypeOK /\ [Next]_vars => TypeOK'
  BY NextEndTypeOK, NextDataTypeOK DEF TypeOK, EndTypeOK, DataTypeOK
<1> QED
  BY <1>1, InitTypeOK, PTL DEF Spec

-----------------------------------------------------------------------------
(* The inductive invariant of a run. *)

\* The scan is over in a run that can still report, or has.
Scanned == pc \in {"post", "svg", "md", "html", "state", "report"} \/ Judged
Collected == pc \in {"svg", "md", "html", "state", "report"} \/ Judged

\* A failed scan left its mark, and so did a pack that may be outdated.
ScanInv ==
    Scanned =>
      /\ scan \subseteq ScanFindings
      /\ found # {} /\ Provenance \notin scan => Errors \cap scan # {}
      /\ Provenance \in scan /\ pack = "old" => Stale \cap scan # {}

PostInv == Collected => findings = PostProcess(scan \cup missed)

\* Which reports are there by now.
FileInv ==
    /\ pc \in {"html", "state", "report"} \/ Judged => "md" \in written
    /\ pc \in {"state", "report"} \/ Judged => "html" \in written
    /\ linked => "svg" \in written

ExitInv == Judged => code = ExitWithSeverity(Gating)

RunInv == ScanInv /\ PostInv /\ FileInv /\ ExitInv

LEMMA InitRunInv == Init => RunInv
  BY DEF Init, RunInv, ScanInv, PostInv, FileInv, ExitInv, Scanned, Collected, Judged, Ended

LEMMA ScanOutcome == Scan => ScanInv'
<1> SUFFICES ASSUME Scan
             PROVE  /\ scan' \subseteq ScanFindings
                    /\ found' # {} /\ Provenance \notin scan' => Errors \cap scan' # {}
                    /\ Provenance \in scan' /\ pack' = "old" => Stale \cap scan' # {}
  BY DEF ScanInv
<1>1. UNCHANGED <<found, pack>>
  BY DEF Scan
<1>2. scan' \subseteq ScanFindings
  BY ScanType
<1>3. CASE found = {} /\ scan' = {}
  BY <1>1, <1>2, <1>3
<1>4. ASSUME NEW e \in Errors, scan' = {e}
      PROVE  Errors \cap scan' # {} /\ Provenance \notin scan'
  BY <1>4 DEF Errors, About, Provenance, Finding
<1>5. CASE scan' \in Judgements
  BY <1>1, <1>2, <1>5, JudgementFacts
<1> QED
  BY <1>1, <1>2, <1>3, <1>4, <1>5 DEF Scan

LEMMA NextScanInv == ScanInv /\ [Next]_vars => ScanInv'
<1> SUFFICES ASSUME ScanInv, [Next]_vars PROVE ScanInv'
  OBVIOUS
<1> USE DEF ScanInv, Scanned, Judged, Ended, Goto, End, Abort
<1>1. CASE Start
  BY <1>1 DEF Start
<1>2. CASE Kill
  BY <1>2 DEF Kill
<1>3. CASE ResolvePack \/ Probe \/ Discover \/ Construct
  BY <1>3 DEF ResolvePack, Probe, Discover, Construct
<1>4. CASE Scan
  BY <1>4, ScanOutcome
<1>5. CASE Collect \/ WriteSVG \/ WriteReport \/ WriteHTML \/ WriteState
  BY <1>5 DEF Collect, WriteSVG, WriteReport, WriteHTML, WriteState, before
<1>6. CASE Report
  BY <1>6 DEF Report, before
<1>7. CASE UNCHANGED vars
  BY <1>7 DEF vars
<1> QED
  BY <1>1, <1>2, <1>3, <1>4, <1>5, <1>6, <1>7 DEF Next

LEMMA NextPostInv == PostInv /\ [Next]_vars => PostInv'
<1> SUFFICES ASSUME PostInv, [Next]_vars PROVE PostInv'
  OBVIOUS
<1> USE DEF PostInv, Collected, Judged, Ended, Goto, End, Abort
<1>1. CASE Start
  BY <1>1 DEF Start
<1>2. CASE Kill
  BY <1>2 DEF Kill
<1>3. CASE ResolvePack \/ Probe \/ Discover \/ Construct \/ Scan
  BY <1>3 DEF ResolvePack, Probe, Discover, Construct, Scan
<1>4. CASE Collect
  <2>1. findings' = PostProcess(scan \cup missed) /\ UNCHANGED <<scan, missed>>
    BY <1>4 DEF Collect, before
  <2>2. PostProcess(scan' \cup missed') = PostProcess(scan \cup missed)
    BY <2>1
  <2> QED
    BY <2>1, <2>2
<1>5. ASSUME UNCHANGED <<scan, missed, findings>>, Collected
      PROVE  PostInv'
  BY <1>5
<1>6. CASE WriteSVG \/ WriteReport \/ WriteHTML \/ WriteState \/ Report
  BY <1>5, <1>6 DEF WriteSVG, WriteReport, WriteHTML, WriteState, Report, before, after
<1>7. CASE UNCHANGED vars
  BY <1>7 DEF vars
<1> QED
  BY <1>1, <1>2, <1>3, <1>4, <1>6, <1>7 DEF Next

LEMMA NextFileInv == FileInv /\ [Next]_vars => FileInv'
<1> SUFFICES ASSUME FileInv, [Next]_vars PROVE FileInv'
  OBVIOUS
<1> USE DEF FileInv, Judged, Ended, Goto, End, Abort
<1>1. CASE Start
  BY <1>1 DEF Start
<1>2. CASE Kill
  BY <1>2 DEF Kill, after
<1>3. CASE ResolvePack \/ Probe \/ Discover
  BY <1>3 DEF ResolvePack, Probe, Discover, after
<1>4. CASE Construct \/ Scan \/ Collect
  BY <1>4 DEF Construct, Scan, Collect, after
<1>5. CASE WriteSVG \/ WriteReport
  BY <1>5 DEF WriteSVG, WriteReport, Wrote, NotWritten
<1>6. CASE WriteHTML \/ WriteState
  BY <1>6 DEF WriteHTML, WriteState, Wrote, NotWritten
<1>7. CASE Report
  BY <1>7 DEF Report, after
<1>8. CASE UNCHANGED vars
  BY <1>8 DEF vars
<1> QED
  BY <1>1, <1>2, <1>3, <1>4, <1>5, <1>6, <1>7, <1>8 DEF Next

LEMMA NextExitInv == ExitInv /\ [Next]_vars => ExitInv'
<1> SUFFICES ASSUME ExitInv, [Next]_vars PROVE ExitInv'
  OBVIOUS
<1> USE DEF ExitInv, Judged, Ended, Goto, End, Abort
<1>1. CASE Start
  BY <1>1 DEF Start
<1>2. CASE Kill
  BY <1>2 DEF Kill
<1>3. CASE ResolvePack \/ Probe \/ Discover \/ Construct \/ Scan
  BY <1>3 DEF ResolvePack, Probe, Discover, Construct, Scan
<1>4. CASE Collect \/ WriteSVG \/ WriteReport \/ WriteHTML \/ WriteState
  BY <1>4 DEF Collect, WriteSVG, WriteReport, WriteHTML, WriteState
<1>5. ASSUME UNCHANGED <<opt, findings>> PROVE UNCHANGED Gating
  BY <1>5 DEF Gating
<1>6. CASE Report
  <2>1. UNCHANGED <<opt, findings>>
    BY <1>6 DEF Report, after
  <2>2. Judged' => code' = ExitWithSeverity(Gating)
    BY <1>6 DEF Report
  <2>3. Gating' = Gating
    BY <1>5, <2>1
  <2> QED
    BY <2>2, <2>3
<1>7. CASE UNCHANGED vars
  <2>1. UNCHANGED <<pc, why, code, opt, findings>>
    BY <1>7 DEF vars
  <2>2. Gating' = Gating
    BY <1>5, <2>1
  <2> QED
    BY <2>1, <2>2
<1> QED
  BY <1>1, <1>2, <1>3, <1>4, <1>6, <1>7 DEF Next

LEMMA RunInvAlways == Spec => [](TypeOK /\ RunInv)
<1>1. TypeOK /\ RunInv /\ [Next]_vars => RunInv'
  BY NextScanInv, NextPostInv, NextFileInv, NextExitInv DEF RunInv
<1> QED
  BY <1>1, InitRunInv, TypeCorrect, PTL DEF Spec

\* Behind an exit code that judges there are two complete reports and their diagram.
THEOREM ReportsAlwaysAgree == Spec => []ReportsAgree
<1>1. RunInv => ReportsAgree
  BY DEF RunInv, FileInv, ReportsAgree
<1> QED
  BY <1>1, RunInvAlways, PTL

-----------------------------------------------------------------------------
(* From the scan to the exit code. *)

\* What a judged run knows of its exit code: it is the worst of the gating findings,
\* which are the scan's and the missed lookups' after the post-processing.
LEMMA JudgedFacts ==
  ASSUME TypeOK, RunInv, Judged
  PROVE  /\ code \in 0..3
         /\ \A g \in Gating : ExitCode(g.sev) <= code
         /\ code = 0 \/ \E g \in Gating : ExitCode(g.sev) = code
         /\ Gating \subseteq findings /\ findings \subseteq Findings
         /\ findings = {Post(f) : f \in {g \in scan \cup missed : g.res \notin Self}}
         /\ scan \subseteq ScanFindings /\ scan \cup missed \subseteq Findings
         /\ missed \subseteq {Integrity}
<1>1. Gating \in SUBSET Findings
  BY GatingType
<1>2. code = ExitWithSeverity(Gating)
  BY DEF RunInv, ExitInv
<1>3. Gating \subseteq findings
  BY DEF Gating
<1>4. findings = {Post(f) : f \in {g \in scan \cup missed : g.res \notin Self}}
  BY PostProcessIsPost DEF RunInv, PostInv, Collected
<1>5. missed \subseteq {Integrity} /\ scan \subseteq Findings /\ findings \subseteq Findings
  BY DEF TypeOK
<1>6. scan \subseteq ScanFindings
  BY DEF RunInv, ScanInv, Scanned
<1> QED
  BY <1>1, <1>2, <1>3, <1>4, <1>5, <1>6, ExitIsWorst, IntegrityFields

\* What the scan reported counts, whatever the flags, with another severity perhaps.
LEMMA ScanGates ==
  ASSUME TypeOK, RunInv, Judged, NEW f \in scan, f.res \notin Self
  PROVE  f \in Findings /\ Post(f) \in Gating /\ Same(f, Post(f))
<1>1. Post(f) \in findings /\ f \in Findings /\ f \in ScanFindings
  BY JudgedFacts
<1>2. Same(f, Post(f))
  BY <1>1, PostFacts
<1>3. Post(f).rule # Integrity.rule
  BY <1>1, <1>2, ScanFindingsType DEF Same
<1> QED
  BY <1>1, <1>2, <1>3 DEF Gating

\* The exit code is 3 exactly for something serious, and 0 only if nothing was reported.
THEOREM ExitAlwaysExact == Spec => []ExitExact
<1>1. ASSUME TypeOK, RunInv, Judged
      PROVE  /\ code = 3 <=> \E f \in scan : Serious(f)
             /\ code = 0 => \A f \in scan : f.res \in Self
  <2>1. \A g \in Findings : ExitCode(g.sev) \in 1..3 /\ (ExitCode(g.sev) = 3 <=> g.sev >= High)
    BY FindingFields, ExitCodeFacts
  <2>2. ASSUME NEW f \in scan, Serious(f) PROVE code = 3
    <3>1. f \in Findings
      BY <1>1, JudgedFacts
    <3>2. f.res \notin Self /\ Post(f).sev >= High
      BY <2>2, <3>1, PostFacts
    <3>3. Post(f) \in Gating /\ Post(f) \in Findings
      BY <1>1, <3>2, ScanGates DEF Same
    <3>4. ExitCode(Post(f).sev) = 3 /\ ExitCode(Post(f).sev) <= code /\ code \in 0..3
      BY <1>1, <2>1, <3>2, <3>3, JudgedFacts
    <3> QED
      BY <3>4
  <2>3. ASSUME code = 3 PROVE \E f \in scan : Serious(f)
    <3>1. PICK g \in Gating : ExitCode(g.sev) = 3
      BY <1>1, <2>3, JudgedFacts
    <3>2. PICK f \in scan \cup missed : f.res \notin Self /\ g = Post(f)
      BY <1>1, JudgedFacts
    <3>3. f \in Findings /\ g \in Findings
      BY <1>1, <3>1, <3>2, JudgedFacts
    <3>4. g.sev >= High
      BY <2>1, <3>1, <3>3
    <3>5. Serious(f)
      BY <3>2, <3>3, <3>4, PostFacts
    <3>6. f \notin missed
      <4>1. SUFFICES ASSUME f = Integrity PROVE FALSE
        BY <1>1, JudgedFacts
      <4>2. Post(f) = Integrity
        BY <4>1, PostPlain, IntegrityFields
      <4> QED
        BY <3>2, <3>4, <4>2, IntegrityFields
    <3> QED
      BY <3>5, <3>6
  <2>4. ASSUME code = 0, NEW f \in scan, f.res \notin Self PROVE FALSE
    <3>1. Post(f) \in Gating /\ Post(f) \in Findings
      BY <1>1, <2>4, ScanGates DEF Same
    <3> QED
      BY <1>1, <2>1, <2>4, <3>1, JudgedFacts
  <2> QED
    BY <2>2, <2>3, <2>4
<1>2. TypeOK /\ RunInv => ExitExact
  BY <1>1 DEF ExitExact
<1> QED
  BY <1>2, RunInvAlways, PTL

\* Nothing that went wrong in the scan leaves the exit code clean.
THEOREM FailureAlwaysVisible == Spec => []FailureVisible
<1>1. ASSUME TypeOK, RunInv, Judged, NEW f \in scan, f.res = Tool
      PROVE  code >= 1 /\ (f.sev = Warning => code >= 2)
  <2>1. f.res \notin Self \cup OrgRoles
    BY <1>1, AuditAssumption
  <2>2. f \in Findings /\ Post(f) \in Gating /\ Post(f) \in Findings
    BY <1>1, <2>1, ScanGates DEF Same
  <2>3. /\ Post(f).sev \in Severities
        /\ f.sev = Warning => Post(f).sev >= Warning
    BY <2>1, <2>2, PostKeeps, FindingFields
  <2>4. ExitCode(Post(f).sev) \in 1..3 /\ (f.sev = Warning => ExitCode(Post(f).sev) >= 2)
    BY <2>3, ExitCodeFacts
  <2>5. ExitCode(Post(f).sev) <= code /\ code \in 0..3
    BY <1>1, <2>2, JudgedFacts
  <2> QED
    BY <2>4, <2>5
<1>2. /\ \A f \in Errors \cup Partial \cup Stale : f.res = Tool /\ f.sev = Warning
      /\ Provenance.res = Tool
  BY DEF Errors, Partial, Stale, About, Provenance, Finding
<1>3. ASSUME TypeOK, RunInv, Judged, found # {}
      PROVE  /\ code >= 1
             /\ Provenance \notin scan => code >= 2
             /\ Provenance \in scan /\ (pack = "old" \/ Partial \cap scan # {}) => code >= 2
  <2>1. /\ Provenance \notin scan => Errors \cap scan # {}
        /\ Provenance \in scan /\ pack = "old" => Stale \cap scan # {}
    BY <1>3 DEF RunInv, ScanInv, Scanned
  <2>2. /\ Provenance \in scan => code >= 1
        /\ (Errors \cup Partial \cup Stale) \cap scan # {} => code >= 1 /\ code >= 2
    BY <1>1, <1>2, <1>3
  <2> QED
    BY <2>1, <2>2
<1>4. TypeOK /\ RunInv => FailureVisible
  BY <1>3 DEF FailureVisible
<1> QED
  BY <1>4, RunInvAlways, PTL

\* Integrity findings are always shown, and gate under --strict only.
THEOREM IntegrityAlwaysAdvisory == Spec => []IntegrityAdvisory
<1>0. Post(Integrity) = Integrity /\ Missed \notin Self
  BY PostPlain, IntegrityFields, AuditAssumption
<1>1. \A g \in Findings : ExitCode(g.sev) \in 1..3 /\ (ExitCode(g.sev) >= 2 <=> g.sev >= Warning)
  BY FindingFields, ExitCodeFacts
<1>2. ASSUME TypeOK, RunInv, Judged
      PROVE  /\ missed \subseteq findings
             /\ opt.strict /\ missed # {} => code >= 2
             /\ ~opt.strict => (code >= 2 <=> \E f \in findings \ missed : f.sev >= Warning)
  <2>1. missed \subseteq findings
    BY <1>0, <1>2, JudgedFacts, IntegrityFields
  <2>2. ASSUME opt.strict, missed # {} PROVE code >= 2
    <3>1. Integrity \in Gating
      BY <1>2, <2>1, <2>2, JudgedFacts DEF Gating
    <3>2. ExitCode(Integrity.sev) <= code /\ code \in 0..3
      BY <1>2, <3>1, JudgedFacts
    <3>3. ExitCode(Integrity.sev) \in 1..3 /\ ExitCode(Integrity.sev) >= 2
      BY <1>1, IntegrityFields
    <3> QED
      BY <3>2, <3>3
  <2>3. ASSUME ~opt.strict, code >= 2 PROVE \E f \in findings \ missed : f.sev >= Warning
    <3>1. PICK g \in Gating : ExitCode(g.sev) = code
      BY <1>2, <2>3, JudgedFacts
    <3>2. g \in findings /\ g.rule # Integrity.rule
      BY <2>3 DEF Gating
    <3>3. g \in Findings /\ g \notin missed
      BY <1>2, <3>2, JudgedFacts
    <3> QED
      BY <1>1, <2>3, <3>1, <3>2, <3>3
  <2>4. ASSUME ~opt.strict, NEW g \in findings \ missed, g.sev >= Warning PROVE code >= 2
    <3>1. PICK f \in scan \cup missed : f.res \notin Self /\ g = Post(f)
      BY <1>2, JudgedFacts
    <3>2. f \in scan
      BY <1>0, <1>2, <2>4, <3>1, JudgedFacts
    <3>3. g \in Gating /\ g \in Findings
      BY <1>2, <3>1, <3>2, ScanGates DEF Same
    <3>4. ExitCode(g.sev) \in 1..3 /\ ExitCode(g.sev) >= 2
      BY <1>1, <2>4, <3>3
    <3>5. ExitCode(g.sev) <= code /\ code \in 0..3
      BY <1>2, <3>3, JudgedFacts
    <3> QED
      BY <3>4, <3>5
  <2> QED
    BY <2>1, <2>2, <2>3, <2>4
<1>3. TypeOK /\ RunInv => IntegrityAdvisory
  BY <1>2 DEF IntegrityAdvisory
<1> QED
  BY <1>3, RunInvAlways, PTL
=============================================================================
