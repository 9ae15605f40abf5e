------------------------------ MODULE Scanners ------------------------------
(***************************************************************************)
(* What the finding providers make of what they are given                  *)
(* (internal/audit/scanner.go, orphan_provider.go, adapter*.go): the rules *)
(* of the static scanner, the orphans of a live account, and the output of *)
(* tfsec, checkov, trivy and prowler read back.                            *)
(***************************************************************************)
EXTENDS Inventory

Info == 1
Warning == 2
High == 3
Critical == 4
Finding(rule, res, sev) == [rule |-> rule, res |-> res, sev |-> sev]
Key(f) == <<f.rule, f.res>>
Keys(findings) == {Key(findings[i]) : i \in DOMAIN findings}

Tools == {"tfsec", "checkov", "trivy", "prowler"}
Known == Tools \cup {"static", "orphan"}
SupportsSource == Known \ {"orphan", "prowler"}

\* One type of each kind is known by its Pulumi and by its Terraform name.
Kinds == {"bucket", "securityGroup", "role", "instance", "function"}

EvaluateResource(r) ==
    LET kind == IF r.type[1] \in {"pulumi", "terraform"} THEN r.type[2] ELSE "" IN
    CASE kind = "bucket"        -> <<Finding("S3-001", r.urn, Warning), Finding("S3-002", r.urn, High)>>
      [] kind = "securityGroup" -> <<Finding("EC2-001", r.urn, High)>>
      [] kind = "role"          -> <<Finding("IAM-001", r.urn, Warning)>>
      [] kind = "instance"      -> <<Finding("RDS-001", r.urn, High)>>
      [] kind = "function"      -> <<Finding("LAMBDA-001", r.urn, Info)>>
      [] OTHER                  -> <<>>

EvaluateAll(resources) ==
    FlattenSeq([i \in DOMAIN resources |-> EvaluateResource(resources[i])])

MockFindings == <<Finding("MOCK-SRC-001", <<"main.tf">>, High),
                  Finding("MOCK-SRC-002", <<"main.tf">>, Warning),
                  Finding("MOCK-SRC-003", <<"main.tf">>, Info)>>

\* Without a Terraform file the name of the directory, here n, picks mock findings.
StaticSource(tree, n) ==
    IF Is(tree, Terraform) THEN EvaluateAll(ParseTerraformSource(tree))
    ELSE SubSeq(MockFindings, 1, n + 1)

(* A resource of a live account has facts, refs (the security groups its properties *)
(* name), an id, and a name. *)

Orphan(r, referenced) ==
    CASE r.type[2] = "volume"        -> "attached" \notin r.facts
      [] r.type[2] = "eip"           -> "associated" \notin r.facts
      [] r.type[2] = "role"          -> r.facts \cap {"neverUsed", "stale"} # {}
      [] r.type[2] = "bucket"        -> {"knownEmpty", "old"} \subseteq r.facts
      [] r.type[2] = "securityGroup" -> r.name # "default" /\ r.id \notin referenced \cup {""}
      [] OTHER                       -> FALSE

OrphanRule == [volume |-> "ORPHAN-EBS-UNATTACHED", eip |-> "ORPHAN-EIP-UNASSOCIATED",
               role |-> "ORPHAN-IAM-ROLE-UNUSED", bucket |-> "ORPHAN-S3-EMPTY",
               securityGroup |-> "ORPHAN-SG-UNREFERENCED"]

\* One detector after the other; references of security groups do not count.
Orphans(resources) ==
    LET aws == Select(resources, LAMBDA r : r.type[1] = "aws")
        referenced == UNION {aws[i].refs : i \in {j \in DOMAIN aws : aws[j].type[2] # "securityGroup"}}
        Detect(kind) == Select(aws, LAMBDA r : r.type[2] = kind /\ Orphan(r, referenced))
        found == Detect("volume") \o Detect("eip") \o Detect("role")
                 \o Detect("bucket") \o Detect("securityGroup")
    IN  [i \in DOMAIN found |-> Finding(OrphanRule[found[i].type[2]], found[i].urn, Info)]

-----------------------------------------------------------------------------
(* External tools. *)

\* pulumiTypeToTerraformType: a Pulumi type outside its table is left out.
Handed(resources) ==
    Select(resources, LAMBDA r : r.type[1] = "terraform"
                                    \/ (r.type[1] = "pulumi" /\ r.type[2] \in Kinds))

\* sanitizeName keeps the last word: a tool knows a resource by its type and that word.
Address(r) == <<r.type[2], Last(r.urn)>>

\* A part the other version has and this one has not counts as less than any number.
CompareVersions(a, b) ==
    LET Part(v, i) == IF i \in DOMAIN v THEN v[i] ELSE -1
        differ == {i \in 1..3 : Part(a, i) # Part(b, i)}
    IN  IF differ = {} THEN 0
        ELSE LET i == CHOOSE j \in differ : \A k \in differ : j <= k
             IN  IF Part(a, i) < Part(b, i) THEN -1 ELSE 1

ScannerRegistry == [tfsec   |-> <<<<1, 28, 0>>, <<2, 0, 0>>>>,
                    checkov |-> <<<<2, 4, 0>>, <<4, 0, 0>>>>,
                    prowler |-> <<<<3, 0, 0>>, <<5, 0, 0>>>>,
                    trivy   |-> <<<<0, 48, 0>>, <<1, 0, 0>>>>]

\* <<>> is a version nothing could be read from.
VersionFits(tool, version) ==
    /\ version # <<>>
    /\ CompareVersions(version, ScannerRegistry[tool][1]) >= 0
    /\ CompareVersions(version, ScannerRegistry[tool][2]) < 0

\* Without a word it knows, a severity is the tool's default.
MapSeverity(word, default) ==
    CASE word = "critical"        -> Critical
      [] word = "high"            -> High
      [] word = "medium"          -> Warning
      [] word \in {"low", "info"} -> Info
      [] OTHER                    -> default

(* A result is [rule, res, file, word, fail]; trivy knows files, prowler tells passes too. *)

ParseTfsecOutput(results) ==
    [i \in DOMAIN results |->
        Finding(results[i].rule, results[i].res, MapSeverity(results[i].word, Info))]
ParseCheckovOutput(results) ==
    [i \in DOMAIN results |->
        Finding(results[i].rule, results[i].res, MapSeverity(results[i].word, Warning))]
ParseTrivyOutput(results) ==
    [i \in DOMAIN results |->
        Finding(results[i].rule, results[i].file, MapSeverity(results[i].word, Info))]
ParseProwlerOutput(results) ==
    ParseCheckovOutput(Select(results, LAMBDA r : r.fail))

ParseOutput(tool, results) ==
    CASE tool = "tfsec"   -> ParseTfsecOutput(results)
      [] tool = "checkov" -> ParseCheckovOutput(results)
      [] tool = "trivy"   -> ParseTrivyOutput(results)
      [] tool = "prowler" -> ParseProwlerOutput(results)

\* Mutant: what prowler left behind is read even when it was killed.
Adapter_AnyExit(tool, exit, done, output) ==
    IF (tool # "prowler" /\ exit # "ok") \/ output.kind # "results"
    THEN [found |-> <<>>, err |-> TRUE]
    ELSE [found |-> ParseOutput(tool, output.results), err |-> FALSE]

\* The end of a Scan or ScanSource, given how the tool ended, whether the context is done,
\* and what it wrote.  prowler may exit with an error after a good scan.
Adapter(tool, exit, done, output) ==
    IF (exit # "ok" /\ (tool # "prowler" \/ done)) \/ output.kind # "results"
    THEN [found |-> <<>>, err |-> TRUE]
    ELSE [found |-> ParseOutput(tool, output.results), err |-> FALSE]
=============================================================================
