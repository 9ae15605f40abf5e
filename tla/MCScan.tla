------------------------------- MODULE MCScan -------------------------------
(* Small audits: state files, source trees and discovered resources, with up to three *)
(* providers. *)
EXTENDS Scan

Obj(tool, kind, name, remote) ==
    [type |-> <<tool, kind>>, name |-> name, id |-> <<>>, size |-> 1,
     provisioners |-> IF remote THEN {"local-exec", "remote-exec"} ELSE {"local-exec"}]
Module(resources, children) == [resources |-> resources, children |-> children]
State(keys, deployed, top, modules) ==
    [keys |-> keys, big |-> FALSE, deployed |-> deployed, top |-> top, modules |-> modules]

\* Two buckets whose URNs end in the same word.
PulumiStack ==
    <<Obj("pulumi", "bucket", <<"app", "logs">>, FALSE), Obj("pulumi", "bucket", <<"db", "logs">>, FALSE),
      Obj("pulumi", "other", <<"x">>, FALSE)>>
Pulumi == State({"deployment", "version"}, PulumiStack, PulumiStack, <<>>)
Old == State({"version"}, <<>>, <<Obj("pulumi", "function", <<>>, FALSE)>>, <<>>)
Deep(remote) ==
    <<Module(<<>>, <<2>>), Module(<<Obj("terraform", "role", <<"r">>, remote)>>, <<>>)>>
TerraformShow(remote) == State({"terraform_version"}, <<>>, <<>>, Deep(remote))
Foreign == State({"serial"}, <<>>, PulumiStack, <<>>)

File(kind, ok, n) ==
    [kind |-> kind, ok |-> ok,
     resources |-> [i \in 1..n |-> [type |-> <<"terraform", "function">>, urn |-> <<"f", ToString(i)>>, size |-> i]]]

Live(kind, id, facts, refs) ==
    [type |-> <<"aws", kind>>, urn |-> <<kind, id>>, id |-> id, name |-> "n", facts |-> facts, refs |-> refs, size |-> 1]
Account ==
    <<Live("volume", "v", {}, {}), Live("eip", "e", {"associated"}, {}), Live("role", "r", {"stale"}, {"sg1"}),
      Live("bucket", "b", {"knownEmpty"}, {}), Live("securityGroup", "sg1", {}, {"sg2"}),
      Live("securityGroup", "sg2", {}, {})>>

Base == [via |-> "run", mode |-> "state", state |-> Pulumi, tree |-> <<>>, pool |-> 0, dir |-> TRUE,
         resources |-> <<>>, mock |-> FALSE, names |-> <<>>, llm |-> "", iac |-> "auto", yes |-> FALSE,
         total |-> FALSE, each |-> FALSE]
Source == [Base EXCEPT !.mode = "source", !.tree = <<File("tf", TRUE, 3)>>]

SomeRequests == {
    Base,
    [Base EXCEPT !.state = Old, !.names = <<"static", "unknown">>],
    [Base EXCEPT !.state.big = TRUE],
    [Base EXCEPT !.state.big = TRUE, !.yes = TRUE, !.names = <<"unknown">>],
    [Base EXCEPT !.state = Foreign],
    [Base EXCEPT !.state = TerraformShow(TRUE)],
    [Base EXCEPT !.state = TerraformShow(FALSE), !.names = <<"static", "tfsec">>, !.total = TRUE],
    [Base EXCEPT !.names = <<"checkov", "trivy">>, !.each = TRUE],
    [Base EXCEPT !.names = <<"static", "prowler", "static">>, !.each = TRUE],
    [Base EXCEPT !.state = Old, !.names = <<"prowler", "static">>, !.total = TRUE],
    [Base EXCEPT !.via = "context", !.names = <<"checkov", "static">>],
    [Base EXCEPT !.via = "resources", !.mode = "resources", !.resources = Account, !.mock = TRUE, !.names = <<"tfsec">>],
    [Source EXCEPT !.names = <<"tfsec", "orphan", "trivy">>, !.total = TRUE],
    [Source EXCEPT !.names = <<"prowler">>],
    [Source EXCEPT !.dir = FALSE],
    [Source EXCEPT !.names = <<"tfsec">>, !.iac = "k8s"],
    [Source EXCEPT !.names = <<"static">>, !.tree = <<File("chart", TRUE, 0), File("k8s", TRUE, 0)>>, !.pool = 2],
    [Source EXCEPT !.names = <<"static", "tfsec">>, !.tree = <<>>],
    [Source EXCEPT !.llm = "grounded", !.each = TRUE],
    [Source EXCEPT !.llm = "grounded", !.tree = <<File("tf", FALSE, 1), File("tf", TRUE, 1)>>],
    [Source EXCEPT !.llm = "cli", !.tree = <<File("cloudformation", TRUE, 0), File("tf.json", FALSE, 0)>>,
                   !.total = TRUE, !.via = "context"],
    [Source EXCEPT !.llm = "cli", !.tree = <<File("cloudformation", TRUE, 0)>>, !.iac = "terraform"],
    [Source EXCEPT !.llm = "http"]}

SomeVersions == {<<>>, <<1, 28>>, <<1, 28, 0>>, <<2, 4, 0>>, <<3, 2, 1>>, <<0, 50, 1>>, <<5, 0, 0>>}
SomeAnswers == {<<>>, Prose, 
                <<[rule |-> "LLM-1", res |-> <<"f">>, word |-> "low"],
                  [rule |-> "LLM-1", res |-> <<"f">>, word |-> "high"],
                  [rule |-> "S3", res |-> <<"f">>, word |-> "warn"]>>}
=============================================================================
