------------------------------ MODULE MCShell ------------------------------
(* A small instance of Shell: one name that is provider and executor, one executor. *)
EXTENDS Shell

Std == [n \in {"codex"} |-> "gpt"]
Retired == [m \in {"old"} |-> "new"]

\* Nothing yet; a key stored long ago for a model that has been retired since; a login,
\* with both executors pinned.
OldLogin ==
    [Empty EXCEPT !.prov["codex"] = Entry("old", FALSE, TRUE, "api-key"),
                  !.default = "codex", !.telemetry = "off"]
Pinned ==
    [Empty EXCEPT !.prov = [n \in Names |-> IF n \in API THEN Entry("mine", TRUE, TRUE, "api-key")
                                           ELSE Entry("mine", TRUE, FALSE, "cli-executor")],
                  !.auth = TRUE, !.telemetry = "on"]
ThreeFiles == {Empty, OldLogin, Pinned}
TheirKeys == [f \in ThreeFiles |-> [n \in API |-> f.prov[n].in]]

SomeCommands ==
    AccountCommands \cup {Cmd("setURL", "", "own"), Cmd("telemetry", "", "off")}
    \cup {Cmd(op, "codex", "") :
            op \in {"apiTest", "apiLogout", "show", "clear", "run"}}
    \cup {Cmd("apiLogin", "codex", "given"), Cmd("apiLogin", "codex", "typed")}
    \cup {Cmd("run", "", ""), Cmd("doctor", "", ""), Cmd("default", "claude-code", ""),
          Cmd("clear", "claude-code", ""), Cmd("pin", "codex", "old"),
          Cmd("pin", "claude-code", "mine")}

\* One of the two terminals has CBX_API_URL set.
FromEnv == [p \in Procs |-> IF p = CHOOSE q \in Procs : TRUE THEN "env" ELSE ""]
============================================================================
