------------------------------ MODULE Settings ------------------------------
(***************************************************************************)
(* What the cbx commands do to the configuration they have loaded          *)
(* (internal/config, pkg/cmd/llm.go, login.go, config.go, telemetry.go):   *)
(* functions of one configuration, without the file it came from.          *)
(***************************************************************************)
EXTENDS Naturals

CONSTANTS API, CLI,      \* the names of llm.Providers and of cliExecutors; they may overlap
          DefaultModel,  \* of every API provider
          Replacement    \* of every retired model

Names == API \cup CLI
\* The executor an audit falls back to.
Fallback == "claude-code"

\* LLMProvider; NoEntry where the map has none.
Entry(model, pinned, in, mode) == [model |-> model, pinned |-> pinned, in |-> in, mode |-> mode]
NoEntry == Entry("", FALSE, FALSE, "none")

\* The strings, those of the program spelled out: the provers take no literal for one.
Text == STRING \cup {"", "std", Fallback, "browser", "device", "on", "off", "given", "typed"}
Entries == [model : Text, pinned : BOOLEAN, in : BOOLEAN,
            mode : {"none", "api-key", "cli-executor"}]

\* Config: auth is whether an account is recorded.
Empty == [auth |-> FALSE, url |-> "std", prov |-> [n \in Names |-> NoEntry],
          default |-> "", telemetry |-> "unasked"]
Configs == [auth : BOOLEAN, url : Text, prov : [Names -> Entries],
            default : Text, telemetry : {"unasked", "on", "off"}]

Current(m) == IF m \in DOMAIN Replacement THEN Replacement[m] ELSE m

\* Load: retired models are replaced, whoever chose them, and the environment wins.
Loaded(file, envURL) ==
    [file EXCEPT !.prov = [n \in Names |-> [file.prov[n] EXCEPT !.model = Current(@)]],
                 !.url = IF envURL = "" THEN @ ELSE envURL]

-----------------------------------------------------------------------------
Ask(c, answer) == [c EXCEPT !.telemetry = answer]

\* Mutant: a new key leaves the pin of the entry it overwrites.
APILogin_KeepsPin(c, n) ==
    [c EXCEPT !.prov[n] = Entry(DefaultModel[n], @.pinned, TRUE, "api-key"),
              !.default = IF @ = "" THEN n ELSE @]

\* The entry is written anew: a pin that was in it, for the executor of that name, is gone.
APILogin(c, n) ==
    [c EXCEPT !.prov[n] = Entry(DefaultModel[n], FALSE, TRUE, "api-key"),
              !.default = IF @ = "" THEN n ELSE @]

APILogout(c, n) ==
    [c EXCEPT !.prov[n] = NoEntry, !.default = IF @ = n THEN "" ELSE @]

PinModel(c, n, m) ==
    [c EXCEPT !.prov[n] =
        IF @ = NoEntry THEN Entry(m, TRUE, FALSE, "cli-executor")
        ELSE [@ EXCEPT !.model = m, !.pinned = TRUE]]

ClearModel(c, n) ==
    [c EXCEPT !.prov[n] =
        IF @.mode = "cli-executor" THEN NoEntry
        ELSE [@ EXCEPT !.model = IF n \in API THEN DefaultModel[n] ELSE "", !.pinned = FALSE]]

SetURL(c, u) == [c EXCEPT !.url = u]
SetDefault(c, n) == [c EXCEPT !.default = n]
SignIn(c) == [c EXCEPT !.auth = TRUE]
SignOut(c) == [c EXCEPT !.auth = FALSE]

\* What the commands that save do to what they loaded.
Edit(cmd, c) ==
    CASE cmd.op = "login"     -> SignIn(c)
      [] cmd.op = "logout"    -> SignOut(c)
      [] cmd.op = "setURL"    -> SetURL(c, cmd.arg)
      [] cmd.op = "telemetry" -> Ask(c, cmd.arg)
      [] cmd.op = "default"   -> SetDefault(c, cmd.name)
      [] cmd.op = "apiLogin"  -> APILogin(c, cmd.name)
      [] cmd.op = "apiLogout" -> APILogout(c, cmd.name)
      [] cmd.op = "pin"       -> PinModel(c, cmd.name, cmd.arg)
      [] cmd.op = "clear"     -> ClearModel(c, cmd.name)

\* auditExecutorFromConfig, and the model an executor is run with.
Executor(c) == IF c.default \in CLI THEN c.default ELSE Fallback
PinnedModel(c, n) == IF c.prov[n].pinned THEN c.prov[n].model ELSE ""
\* What cbx llm model shows as configured, and not as a default.
Configured(c, n) ==
    IF c.prov[n] # NoEntry /\ c.prov[n].model # "" /\ c.prov[n].pinned THEN c.prov[n].model ELSE ""
=============================================================================
