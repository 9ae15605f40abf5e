-------------------------------- MODULE Shell --------------------------------
(***************************************************************************)
(* The cbx commands of one user (pkg/cmd, internal/core/auth,              *)
(* internal/config, internal/llm), in several terminals at once.  They     *)
(* share the configuration file, the login token and the API keys of the   *)
(* OS keyring, without locks; each loads the configuration, does its work  *)
(* and saves what it has loaded.  One action per access to what is shared. *)
(***************************************************************************)
EXTENDS Settings, FiniteSets

CONSTANTS
    Procs,
    EnvURL,       \* CBX_API_URL of each process, "" when unset
    Commands,     \* [op, name, arg]
    Files, Keys,  \* the configurations a user may start from, and their stored keys
    MaxCommands   \* a bound: commands the users enter

VARIABLES
    file,   \* the configuration on disk
    token,  \* whether the keyring holds a login token
    key,    \* and each API key
    proc,
    left

\* History: whether two commands overlapped, whether an API logout was cut short, whether a
\* logout has ended since the last login began, what a command that ran beside it may bring
\* back, the pin in force for each name, every model ever pinned for it, the stores when the
\* command began that has them to itself.
VARIABLES overlapped, cut, signedOut, raced, pin, ever, before

stores == <<file, token, key>>
history == <<overlapped, cut, signedOut, raced, pin, ever, before>>
vars == <<stores, proc, left, history>>

(* The command lines. *)
Cmd(op, name, arg) == [op |-> op, name |-> name, arg |-> arg]
AccountCommands == [op : {"login"}, name : {"browser", "device"}, arg : {""}]
                   \cup [op : {"logout", "status"}, name : {""}, arg : {""}]
ConfigCommands(urls) == [op : {"setURL"}, name : {""}, arg : urls]
                        \cup [op : {"doctor"}, name : {""}, arg : {""}]
TelemetryCommands == [op : {"telemetry"}, name : {""}, arg : {"on", "off"}]
\* llm api login has the key from --token or CBX_LLM_TOKEN, or asks for it.
KeyCommands == [op : {"apiLogin"}, name : API, arg : {"given", "typed"}]
               \cup [op : {"apiTest", "apiLogout"}, name : API, arg : {""}]
ModelCommands(models) == [op : {"show", "clear", "default"}, name : Names, arg : {""}]
                         \cup [op : {"pin"}, name : Names, arg : models]
\* cbx audit aws, with or without --llm-executor, and cbx llm cli test.
ExecutorCommands == [op : {"run"}, name : CLI \cup {""}, arg : {""}]
NoCmd == Cmd("none", "", "")

ASSUME ShellAssumption ==
    /\ LET args == {c.arg : c \in Commands} IN
       Commands \subseteq AccountCommands \cup ConfigCommands(args) \cup TelemetryCommands
                         \cup KeyCommands \cup ModelCommands(args) \cup ExecutorCommands
    /\ Fallback \in CLI /\ MaxCommands \in Nat
    \* The configurations are of the file's type, and their keys those of a past login.
    /\ Names \subseteq Text /\ EnvURL \in [Procs -> Text] /\ {c.arg : c \in Commands} \subseteq Text
    /\ Files \subseteq Configs /\ Keys \in [Files -> [API -> BOOLEAN]]
    /\ \A f \in Files, n \in API : f.prov[n].in => Keys[f][n]
    \* A replacement is a model on sale.
    /\ DefaultModel \in [API -> Text]
    /\ \A m \in DOMAIN Replacement : m # "" /\ Replacement[m] \in Text \ DOMAIN Replacement

\* A process: its command, the step it is at, what it has loaded, its callback server,
\* the model it runs an executor with, whether it failed to read; whether it ran alone, and
\* whether a logout ran beside a login or a status.
Rest == [cmd |-> NoCmd, at |-> "idle", cfg |-> Empty, flow |-> {}, model |-> "",
         blind |-> FALSE, alone |-> FALSE, met |-> FALSE]

At(p, step) == proc[p].at = step
Active(p) == ~At(p, "idle")
Is(p, op) == proc[p].cmd.op = op
Name(p) == proc[p].cmd.name

Snapshot == [file |-> file, token |-> token, key |-> key]

Init ==
    /\ \E f \in Files : file = f /\ key = Keys[f] /\ token = f.auth
    /\ proc = [p \in Procs |-> Rest] /\ left = MaxCommands
    /\ overlapped = FALSE /\ cut = FALSE /\ signedOut = FALSE /\ raced = {}
    /\ pin = [n \in Names |-> PinnedModel(file, n)] /\ ever = [n \in Names |-> {pin[n]} \ {""}]
    /\ before = Snapshot

Go(p, step) == proc' = [proc EXCEPT ![p].at = step]
Succeed(p) == Go(p, "ok")
Fail(p) == Go(p, "failed")

-----------------------------------------------------------------------------
(* A command from its start to its exit code. *)

\* The first thing a command does with what is shared.
First(c) ==
    CASE c.op = "apiLogin" -> IF c.arg = "typed" THEN "enterKey" ELSE "validate"
      [] c.op = "apiTest"  -> "getKey"
      [] c.op = "run" /\ c.name # "" -> "model"
      [] OTHER -> "load"

\* The commands that store a token.
TokenOps == {"login", "status"}

\* PersistentPreRunE and what MaybePromptFirstRun reads: on a terminal every command but
\* those about telemetry asks first, unless the user has been asked.
Begin(p, c) ==
    /\ left > 0 /\ ~Active(p) /\ left' = left - 1
    /\ \E ask \in BOOLEAN : \E busy \in {\E q \in Procs : Active(q)} :
       /\ ask => file.telemetry = "unasked" /\ c.op # "telemetry"
       /\ overlapped' = (overlapped \/ busy)
       /\ before' = IF busy THEN before ELSE Snapshot
       /\ proc' = [q \in Procs |->
            IF q # p THEN [proc[q] EXCEPT !.alone = FALSE,
                                          !.met = @ \/ (Is(q, "logout") /\ c.op \in TokenOps)]
            ELSE [Rest EXCEPT !.cmd = c, !.alone = ~busy,
                              !.met = c.op = "logout" /\ \E r \in Procs : proc[r].cmd.op \in TokenOps,
                              !.at = IF ask THEN "asked" ELSE First(c),
                              !.cfg = IF ask THEN Loaded(file, EnvURL[p]) ELSE @]]
    /\ signedOut' = (signedOut /\ c.op # "login")
    /\ ever' = [n \in Names |-> ever[n] \cup IF c.op = "pin" /\ c.name = n THEN {c.arg} ELSE {}]
    /\ UNCHANGED <<stores, cut, raced, pin>>

\* The answer is saved in the configuration loaded before the question, or lost.
Answer(p) ==
    /\ At(p, "asked") /\ Go(p, First(proc[p].cmd))
    /\ \/ \E a \in {"on", "off"} : file' = Ask(proc[p].cfg, a)
       \/ UNCHANGED file
    /\ before' = IF proc[p].alone THEN [before EXCEPT !.file = file'] ELSE before
    /\ UNCHANGED <<token, key, left, overlapped, cut, signedOut, raced, pin, ever>>

\* Execute's tail and main.
Exit(p) ==
    /\ At(p, "ok") \/ At(p, "failed")
    /\ proc' = [proc EXCEPT ![p] = Rest]
    /\ UNCHANGED <<stores, left, history>>

Kill(p) ==
    /\ Active(p)
    /\ proc' = [proc EXCEPT ![p] = Rest]
    /\ cut' = (cut \/ (Is(p, "apiLogout") /\ At(p, "save")))
    /\ UNCHANGED <<stores, left, overlapped, signedOut, raced, pin, ever, before>>

-----------------------------------------------------------------------------
(* config.Load and config.Save, which replaces the file by a rename. *)

AfterLoad(p) ==
    CASE proc[p].cmd.op \in {"login", "logout", "status"} -> "keyring"
      [] Is(p, "apiLogout") -> "deleteKey"
      [] Is(p, "show")      -> "ok"
      [] Is(p, "doctor")    -> "checks"
      [] Is(p, "run")       -> "model"
      [] OTHER              -> "save"

\* llm default takes an entry or an executor on the PATH; llm model --clear has nothing to
\* save without an entry; an audit without --llm-executor takes the configured one.
Load(p) ==
    LET c == Loaded(file, EnvURL[p])
        bare == Name(p) \in Names /\ c.prov[Name(p)] = NoEntry
    IN  /\ At(p, "load")
        /\ \/ proc' = [proc EXCEPT ![p].cfg = c,
                  ![p].at = IF Is(p, "clear") /\ bare THEN "ok" ELSE AfterLoad(p),
                  ![p].cmd.name = IF Is(p, "run") THEN Executor(c) ELSE @,
                  ![p].model = IF Is(p, "show") THEN Configured(c, Name(p)) ELSE @]
           \/ Is(p, "default") /\ bare /\ Fail(p)
        /\ UNCHANGED <<stores, left, history>>

\* The file cannot be read: an audit goes on with claude-code.
LoadFails(p) ==
    /\ At(p, "load")
    /\ IF Is(p, "run")
       THEN proc' = [proc EXCEPT ![p].at = "model", ![p].cmd.name = Fallback, ![p].blind = TRUE]
       ELSE Fail(p)
    /\ UNCHANGED <<stores, left, history>>

\* The pin in force after a command that saved.
PinAfter(cmd) ==
    IF cmd.op \in {"pin", "clear", "apiLogin", "apiLogout"}
    THEN [pin EXCEPT ![cmd.name] = IF cmd.op = "pin" THEN cmd.arg ELSE ""]
    ELSE pin

\* What the commands that ran beside a logout may bring back: those that store a token the
\* token, any the account, with the configuration it has loaded.
BroughtBack(p) == {x \in {"token", "account"} : IF x = "token" THEN proc[p].met ELSE ~proc[p].alone}

Save(p) ==
    /\ At(p, "save") /\ Succeed(p)
    /\ file' = Edit(proc[p].cmd, proc[p].cfg)
    /\ pin' = PinAfter(proc[p].cmd)
    /\ signedOut' = (signedOut \/ Is(p, "logout"))
    /\ raced' = IF Is(p, "logout") THEN BroughtBack(p) ELSE raced
    /\ UNCHANGED <<token, key, left, overlapped, cut, ever, before>>

\* Mutant: the error of config.Save is dropped.
SaveFails_Dropped(p) ==
    /\ At(p, "save") /\ Succeed(p)
    /\ cut' = (cut \/ Is(p, "apiLogout"))
    /\ UNCHANGED <<stores, left, overlapped, signedOut, raced, pin, ever, before>>

SaveFails(p) ==
    /\ At(p, "save") /\ Fail(p)
    /\ cut' = (cut \/ Is(p, "apiLogout"))
    /\ UNCHANGED <<stores, left, overlapped, signedOut, raced, pin, ever, before>>

-----------------------------------------------------------------------------
\* NewKeyring: the backend asked for, or the first of the system's that opens.
OpenKeyring(p) ==
    /\ At(p, "keyring")
    /\ \/ Fail(p)
       \/ Is(p, "login") /\ Go(p, IF Name(p) = "device" THEN "device" ELSE "flow")
       \/ Is(p, "logout") /\ Go(p, "deleteToken")
       \/ Is(p, "status") /\ Go(p, "hasToken")
    /\ UNCHANGED <<stores, left, history>>

(* cbx login: the browser comes back to a callback server that answers once, or the user
   pastes a code; --device-code asks until the code is used or expires. *)

\* Mutant: a request that is refused takes the only turn and tells nobody.
Callback_Silent(p) ==
    /\ At(p, "flow") /\ "served" \notin proc[p].flow
    /\ \E x \in {{"code"}, {}} : proc' = [proc EXCEPT ![p].flow = @ \cup {"served"} \cup x]
    /\ UNCHANGED <<stores, left, history>>

\* The first request decides: a code, or another state, a denial, no code.
Callback(p) ==
    /\ At(p, "flow") /\ "served" \notin proc[p].flow
    /\ \E x \in {"code", "err"} : proc' = [proc EXCEPT ![p].flow = @ \cup {"served", x}]
    /\ UNCHANGED <<stores, left, history>>

ServeFails(p) ==
    /\ At(p, "flow") /\ proc' = [proc EXCEPT ![p].flow = @ \cup {"err"}]
    /\ UNCHANGED <<stores, left, history>>

\* The select of RunPKCEFlow.
FlowEnds(p) ==
    /\ At(p, "flow")
    /\ \/ "err" \in proc[p].flow /\ Fail(p)
       \/ "code" \in proc[p].flow /\ Go(p, "exchange")
    /\ UNCHANGED <<stores, left, history>>

Exchange(p) ==
    /\ At(p, "exchange") /\ (Fail(p) \/ Go(p, "storeToken"))
    /\ UNCHANGED <<stores, left, history>>

Device(p) ==
    /\ At(p, "device") /\ (Fail(p) \/ Go(p, "storeToken"))
    /\ UNCHANGED <<stores, left, history>>

StoreToken(p) ==
    /\ At(p, "storeToken")
    /\ \/ token' = TRUE /\ Go(p, "save")
       \/ UNCHANGED token /\ Fail(p)
    /\ UNCHANGED <<file, key, left, history>>

\* cbx logout: a keyring without a token refuses to delete it.
DeleteToken(p) ==
    /\ At(p, "deleteToken")
    /\ \/ token /\ token' = FALSE /\ Go(p, "save")
       \/ UNCHANGED token /\ Fail(p)
    /\ UNCHANGED <<file, key, left, history>>

(* cbx status: is there a token, read it, ask the backend with it. *)

HasToken(p) ==
    /\ At(p, "hasToken")
    /\ (Succeed(p) \/ (token /\ Go(p, "loadToken")))
    /\ UNCHANGED <<stores, left, history>>

LoadToken(p) ==
    /\ At(p, "loadToken")
    /\ (Succeed(p) \/ (token /\ Go(p, "request")))
    /\ UNCHANGED <<stores, left, history>>

\* savingTokenSource stores the token before every request, refreshed or not, unless it
\* cannot be refreshed; a store that fails is only warned about.
SaveToken(p) ==
    /\ At(p, "request")
    /\ \/ Fail(p) /\ UNCHANGED token
       \/ Go(p, "answer") /\ token' \in {TRUE, token}
    /\ UNCHANGED <<file, key, left, history>>

\* 200, 401, anything else, none.
Answered(p) ==
    /\ At(p, "answer") /\ (Succeed(p) \/ Fail(p))
    /\ UNCHANGED <<stores, left, history>>

-----------------------------------------------------------------------------
(* cbx llm api login, test and logout. *)

GetKey(p) ==
    /\ At(p, "getKey") /\ (Fail(p) \/ (key[Name(p)] /\ Go(p, "validate")))
    /\ UNCHANGED <<stores, left, history>>

\* The key typed at the prompt; in JSON mode there is none.
EnterKey(p) ==
    /\ At(p, "enterKey") /\ (Fail(p) \/ Go(p, "validate"))
    /\ UNCHANGED <<stores, left, history>>

\* The provider is asked whether the key is good.
Validate(p) ==
    /\ At(p, "validate")
    /\ (Fail(p) \/ Go(p, IF Is(p, "apiLogin") THEN "storeKey" ELSE "ok"))
    /\ UNCHANGED <<stores, left, history>>

\* Mutant: a key that cannot be stored does not stop the login.
StoreKey_Ignored(p) ==
    /\ At(p, "storeKey") /\ Go(p, "load")
    /\ \/ key' = [key EXCEPT ![Name(p)] = TRUE]
       \/ UNCHANGED key
    /\ UNCHANGED <<file, token, left, history>>

StoreKey(p) ==
    /\ At(p, "storeKey")
    /\ \/ key' = [key EXCEPT ![Name(p)] = TRUE] /\ Go(p, "load")
       \/ UNCHANGED key /\ Fail(p)
    /\ UNCHANGED <<file, token, left, history>>

\* A failure is ignored.
DeleteKey(p) ==
    /\ At(p, "deleteKey") /\ Go(p, "save")
    /\ \/ key' = [key EXCEPT ![Name(p)] = FALSE]
       \/ UNCHANGED key
    /\ UNCHANGED <<file, token, left, history>>

(* cbx audit aws, cbx llm cli test: a second Load finds the model, a prompt tries it. *)

Model(p) ==
    /\ At(p, "model")
    /\ \/ proc' = [proc EXCEPT ![p].at = "probe",
                        ![p].model = PinnedModel(Loaded(file, EnvURL[p]), Name(p))]
       \/ proc' = [proc EXCEPT ![p].at = "probe", ![p].blind = TRUE]
    /\ UNCHANGED <<stores, left, history>>

Probe(p) ==
    /\ At(p, "probe") /\ (Succeed(p) \/ Fail(p))
    /\ UNCHANGED <<stores, left, history>>

\* cbx doctor: it changes nothing.
Checks(p) ==
    /\ At(p, "checks") /\ (Succeed(p) \/ Fail(p))
    /\ UNCHANGED <<stores, left, history>>

-----------------------------------------------------------------------------
\* What waits for somebody else as long as it takes: the telemetry question, the prompt for
\* the key, the device flow (its HTTP client has no timeout), an OS keyring that asks the
\* user to unlock it, an executor whose children hold its pipe.
Outside(p) ==
    \/ Answer(p) \/ EnterKey(p) \/ Device(p) \/ Probe(p)
    \/ OpenKeyring(p) \/ StoreToken(p) \/ DeleteToken(p) \/ HasToken(p) \/ LoadToken(p) \/ SaveToken(p)
    \/ GetKey(p) \/ StoreKey(p) \/ DeleteKey(p)

\* What the program does by itself: files, and HTTP clients that answer or time out.
Own(p) ==
    \/ Load(p) \/ LoadFails(p) \/ Save(p) \/ SaveFails(p)
    \/ FlowEnds(p) \/ Exchange(p) \/ Answered(p) \/ Validate(p) \/ Model(p) \/ Checks(p) \/ Exit(p)

Done == left = 0 /\ (\A p \in Procs : ~Active(p)) /\ UNCHANGED vars

Next ==
    \/ \E p \in Procs :
        \/ Own(p) \/ Outside(p) \/ Kill(p) \/ Callback(p) \/ ServeFails(p)
        \/ \E c \in Commands : Begin(p, c)
    \/ Done

\* Fair is the program's own part only.
Spec == Init /\ [][Next]_vars /\ \A p \in Procs : WF_vars(Own(p))

-----------------------------------------------------------------------------
(* Properties. *)

Alone(p, exit) == proc[p].alone /\ At(p, exit)

\* The stores agree: as long as commands do not overlap, a provider that counts as logged
\* in has its key in the keyring, unless a logout was killed, or failed to save, between
\* the two.  And once any logout has ended nothing brings token or account back before the
\* next login begins, but what ran beside it: a login or a status the token, which a status
\* stores anew with every request, any command the account, with the configuration it has
\* loaded (llm api login, runLogin, runLogout, savingTokenSource).  A logout killed between
\* token and account is none that has ended.
StoresAgree ==
    /\ ~overlapped /\ ~cut => \A n \in API : file.prov[n].in =>
         key[n] \/ \E p \in Procs : Is(p, "apiLogout") /\ Name(p) = n /\ At(p, "save")
    /\ signedOut => (token => "token" \in raced) /\ (file.auth => "account" \in raced)

Edits(cmd) == cmd.op \in {"login", "logout", "setURL", "telemetry", "default",
                          "apiLogin", "apiLogout", "pin", "clear"}
\* The configuration on disk has the command's edit, and no other, but for what Load has put
\* in place of what was stored: whoever saves also saves the replacement of a retired model
\* and his CBX_API_URL.  The answer to the telemetry question counts as found.
AllDone(p) ==
    LET cmd == proc[p].cmd  old == Loaded(before.file, EnvURL[p])
    IN  \/ Edits(cmd) /\ file = Edit(cmd, old)
        \/ ~Edits(cmd) /\ file = before.file
        \/ cmd.op = "clear" /\ old.prov[cmd.name] = NoEntry /\ file = before.file

\* All or nothing, of a command that had the stores to itself.  Exit code 0: the
\* configuration has its whole edit, and a login left its token, a logout none, llm api
\* login its key; llm api logout promises nothing of the key, whose deletion may fail
\* unseen (llm.go:512).  Any other exit code: the configuration is as it was, the keyring
\* may be ahead of it.  Either way token and keys of others are as they were (every RunE
\* returns the error of its Save).
AllOrNothing ==
    \A p \in Procs :
        /\ Alone(p, "ok") => AllDone(p)
        /\ Alone(p, "ok") /\ Is(p, "login") => token
        /\ Alone(p, "ok") /\ Is(p, "logout") => ~token
        /\ Alone(p, "ok") /\ Is(p, "apiLogin") => key[Name(p)]
        /\ Alone(p, "failed") => file = before.file
        /\ Alone(p, "ok") \/ Alone(p, "failed") =>
             /\ token = before.token \/ proc[p].cmd.op \in {"login", "logout"}
             /\ \A n \in API : key[n] = before.key[n]
                               \/ (proc[p].cmd.op \in {"apiLogin", "apiLogout"} /\ n = Name(p))

\* The pin is respected: the model an executor is run with, and the one cbx llm model calls
\* configured, is one the user pinned for it or the replacement of one, under any
\* interleaving and crash; without overlap it is the pin in force, and never a retired
\* model (resolveAuditLLMModel, pinnedExecutorModel, modelSourceFor, migrateRetiredModels).
\* That an overlapping command has saved an earlier pin over a later one is not excluded:
\* the configuration is saved whole and without a lock.
PinRespected ==
    \A p \in Procs : (Is(p, "run") /\ At(p, "probe")) \/ (Is(p, "show") /\ At(p, "ok")) =>
        /\ proc[p].model \in {Current(m) : m \in ever[Name(p)]} \cup {""}
        /\ ~overlapped /\ ~proc[p].blind => proc[p].model = Current(pin[Name(p)])

\* A login nobody has come back to, or a step of Outside.
Waiting(p) ==
    \/ At(p, "flow") /\ proc[p].flow = {}
    \/ proc[p].at \in {"asked", "enterKey", "device", "probe", "keyring", "storeToken", "deleteToken",
                       "hasToken", "loadToken", "request", "getKey", "storeKey", "deleteKey"}

\* Every command ends that nobody outside keeps waiting for ever: whatever its callback
\* server is sent, and whatever the other terminals do (RunPKCEFlow, startCallbackServer).
CommandReturns == \A p \in Procs : []<>~Waiting(p) => (Active(p) ~> ~Active(p))
=============================================================================
