----------------------------- MODULE Shell_proofs -----------------------------
(***************************************************************************)
(* The stores agree, commands are all or nothing and pins are respected,   *)
(* for any configurations, commands, names and number of terminals.        *)
(***************************************************************************)
EXTENDS Shell, TLAPS

-----------------------------------------------------------------------------
(* The inductive invariant. *)

Ops == {"login", "logout", "status", "setURL", "doctor", "telemetry", "apiLogin", "apiTest",
        "apiLogout", "show", "clear", "default", "pin", "run"}
Steps == {"asked", "load", "keyring", "device", "flow", "exchange", "storeToken", "deleteToken",
          "hasToken", "loadToken", "request", "answer", "enterKey", "validate", "storeKey",
          "getKey", "deleteKey", "model", "probe", "checks", "save", "ok", "failed"}

CommandType == [op : Ops \cup {"none"}, name : Text, arg : Text]
ProcType == [cmd : CommandType, at : Steps \cup {"idle"}, cfg : Configs,
             flow : SUBSET {"served", "code", "err"}, model : Text, blind : BOOLEAN,
             alone : BOOLEAN, met : BOOLEAN]

TypeOK ==
    /\ file \in Configs /\ before \in [file : Configs, token : BOOLEAN, key : [API -> BOOLEAN]]
    /\ token \in BOOLEAN /\ key \in [API -> BOOLEAN]
    /\ proc \in [Procs -> ProcType] /\ left \in Nat
    /\ overlapped \in BOOLEAN /\ cut \in BOOLEAN /\ signedOut \in BOOLEAN
    /\ raced \in SUBSET {"token", "account"}
    /\ pin \in [Names -> Text] /\ ever \in [Names -> SUBSET Text]

\* Which commands can be at a step, and which names they can have there.
OpInv(cmd, at) ==
    /\ cmd.op \in Ops /\ at \in Steps
    /\ at = "keyring" => cmd.op \in {"login", "logout", "status"}
    /\ at \in {"device", "flow", "exchange", "storeToken"} => cmd.op = "login"
    /\ at = "deleteToken" => cmd.op = "logout"
    /\ at \in {"hasToken", "loadToken", "request", "answer"} => cmd.op = "status"
    /\ at = "enterKey" => cmd.op = "apiLogin"
    /\ at = "validate" => cmd.op \in {"apiLogin", "apiTest"}
    /\ at = "getKey" => cmd.op = "apiTest"
    /\ at = "load" => cmd.op # "apiTest"
    /\ at = "storeKey" => cmd.op = "apiLogin"
    /\ at = "deleteKey" => cmd.op = "apiLogout"
    /\ at = "checks" => cmd.op = "doctor"
    /\ at \in {"model", "probe"} => cmd.op = "run" /\ cmd.name \in CLI
    /\ at = "save" => Edits(cmd)
    /\ cmd.op \in {"apiLogin", "apiTest", "apiLogout"} => cmd.name \in API
    /\ cmd.op \in {"show", "clear", "default", "pin"} => cmd.name \in Names
    /\ cmd.op = "pin" => cmd.arg \in ever[cmd.name]
    /\ cmd.op = "run" => cmd.name \in CLI \cup {""}
    /\ cmd.op = "telemetry" => cmd.arg \in {"on", "off"}

CmdInv ==
    \A p \in Procs :
      /\ Active(p) => OpInv(proc[p].cmd, proc[p].at)
      /\ ~Active(p) => proc[p] = Rest
      /\ proc[p].at \notin {"probe", "ok", "failed"} => proc[p].model = ""

\* A process that is alone has been so since it began, and without overlap all are.
AloneInv ==
    \A p \in Procs :
      /\ proc[p].alone => Active(p) /\ \A q \in Procs : Active(q) => q = p
      /\ ~overlapped /\ Active(p) => proc[p].alone

\* The steps after Load at which the configuration loaded is still to be used.
Holding == {"asked", "keyring", "device", "flow", "exchange", "storeToken", "deleteToken",
            "deleteKey", "save"}

\* What a process that is alone holds is what the stores hold.
Fresh(p) ==
    proc[p].alone =>
      /\ ~At(p, "ok") => file = before.file
      /\ proc[p].at \in Holding => proc[p].cfg = Loaded(file, EnvURL[p])
      /\ At(p, "ok") => AllDone(p)
      /\ Is(p, "login") /\ proc[p].at \in {"save", "ok"} => token
      /\ Is(p, "logout") /\ proc[p].at \in {"save", "ok"} => ~token
      /\ Is(p, "apiLogin") /\ proc[p].at \in {"load", "save", "ok"} => key[Name(p)]
      /\ At(p, "request") => token
      /\ token = before.token \/ proc[p].cmd.op \in {"login", "logout"}
      /\ \A n \in API : key[n] = before.key[n]
                        \/ (proc[p].cmd.op \in {"apiLogin", "apiLogout"} /\ n = Name(p))
FreshInv == \A p \in Procs : Fresh(p)

\* Nobody stores a token beside a logout that has not met a login or a status.
MetInv ==
    \A p \in Procs : Is(p, "logout") /\ ~proc[p].met =>
      /\ \A q \in Procs : proc[q].cmd.op \notin TokenOps
      /\ At(p, "save") => ~token

\* After a logout no process is left that could undo it, but those that ran beside it.
OutInv ==
    /\ signedOut /\ "token" \notin raced =>
         ~token /\ \A p \in Procs : ~Is(p, "login") /\ ~At(p, "request")
    /\ signedOut /\ "account" \notin raced =>
         ~file.auth /\ \A p \in Procs : ~Is(p, "login") /\ (At(p, "ok") \/ ~proc[p].cfg.auth)

KeyInv ==
    ~overlapped /\ ~cut => \A n \in API : file.prov[n].in =>
      key[n] \/ \E p \in Procs : Is(p, "apiLogout") /\ Name(p) = n /\ At(p, "save")

\* Every pin, on disk or in memory, is one the user has set.
Set(n) == ever[n] \cup {Current(m) : m \in ever[n]} \cup {""}
EverInv ==
    \A n \in Names :
      /\ file.prov[n].pinned => file.prov[n].model \in Set(n)
      /\ \A p \in Procs : proc[p].cfg.prov[n].pinned => proc[p].cfg.prov[n].model \in Set(n)

\* Without overlap the pin on disk is the one in force.
InForce(c, n) == IF c.prov[n].pinned THEN Current(c.prov[n].model) ELSE ""
ForceInv == ~overlapped => \A n \in Names : InForce(file, n) = Current(pin[n])

\* What a process does next.
Step(p) == Own(p) \/ Outside(p)

Inv == /\ CmdInv /\ AloneInv /\ FreshInv /\ MetInv /\ OutInv /\ KeyInv /\ EverInv /\ ForceInv
       /\ PinRespected

USE DEF Active, At, Is, Name

LEMMA ConstantTypes ==
    /\ Names \subseteq Text /\ EnvURL \in [Procs -> Text] /\ Fallback \in CLI
    /\ DefaultModel \in [API -> Text] /\ Files \subseteq Configs /\ MaxCommands \in Nat
  BY ShellAssumption

-----------------------------------------------------------------------------
(* What the settings' operators do to a configuration. *)

LEMMA CurrentIs ==
    ASSUME NEW m \in Text
    PROVE  /\ Current(m) \in Text /\ Current(Current(m)) = Current(m)
           /\ Current("") = ""
  BY ShellAssumption DEF Current

LEMMA LoadedIs ==
    ASSUME NEW c \in Configs, NEW u \in Text
    PROVE  /\ Loaded(c, u) \in Configs
           /\ Loaded(c, u).auth = c.auth
           /\ \A n \in Names :
                /\ Loaded(c, u).prov[n].in = c.prov[n].in
                /\ Loaded(c, u).prov[n].pinned = c.prov[n].pinned
                /\ Loaded(c, u).prov[n].model = Current(c.prov[n].model)
<1> DEFINE e(n) == [c.prov[n] EXCEPT !.model = Current(@)]
           v == IF u = "" THEN c.url ELSE u
<1>1. \A n \in Names : c.prov[n] \in Entries
  BY DEF Configs
<1>2. \A n \in Names : /\ e(n) \in Entries /\ e(n).in = c.prov[n].in
                       /\ e(n).pinned = c.prov[n].pinned /\ e(n).model = Current(c.prov[n].model)
  BY <1>1, CurrentIs DEF Entries
<1>3. Loaded(c, u) = [c EXCEPT !.prov = [n \in Names |-> e(n)], !.url = v]
  BY DEF Loaded
<1>4. v \in Text
  BY DEF Configs
<1> HIDE DEF e, v
<1>5. Loaded(c, u) = [auth |-> c.auth, url |-> v, prov |-> [n \in Names |-> e(n)],
                      default |-> c.default, telemetry |-> c.telemetry]
  BY <1>3 DEF Configs
<1>6. [n \in Names |-> e(n)] \in [Names -> Entries]
  BY <1>2
<1>7. c.auth \in BOOLEAN /\ c.default \in Text /\ c.telemetry \in {"unasked", "on", "off"}
  BY DEF Configs
<1>8. Loaded(c, u) \in Configs
  BY <1>4, <1>5, <1>6, <1>7 DEF Configs
<1>9. Loaded(c, u).auth = c.auth /\ \A n \in Names : Loaded(c, u).prov[n] = e(n)
  BY <1>5
<1> QED
  BY <1>2, <1>8, <1>9

\* The commands that save, and the names they may be about.
Editable(cmd) ==
    /\ cmd \in CommandType /\ Edits(cmd)
    /\ cmd.op \in {"apiLogin", "apiLogout"} => cmd.name \in API
    /\ cmd.op \in {"clear", "default", "pin"} => cmd.name \in Names
    /\ cmd.op = "telemetry" => cmd.arg \in {"on", "off"}
PinOps == {"pin", "clear", "apiLogin", "apiLogout"}

\* An edit writes the entry of one name, if any, and signs in or out if it is to.
LEMMA NoEntryIs == NoEntry \in Entries /\ ~NoEntry.in /\ ~NoEntry.pinned
  BY DEF NoEntry, Entry, Entries, Text

LEMMA NewEntryIs ==
    ASSUME NEW m \in Text, NEW pinned \in BOOLEAN, NEW in \in BOOLEAN, NEW mode \in {"none", "api-key", "cli-executor"}
    PROVE  LET e == Entry(m, pinned, in, mode)
           IN  e \in Entries /\ e.model = m /\ e.pinned = pinned /\ e.in = in
  BY DEF Entry, Entries

LEMMA PinEditIs ==
    ASSUME NEW c \in Configs, NEW cmd, Editable(cmd), cmd.op \in PinOps
    PROVE  LET d == Edit(cmd, c)
           IN  /\ d \in Configs /\ d.auth = c.auth
               /\ cmd.name \in Names
               /\ \A m \in Names : m # cmd.name => d.prov[m] = c.prov[m]
               /\ d.prov[cmd.name].in => c.prov[cmd.name].in \/ cmd.op = "apiLogin"
               /\ cmd.op = "apiLogout" => ~d.prov[cmd.name].in
               /\ d.prov[cmd.name].pinned <=> cmd.op = "pin"
               /\ cmd.op = "pin" => d.prov[cmd.name].model = cmd.arg
<1>1. PICK n \in Names : n = cmd.name
  BY DEF Editable, PinOps, Names
<1>2. c.prov[n] \in Entries /\ c.default \in Text
  BY DEF Configs
<1>3. n \in Text /\ cmd.arg \in Text
  BY ConstantTypes DEF Editable, CommandType
<1>4. CASE cmd.op = "apiLogin"
  <2> DEFINE e == Entry(DefaultModel[n], FALSE, TRUE, "api-key")
             d == IF c.default = "" THEN n ELSE c.default
  <2>1. Edit(cmd, c) = APILogin(c, n)
    BY <1>1, <1>4 DEF Edit
  <2>2. Edit(cmd, c) = [c EXCEPT !.prov[n] = e, !.default = d]
    BY <2>1 DEF APILogin
  <2>3. n \in API
    BY <1>1, <1>4 DEF Editable
  <2>4. e \in Entries /\ ~e.pinned
    BY <2>3, ConstantTypes, NewEntryIs
  <2>5. d \in Text
    BY <1>2, <1>3
  <2> HIDE DEF e, d
  <2>6. /\ Edit(cmd, c) \in Configs /\ Edit(cmd, c).auth = c.auth /\ Edit(cmd, c).prov[n] = e
        /\ \A m \in Names : m # n => Edit(cmd, c).prov[m] = c.prov[m]
    <3>1. Edit(cmd, c).auth = c.auth /\ Edit(cmd, c).prov[n] = e
      BY <2>2, <2>4, <2>5 DEF Configs
    <3>2. \A m \in Names : m # n => Edit(cmd, c).prov[m] = c.prov[m]
      BY <2>2, <2>4, <2>5 DEF Configs
    <3>3. Edit(cmd, c) \in Configs
      BY <2>2, <2>4, <2>5 DEF Configs
    <3> QED
      BY <3>1, <3>2, <3>3
  <2> QED
    BY <1>1, <1>4, <2>4, <2>6
<1>5. CASE cmd.op = "apiLogout"
  <2> DEFINE d == IF c.default = n THEN "" ELSE c.default
  <2>1. Edit(cmd, c) = APILogout(c, n)
    BY <1>1, <1>5 DEF Edit
  <2>2. Edit(cmd, c) = [c EXCEPT !.prov[n] = NoEntry, !.default = d]
    BY <2>1 DEF APILogout
  <2>3. d \in Text
    BY <1>2 DEF Text
  <2> HIDE DEF d
  <2>6. /\ Edit(cmd, c) \in Configs /\ Edit(cmd, c).auth = c.auth /\ Edit(cmd, c).prov[n] = NoEntry
        /\ \A m \in Names : m # n => Edit(cmd, c).prov[m] = c.prov[m]
    <3>1. Edit(cmd, c).auth = c.auth /\ Edit(cmd, c).prov[n] = NoEntry
      BY <2>2, <2>3, NoEntryIs DEF Configs
    <3>2. \A m \in Names : m # n => Edit(cmd, c).prov[m] = c.prov[m]
      BY <2>2, <2>3, NoEntryIs DEF Configs
    <3>3. Edit(cmd, c) \in Configs
      BY <2>2, <2>3, NoEntryIs DEF Configs
    <3> QED
      BY <3>1, <3>2, <3>3
  <2> QED
    BY <1>1, <1>5, <2>6, NoEntryIs
<1>6. CASE cmd.op = "pin"
  <2> DEFINE e == IF c.prov[n] = NoEntry THEN Entry(cmd.arg, TRUE, FALSE, "cli-executor")
                  ELSE [c.prov[n] EXCEPT !.model = cmd.arg, !.pinned = TRUE]
  <2>1. Edit(cmd, c) = PinModel(c, n, cmd.arg)
    BY <1>1, <1>6 DEF Edit
  <2>2. Edit(cmd, c) = [c EXCEPT !.prov[n] = e]
    BY <2>1 DEF PinModel
  <2>3. e \in Entries /\ e.pinned /\ e.model = cmd.arg /\ (e.in => c.prov[n].in)
    <3>1. CASE c.prov[n] = NoEntry
      BY <1>3, <3>1, NewEntryIs
    <3>2. CASE c.prov[n] # NoEntry
      <4>1. e = [c.prov[n] EXCEPT !.model = cmd.arg, !.pinned = TRUE]
        BY <3>2
      <4> QED
        BY <1>2, <1>3, <4>1 DEF Entries
    <3> QED
      BY <3>1, <3>2
  <2> HIDE DEF e
  <2>6. /\ Edit(cmd, c) \in Configs /\ Edit(cmd, c).auth = c.auth /\ Edit(cmd, c).prov[n] = e
        /\ \A m \in Names : m # n => Edit(cmd, c).prov[m] = c.prov[m]
    <3>1. Edit(cmd, c).auth = c.auth /\ Edit(cmd, c).prov[n] = e
      BY <2>2, <2>3 DEF Configs
    <3>2. \A m \in Names : m # n => Edit(cmd, c).prov[m] = c.prov[m]
      BY <2>2, <2>3 DEF Configs
    <3>3. Edit(cmd, c) \in Configs
      BY <2>2, <2>3 DEF Configs
    <3> QED
      BY <3>1, <3>2, <3>3
  <2> QED
    BY <1>1, <1>6, <2>3, <2>6
<1>7. CASE cmd.op = "clear"
  <2> DEFINE d == IF n \in API THEN DefaultModel[n] ELSE ""
             e == IF c.prov[n].mode = "cli-executor" THEN NoEntry
                  ELSE [c.prov[n] EXCEPT !.model = d, !.pinned = FALSE]
  <2>1. Edit(cmd, c) = ClearModel(c, n)
    BY <1>1, <1>7 DEF Edit
  <2>2. Edit(cmd, c) = [c EXCEPT !.prov[n] = e]
    BY <2>1 DEF ClearModel
  <2>3. d \in Text
    BY ConstantTypes DEF Text
  <2>4. e \in Entries /\ ~e.pinned /\ (e.in => c.prov[n].in)
    <3> HIDE DEF d
    <3>1. CASE c.prov[n].mode = "cli-executor"
      BY <3>1, NoEntryIs
    <3>2. CASE c.prov[n].mode # "cli-executor"
      BY <1>2, <2>3, <3>2 DEF Entries
    <3> QED
      BY <3>1, <3>2
  <2> HIDE DEF e
  <2>6. /\ Edit(cmd, c) \in Configs /\ Edit(cmd, c).auth = c.auth /\ Edit(cmd, c).prov[n] = e
        /\ \A m \in Names : m # n => Edit(cmd, c).prov[m] = c.prov[m]
    <3>1. Edit(cmd, c).auth = c.auth /\ Edit(cmd, c).prov[n] = e
      BY <2>2, <2>4 DEF Configs
    <3>2. \A m \in Names : m # n => Edit(cmd, c).prov[m] = c.prov[m]
      BY <2>2, <2>4 DEF Configs
    <3>3. Edit(cmd, c) \in Configs
      BY <2>2, <2>4 DEF Configs
    <3> QED
      BY <3>1, <3>2, <3>3
  <2> QED
    BY <1>1, <1>7, <2>4, <2>6
<1> QED
  BY <1>4, <1>5, <1>6, <1>7 DEF PinOps

LEMMA OtherEditIs ==
    ASSUME NEW c \in Configs, NEW cmd, Editable(cmd), cmd.op \notin PinOps
    PROVE  LET d == Edit(cmd, c)
           IN  /\ d \in Configs /\ d.prov = c.prov
               /\ cmd.op # "login" => (d.auth => c.auth)
               /\ cmd.op = "logout" => ~d.auth
<1>1. cmd.arg \in Text /\ cmd.name \in Text
  BY DEF Editable, CommandType
<1>2. CASE cmd.op = "login"
  BY <1>2 DEF Edit, SignIn, Configs
<1>3. CASE cmd.op = "logout"
  BY <1>3 DEF Edit, SignOut, Configs
<1>4. CASE cmd.op = "setURL"
  BY <1>1, <1>4 DEF Edit, SetURL, Configs
<1>5. CASE cmd.op = "telemetry"
  BY <1>5 DEF Edit, Ask, Configs, Editable
<1>6. CASE cmd.op = "default"
  BY <1>1, <1>6 DEF Edit, SetDefault, Configs
<1> QED
  BY <1>2, <1>3, <1>4, <1>5, <1>6 DEF Editable, Edits, PinOps

-----------------------------------------------------------------------------
(* What a step of a process does. *)

\* What a user enters names what a command can name.
LEMMA CommandsAre ==
    ASSUME NEW c \in Commands
    PROVE  /\ c \in CommandType /\ c.op \in Ops
           /\ c.op \in {"apiLogin", "apiTest", "apiLogout"} => c.name \in API
           /\ c.op \in {"show", "clear", "default", "pin"} => c.name \in Names
           /\ c.op = "run" => c.name \in CLI \cup {""}
           /\ c.op = "telemetry" => c.arg \in {"on", "off"}
<1> DEFINE args == {d.arg : d \in Commands}
<1>1. c \in AccountCommands \cup ConfigCommands(args) \cup TelemetryCommands
           \cup KeyCommands \cup ModelCommands(args) \cup ExecutorCommands
  BY ShellAssumption
<1>2. args \subseteq Text /\ Names \subseteq Text
  BY ShellAssumption
<1> HIDE DEF args
<1>3. CASE c \in AccountCommands
  <2>1. c \in CommandType
    BY <1>2, <1>3 DEF AccountCommands, CommandType, Ops, Text, Names
  <2> QED
    BY <2>1, <1>3 DEF AccountCommands, Ops
<1>4. CASE c \in ConfigCommands(args)
  <2>1. c \in CommandType
    BY <1>2, <1>4 DEF ConfigCommands, CommandType, Ops, Text, Names
  <2> QED
    BY <2>1, <1>4 DEF ConfigCommands, Ops
<1>5. CASE c \in TelemetryCommands
  <2>1. c \in CommandType
    BY <1>2, <1>5 DEF TelemetryCommands, CommandType, Ops, Text, Names
  <2> QED
    BY <2>1, <1>5 DEF TelemetryCommands, Ops
<1>6. CASE c \in KeyCommands
  <2>1. c \in CommandType
    BY <1>2, <1>6 DEF KeyCommands, CommandType, Ops, Text, Names
  <2> QED
    BY <2>1, <1>6 DEF KeyCommands, Ops
<1>7. CASE c \in ModelCommands(args)
  <2>1. c \in CommandType
    BY <1>2, <1>7 DEF ModelCommands, CommandType, Ops, Text, Names
  <2> QED
    BY <2>1, <1>7 DEF ModelCommands, Ops
<1>8. CASE c \in ExecutorCommands
  <2>1. c \in CommandType
    BY <1>2, <1>8 DEF ExecutorCommands, CommandType, Ops, Text, Names
  <2> QED
    BY <2>1, <1>8 DEF ExecutorCommands, Ops
<1> QED
  BY <1>1, <1>3, <1>4, <1>5, <1>6, <1>7, <1>8

\* The steps that neither load nor save: from where to where.
Edge(from, to) ==
    \/ from # "load" /\ to = "failed"
    \/ from = "keyring" /\ to \in {"device", "flow", "deleteToken", "hasToken"}
    \/ from = "flow" /\ to \in {"flow", "exchange"}
    \/ from \in {"exchange", "device"} /\ to = "storeToken"
    \/ from \in {"storeToken", "deleteToken", "deleteKey"} /\ to = "save"
    \/ from = "hasToken" /\ to \in {"loadToken", "ok"}
    \/ from = "loadToken" /\ to \in {"request", "ok"}
    \/ from = "request" /\ to = "answer"
    \/ from \in {"answer", "probe", "checks"} /\ to = "ok"
    \/ from \in {"enterKey", "getKey"} /\ to = "validate"
    \/ from = "validate" /\ to \in {"storeKey", "ok"}
    \/ from = "storeKey" /\ to = "load"
    \/ from = "model" /\ to = "probe"

Move(p) ==
    \/ SaveFails(p) \/ OpenKeyring(p) \/ FlowEnds(p) \/ Exchange(p) \/ Device(p)
    \/ StoreToken(p) \/ DeleteToken(p) \/ HasToken(p) \/ LoadToken(p) \/ SaveToken(p)
    \/ Answered(p) \/ EnterKey(p) \/ GetKey(p) \/ Validate(p) \/ StoreKey(p) \/ DeleteKey(p)
    \/ Model(p) \/ Probe(p) \/ Checks(p) \/ Callback(p) \/ ServeFails(p)

\* Its effect, on the process and on what is shared.
Moved(p) ==
    /\ UNCHANGED <<file, left, overlapped, signedOut, raced, pin, ever, before>>
    /\ cut' = (cut \/ (Is(p, "apiLogout") /\ At(p, "save")))
    /\ \A q \in Procs : q # p => proc'[q] = proc[q]
    /\ proc'[p].cmd = proc[p].cmd /\ proc'[p].cfg = proc[p].cfg /\ proc'[p].alone = proc[p].alone /\ proc'[p].met = proc[p].met
    /\ proc[p].at \notin {"idle", "asked", "load", "ok", "failed"}
    /\ Edge(proc[p].at, proc'[p].at) /\ OpInv(proc[p].cmd, proc'[p].at)
    /\ proc'[p].at = "ok" => ~Edits(proc[p].cmd)
    /\ proc' \in [Procs -> ProcType] /\ token' \in BOOLEAN /\ key' \in [API -> BOOLEAN]

MovedStores(p) ==
    LET from == proc[p].at
        to == proc'[p].at
    IN  /\ \/ token' = token
           \/ from = "storeToken" /\ token'
           \/ from = "request" /\ token'
           \/ from = "deleteToken" /\ ~token'
        /\ from = "storeToken" /\ to = "save" => token'
        /\ from = "deleteToken" /\ to = "save" => ~token'
        /\ to = "request" => token
        /\ \A n \in API : \/ key'[n] = key[n]
                          \/ n = Name(p) /\ from = "storeKey" /\ key'[n]
                          \/ n = Name(p) /\ from = "deleteKey" /\ to = "save"
        /\ from = "storeKey" /\ to = "load" => key'[Name(p)]
        /\ from # "model" => proc'[p].model = proc[p].model /\ proc'[p].blind = proc[p].blind
        /\ from = "model" => \/ proc'[p].model = PinnedModel(Loaded(file, EnvURL[p]), Name(p))
                                /\ proc'[p].blind = proc[p].blind
                             \/ proc'[p].model = proc[p].model /\ proc'[p].blind

LEMMA GoIs ==
    ASSUME proc \in [Procs -> ProcType], NEW p \in Procs, NEW s \in Steps, Go(p, s)
    PROVE  /\ proc' \in [Procs -> ProcType]
           /\ \A q \in Procs : q # p => proc'[q] = proc[q]
           /\ proc'[p].at = s /\ proc'[p].cmd = proc[p].cmd /\ proc'[p].cfg = proc[p].cfg
           /\ proc'[p].alone = proc[p].alone /\ proc'[p].met = proc[p].met /\ proc'[p].model = proc[p].model
           /\ proc'[p].blind = proc[p].blind /\ proc'[p].flow = proc[p].flow
<1>1. proc' = [proc EXCEPT ![p] = [@ EXCEPT !.at = s]]
  BY DEF Go
<1>2. [proc[p] EXCEPT !.at = s] \in ProcType
  BY DEF ProcType
<1>3. proc'[p] = [proc[p] EXCEPT !.at = s]
  BY <1>1
<1>4. /\ proc'[p].at = s /\ proc'[p].cmd = proc[p].cmd /\ proc'[p].cfg = proc[p].cfg
      /\ proc'[p].alone = proc[p].alone /\ proc'[p].met = proc[p].met /\ proc'[p].model = proc[p].model
      /\ proc'[p].blind = proc[p].blind /\ proc'[p].flow = proc[p].flow
  BY <1>3 DEF ProcType
<1> QED
  BY <1>1, <1>2, <1>4

\* The steps that only go on: nothing else changes.
Walk(p) ==
    \/ SaveFails(p) \/ OpenKeyring(p) \/ FlowEnds(p) \/ Exchange(p) \/ Device(p)
    \/ HasToken(p) \/ LoadToken(p) \/ Answered(p) \/ EnterKey(p) \/ GetKey(p)
    \/ Validate(p) \/ Probe(p) \/ Checks(p)

LEMMA WalkIs ==
    ASSUME TypeOK, CmdInv, NEW p \in Procs, Walk(p) PROVE Moved(p) /\ MovedStores(p)
<1>1. PICK s \in Steps :
        /\ Go(p, s) /\ Edge(proc[p].at, s) /\ OpInv(proc[p].cmd, s)
        /\ proc[p].at \notin {"idle", "asked", "load", "ok", "failed", "storeToken",
                             "deleteToken", "storeKey", "deleteKey", "request", "model"}
        /\ s = "request" => token
        /\ s = "ok" => ~Edits(proc[p].cmd)
  <2>1. Active(p) => OpInv(proc[p].cmd, proc[p].at)
    BY DEF CmdInv
  <2> USE DEF Fail, Succeed, Edge, OpInv, Steps, Edits
  <2>2. CASE SaveFails(p)
    BY <2>1, <2>2 DEF SaveFails
  <2>3. CASE OpenKeyring(p)
    BY <2>1, <2>3 DEF OpenKeyring
  <2>4. CASE FlowEnds(p)
    BY <2>1, <2>4 DEF FlowEnds
  <2>5. CASE Exchange(p) \/ Device(p)
    BY <2>1, <2>5 DEF Exchange, Device
  <2>6. CASE HasToken(p) \/ LoadToken(p)
    BY <2>1, <2>6 DEF HasToken, LoadToken
  <2>7. CASE Answered(p) \/ Probe(p) \/ Checks(p)
    BY <2>1, <2>7 DEF Answered, Probe, Checks
  <2>8. CASE EnterKey(p) \/ GetKey(p) \/ Validate(p)
    BY <2>1, <2>8 DEF EnterKey, GetKey, Validate
  <2> QED
    BY <2>2, <2>3, <2>4, <2>5, <2>6, <2>7, <2>8 DEF Walk
<1>2. /\ UNCHANGED <<file, left, overlapped, signedOut, raced, pin, ever, before, token, key>>
      /\ cut' = (cut \/ (Is(p, "apiLogout") /\ At(p, "save")))
  <2>1. CASE SaveFails(p)
    BY <2>1 DEF SaveFails, stores
  <2>2. CASE ~SaveFails(p)
    <3>1. UNCHANGED <<stores, left, history>> /\ proc[p].at # "save"
      BY <2>2 DEF Walk, OpenKeyring, FlowEnds, Exchange, Device, HasToken, LoadToken, Answered,
                  EnterKey, GetKey, Validate, Probe, Checks
    <3> QED
      BY <3>1 DEF stores, history, TypeOK
  <2> QED
    BY <2>1, <2>2
<1>3. /\ proc' \in [Procs -> ProcType]
      /\ \A q \in Procs : q # p => proc'[q] = proc[q]
      /\ proc'[p].at \in Steps /\ Go(p, proc'[p].at)
      /\ proc'[p].cmd = proc[p].cmd /\ proc'[p].cfg = proc[p].cfg
      /\ proc'[p].alone = proc[p].alone /\ proc'[p].met = proc[p].met /\ proc'[p].model = proc[p].model
      /\ proc'[p].blind = proc[p].blind
  BY <1>1, GoIs DEF TypeOK
<1> QED
  BY <1>1, <1>2, <1>3, GoIs DEF Moved, MovedStores, TypeOK

\* The steps that write the keyring.
LEMMA WriteIs ==
    ASSUME TypeOK, CmdInv, NEW p \in Procs,
           StoreToken(p) \/ DeleteToken(p) \/ SaveToken(p) \/ StoreKey(p) \/ DeleteKey(p)
    PROVE  Moved(p) /\ MovedStores(p)
<1>1. Active(p) => OpInv(proc[p].cmd, proc[p].at)
  BY DEF CmdInv
<1>2. PICK s \in Steps :
        /\ Go(p, s) /\ Edge(proc[p].at, s) /\ OpInv(proc[p].cmd, s)
        /\ proc[p].at \in {"storeToken", "deleteToken", "request", "storeKey", "deleteKey"}
        /\ s # "request" /\ s # "ok"
  BY <1>1 DEF StoreToken, DeleteToken, SaveToken, StoreKey, DeleteKey, Fail, Edge, OpInv, Steps, Edits
<1>3. /\ proc' \in [Procs -> ProcType]
      /\ \A q \in Procs : q # p => proc'[q] = proc[q]
      /\ proc'[p].at = s
      /\ proc'[p].cmd = proc[p].cmd /\ proc'[p].cfg = proc[p].cfg
      /\ proc'[p].alone = proc[p].alone /\ proc'[p].met = proc[p].met /\ proc'[p].model = proc[p].model
      /\ proc'[p].blind = proc[p].blind
  BY <1>2, GoIs DEF TypeOK
<1>4. UNCHANGED <<file, left, overlapped, signedOut, raced, pin, ever, before, cut>>
  BY DEF StoreToken, DeleteToken, SaveToken, StoreKey, DeleteKey, history
<1>5. cut' = (cut \/ (Is(p, "apiLogout") /\ At(p, "save")))
  BY <1>2, <1>4 DEF TypeOK
<1>6. CASE StoreToken(p) \/ DeleteToken(p) \/ SaveToken(p)
  <2>1. key' = key /\ proc[p].at \in {"storeToken", "deleteToken", "request"} /\ token' \in BOOLEAN
    BY <1>6 DEF StoreToken, DeleteToken, SaveToken, TypeOK
  <2>2. /\ token' = token \/ (proc[p].at \in {"storeToken", "request"} /\ token')
                         \/ (proc[p].at = "deleteToken" /\ ~token')
        /\ proc[p].at = "storeToken" /\ s = "save" => token'
        /\ proc[p].at = "deleteToken" /\ s = "save" => ~token'
    <3>1. \A t \in Steps : Go(p, t) => t = s
      BY <1>3, GoIs DEF TypeOK
    <3>2. "failed" \in Steps /\ "save" \in Steps
      BY DEF Steps
    <3>3. CASE StoreToken(p)
      BY <3>1, <3>2, <3>3 DEF StoreToken, Fail
    <3>4. CASE DeleteToken(p)
      BY <3>1, <3>2, <3>4 DEF DeleteToken, Fail
    <3>5. CASE SaveToken(p)
      BY <3>5 DEF SaveToken, TypeOK
    <3> QED
      BY <1>6, <3>3, <3>4, <3>5
  <2> QED
    BY <1>2, <1>3, <1>4, <1>5, <2>1, <2>2 DEF Moved, MovedStores, TypeOK
<1>7. CASE StoreKey(p) \/ DeleteKey(p)
  <2>1. token' = token /\ Name(p) \in API
    BY <1>1, <1>7 DEF StoreKey, DeleteKey, OpInv
  <2>2. /\ key' \in [API -> BOOLEAN]
        /\ \A n \in API : \/ key'[n] = key[n]
                          \/ n = Name(p) /\ proc[p].at = "storeKey" /\ key'[n]
                          \/ n = Name(p) /\ proc[p].at = "deleteKey" /\ s = "save"
        /\ proc[p].at = "storeKey" /\ s = "load" => key'[Name(p)]
        /\ proc[p].at \in {"storeKey", "deleteKey"}
    <3>1. \A t \in Steps : Go(p, t) => t = s
      BY <1>3, GoIs DEF TypeOK
    <3>2. "failed" \in Steps /\ "save" \in Steps /\ "load" \in Steps
      BY DEF Steps
    <3>3. CASE StoreKey(p)
      <4>1. CASE key' = key
        BY <2>1, <3>1, <3>2, <3>3, <4>1 DEF StoreKey, Fail, TypeOK
      <4>2. CASE key' = [key EXCEPT ![Name(p)] = TRUE]
        BY <2>1, <3>3, <4>2 DEF StoreKey, TypeOK
      <4> QED
        BY <3>3, <4>1, <4>2 DEF StoreKey
    <3>4. CASE DeleteKey(p)
      <4>1. s = "save" /\ proc[p].at = "deleteKey"
        BY <3>1, <3>2, <3>4 DEF DeleteKey
      <4> QED
        BY <2>1, <3>4, <4>1 DEF DeleteKey, TypeOK
    <3> QED
      BY <1>7, <3>3, <3>4
  <2> QED
    BY <1>2, <1>3, <1>4, <1>5, <2>1, <2>2 DEF Moved, MovedStores, TypeOK
<1> QED
  BY <1>6, <1>7

\* The steps that write the process only.
LEMMA CallbackIs ==
    ASSUME TypeOK, CmdInv, NEW p \in Procs, Callback(p) \/ ServeFails(p)
    PROVE  Moved(p) /\ MovedStores(p)
<1>1. PICK x \in SUBSET {"served", "code", "err"} : proc' = [proc EXCEPT ![p].flow = @ \cup x]
  <2>1. CASE Callback(p)
    <3>1. PICK y \in {"code", "err"} : proc' = [proc EXCEPT ![p].flow = @ \cup {"served", y}]
      BY <2>1 DEF Callback
    <3>2. {"served", y} \in SUBSET {"served", "code", "err"}
      OBVIOUS
    <3> QED
      BY <3>1, <3>2
  <2>2. CASE ServeFails(p)
    <3>1. proc' = [proc EXCEPT ![p].flow = @ \cup {"err"}]
      BY <2>2 DEF ServeFails
    <3>2. {"err"} \in SUBSET {"served", "code", "err"}
      OBVIOUS
    <3> QED
      BY <3>1, <3>2
  <2> QED
    BY <2>1, <2>2
<1>2. proc[p].at = "flow" /\ UNCHANGED <<stores, left, history>>
  BY DEF Callback, ServeFails
<1>3. OpInv(proc[p].cmd, proc[p].at)
  BY <1>2 DEF CmdInv
<1>4. proc[p] \in ProcType /\ proc[p].flow \cup x \in SUBSET {"served", "code", "err"}
  BY DEF TypeOK, ProcType
<1>5. /\ proc'[p] = [proc[p] EXCEPT !.flow = proc[p].flow \cup x]
      /\ \A q \in Procs : q # p => proc'[q] = proc[q]
      /\ proc' = [q \in Procs |-> proc'[q]]
  BY <1>1 DEF TypeOK
<1>6. /\ proc'[p].at = proc[p].at /\ proc'[p].cmd = proc[p].cmd /\ proc'[p].cfg = proc[p].cfg
      /\ proc'[p].alone = proc[p].alone /\ proc'[p].met = proc[p].met /\ proc'[p].model = proc[p].model
      /\ proc'[p].blind = proc[p].blind
  BY <1>4, <1>5 DEF ProcType
<1>7. proc' \in [Procs -> ProcType]
  <2>1. proc'[p] \in ProcType
    BY <1>4, <1>5 DEF ProcType
  <2> QED
    BY <1>5, <2>1 DEF TypeOK
<1>8. /\ UNCHANGED <<file, left, overlapped, signedOut, raced, pin, ever, before, token, key>>
      /\ cut' = (cut \/ (Is(p, "apiLogout") /\ At(p, "save")))
  BY <1>2 DEF stores, history, TypeOK
<1> QED
  BY <1>2, <1>3, <1>5, <1>6, <1>7, <1>8 DEF Moved, MovedStores, TypeOK, Edge

LEMMA ModelIs ==
    ASSUME TypeOK, CmdInv, NEW p \in Procs, Model(p)
    PROVE  Moved(p) /\ MovedStores(p)
<1> DEFINE m == PinnedModel(Loaded(file, EnvURL[p]), Name(p))
<1>1. proc[p].at = "model" /\ UNCHANGED <<stores, left, history>>
  BY DEF Model
<1>2. OpInv(proc[p].cmd, proc[p].at)
  BY <1>1 DEF CmdInv
<1>3. OpInv(proc[p].cmd, "probe")
  BY <1>1, <1>2 DEF OpInv, Steps
<1>4. m \in Text
  <2>1. Loaded(file, EnvURL[p]) \in Configs /\ Name(p) \in Names
    BY <1>1, <1>2, ConstantTypes, LoadedIs DEF TypeOK, OpInv, Names
  <2>2. "" \in Text
    BY DEF Text
  <2> QED
    BY <2>1, <2>2 DEF PinnedModel, Configs, Entries
<1>5. proc[p] \in ProcType /\ "probe" \in Steps
  BY DEF TypeOK, Steps
<1> HIDE DEF m
<1>6. /\ UNCHANGED <<file, left, overlapped, signedOut, raced, pin, ever, before, token, key>>
      /\ cut' = (cut \/ (Is(p, "apiLogout") /\ At(p, "save")))
  BY <1>1 DEF stores, history, TypeOK
<1>7. CASE proc' = [proc EXCEPT ![p].at = "probe", ![p].model = m]
  <2>1. /\ proc'[p].at = "probe" /\ proc'[p].model = m
        /\ proc'[p].cmd = proc[p].cmd /\ proc'[p].cfg = proc[p].cfg
        /\ proc'[p].alone = proc[p].alone /\ proc'[p].met = proc[p].met /\ proc'[p].blind = proc[p].blind
    BY <1>5, <1>7 DEF TypeOK, ProcType
  <2>2. \A q \in Procs : q # p => proc'[q] = proc[q]
    BY <1>7 DEF TypeOK
  <2>3. proc' \in [Procs -> ProcType]
    BY <1>4, <1>5, <1>7 DEF TypeOK, ProcType
  <2> QED
    BY <1>1, <1>3, <1>6, <2>1, <2>2, <2>3 DEF Moved, MovedStores, TypeOK, Edge, m
<1>8. CASE proc' = [proc EXCEPT ![p].at = "probe", ![p].blind = TRUE]
  <2>1. /\ proc'[p].at = "probe" /\ proc'[p].model = proc[p].model
        /\ proc'[p].cmd = proc[p].cmd /\ proc'[p].cfg = proc[p].cfg
        /\ proc'[p].alone = proc[p].alone /\ proc'[p].met = proc[p].met /\ proc'[p].blind
    BY <1>5, <1>8 DEF TypeOK, ProcType
  <2>2. \A q \in Procs : q # p => proc'[q] = proc[q]
    BY <1>8 DEF TypeOK
  <2>3. proc' \in [Procs -> ProcType]
    BY <1>5, <1>8 DEF TypeOK, ProcType
  <2> QED
    BY <1>1, <1>3, <1>6, <2>1, <2>2, <2>3 DEF Moved, MovedStores, TypeOK, Edge
<1> QED
  BY <1>7, <1>8 DEF Model, m

LEMMA MoveIs ==
    ASSUME TypeOK, CmdInv, NEW p \in Procs, Move(p) PROVE Moved(p) /\ MovedStores(p)
  BY WalkIs, WriteIs, CallbackIs, ModelIs DEF Move, Walk

\* A command starts at a step it can be at, and reads the configuration there if anywhere.
Starts == {"enterKey", "validate", "getKey", "model", "load"}
LEMMA FirstIs ==
    ASSUME NEW c, OpInv(c, "asked")
    PROVE  /\ First(c) \in Starts /\ OpInv(c, First(c))
           /\ First(c) = "load" => c.op # "apiLogin"
<1>1. CASE c.op = "apiLogin"
  <2>1. First(c) \in {"validate", "enterKey"}
    BY <1>1 DEF First
  <2> QED
    BY <1>1, <2>1 DEF OpInv, Steps, Starts
<1>2. CASE c.op = "apiTest"
  <2>1. First(c) = "getKey"
    BY <1>2 DEF First
  <2> QED
    BY <1>2, <2>1 DEF OpInv, Steps, Starts
<1>3. CASE c.op = "run" /\ c.name # ""
  <2>1. First(c) = "model"
    BY <1>3 DEF First
  <2> QED
    BY <1>3, <2>1 DEF OpInv, Steps, Starts
<1>4. CASE c.op \notin {"apiLogin", "apiTest"} /\ ~(c.op = "run" /\ c.name # "")
  <2>1. First(c) = "load"
    BY <1>4 DEF First
  <2> QED
    BY <1>4, <2>1 DEF OpInv, Steps, Starts
<1> QED
  BY <1>1, <1>2, <1>3, <1>4

LEMMA EmptyIs == Empty \in Configs /\ ~Empty.auth /\ \A n \in Names : ~Empty.prov[n].pinned
  BY NoEntryIs DEF Empty, Configs, Text

LEMMA RestIs ==
    /\ Rest \in ProcType /\ Rest.at = "idle" /\ Rest.cmd.op = "none" /\ Rest.cfg = Empty
    /\ Rest.model = "" /\ ~Rest.alone /\ ~Rest.met /\ ~Rest.blind /\ Rest.flow = {}
  BY EmptyIs DEF Rest, ProcType, NoCmd, Cmd, CommandType, Text

\* A process as it was.
Same(q) == /\ proc'[q].cmd = proc[q].cmd /\ proc'[q].at = proc[q].at /\ proc'[q].cfg = proc[q].cfg
           /\ proc'[q].model = proc[q].model /\ proc'[q].blind = proc[q].blind
           /\ proc'[q].flow = proc[q].flow

Begun(p, c) ==
    LET busy == \E q \in Procs : Active(q)
    IN  /\ ~Active(p) /\ UNCHANGED <<file, token, key, cut, raced, pin>> /\ left' \in Nat
        /\ (overlapped' <=> overlapped \/ busy) /\ overlapped' \in BOOLEAN
        /\ before' = IF busy THEN before ELSE Snapshot
        /\ \A q \in Procs : q # p =>
             /\ Same(q) /\ ~proc'[q].alone
             /\ proc'[q].met <=> proc[q].met \/ (Is(q, "logout") /\ c.op \in TokenOps)
        /\ proc' \in [Procs -> ProcType]
        /\ proc'[p].cmd = c /\ proc'[p].model = "" /\ ~proc'[p].blind /\ proc'[p].flow = {}
        /\ proc'[p].alone <=> ~busy
        /\ proc'[p].met <=> c.op = "logout" /\ \E r \in Procs : proc[r].cmd.op \in TokenOps
        /\ \/ proc'[p].at = "asked" /\ proc'[p].cfg = Loaded(file, EnvURL[p])
           \/ proc'[p].at = First(c) /\ proc'[p].cfg = Empty
        /\ (signedOut' <=> signedOut /\ c.op # "login") /\ signedOut' \in BOOLEAN
        /\ ever' \in [Names -> SUBSET Text] /\ \A n \in Names : ever[n] \subseteq ever'[n]
        /\ c.op = "pin" => c.arg \in ever'[c.name]

LEMMA BeginIs ==
    ASSUME TypeOK, CmdInv, NEW p \in Procs, NEW c \in Commands, Begin(p, c)
    PROVE  Begun(p, c) /\ OpInv(c, "asked")'
<1> DEFINE busy == \E q \in Procs : Active(q)
           meets == c.op = "logout" /\ \E r \in Procs : proc[r].cmd.op \in TokenOps
<1>1. PICK ask \in BOOLEAN :
        proc' = [q \in Procs |->
            IF q # p THEN [proc[q] EXCEPT !.alone = FALSE,
                                          !.met = @ \/ (Is(q, "logout") /\ c.op \in TokenOps)]
            ELSE [Rest EXCEPT !.cmd = c, !.alone = ~busy, !.met = meets,
                              !.at = IF ask THEN "asked" ELSE First(c),
                              !.cfg = IF ask THEN Loaded(file, EnvURL[p]) ELSE @]]
  BY DEF Begin
<1>2. /\ ~Active(p) /\ UNCHANGED <<file, token, key, cut, raced, pin>> /\ left' \in Nat
      /\ overlapped' = (overlapped \/ busy) /\ before' = (IF busy THEN before ELSE Snapshot)
  <2>1. ~Active(p) /\ UNCHANGED <<file, token, key, cut, raced, pin>> /\ left' \in Nat
    <3>1. ~Active(p) /\ UNCHANGED <<file, token, key, cut, raced, pin>> /\ left > 0 /\ left' = left - 1
      BY DEF Begin, stores
    <3>2. left \in Nat
      BY DEF TypeOK
    <3>3. left' \in Nat
      BY <3>1, <3>2
    <3> QED
      BY <3>1, <3>3
  <2>2. \E b \in {busy} : overlapped' = (overlapped \/ b) /\ before' = IF b THEN before ELSE Snapshot
    BY DEF Begin
  <2>3. overlapped' = (overlapped \/ busy) /\ before' = IF busy THEN before ELSE Snapshot
    <3> HIDE DEF busy
    <3> QED
      BY <2>2
  <2> QED
    BY <2>1, <2>3
<1>3. /\ signedOut' = (signedOut /\ c.op # "login")
      /\ ever' = [n \in Names |-> ever[n] \cup IF c.op = "pin" /\ c.name = n THEN {c.arg} ELSE {}]
  BY DEF Begin
<1>4. c \in CommandType /\ c.arg \in Text /\ (c.op = "pin" => c.name \in Names)
  BY CommandsAre DEF CommandType
<1>5. /\ ever' \in [Names -> SUBSET Text] /\ \A n \in Names : ever[n] \subseteq ever'[n]
      /\ c.op = "pin" => c.arg \in ever'[c.name]
  BY <1>3, <1>4 DEF TypeOK
<1>6. OpInv(c, "asked")'
  BY <1>5, CommandsAre DEF OpInv, Steps
<1>7. First(c) \in Steps
  <2>1. First(c) \in Starts
    BY CommandsAre DEF First, Starts
  <2> QED
    BY <2>1 DEF Starts, Steps
<1>8. ASSUME NEW q \in Procs, q # p
      PROVE  /\ Same(q) /\ ~proc'[q].alone /\ proc'[q] \in ProcType
             /\ proc'[q].met <=> proc[q].met \/ (Is(q, "logout") /\ c.op \in TokenOps)
  <2>1. proc[q] \in ProcType
    BY DEF TypeOK
  <2>2. PICK m \in BOOLEAN : m <=> proc[q].met \/ (Is(q, "logout") /\ c.op \in TokenOps)
    OBVIOUS
  <2>3. proc'[q] = [proc[q] EXCEPT !.alone = FALSE,
                                   !.met = proc[q].met \/ (Is(q, "logout") /\ c.op \in TokenOps)]
    BY <1>1, <1>8
  <2>4. proc'[q] = [proc[q] EXCEPT !.alone = FALSE, !.met = m]
    <3>1. m = (proc[q].met \/ (Is(q, "logout") /\ c.op \in TokenOps))
      BY <2>2
    <3> QED
      BY <2>3, <3>1
  <2>5. proc'[q].met = m
    BY <2>1, <2>4 DEF ProcType
  <2>6. Same(q) /\ ~proc'[q].alone /\ proc'[q] \in ProcType
    BY <2>1, <2>4 DEF ProcType, Same
  <2> QED
    BY <2>2, <2>5, <2>6
<1>9. /\ proc'[p] = [Rest EXCEPT !.cmd = c, !.alone = ~busy, !.met = meets, !.at = proc'[p].at, !.cfg = proc'[p].cfg]
      /\ \/ proc'[p].at = "asked" /\ proc'[p].cfg = Loaded(file, EnvURL[p])
         \/ proc'[p].at = First(c) /\ proc'[p].cfg = Empty
  <2> HIDE DEF busy, meets
  <2>1. CASE ask
    BY <1>1, <2>1 DEF Rest
  <2>2. CASE ~ask
    BY <1>1, <2>2 DEF Rest
  <2> QED
    BY <2>1, <2>2
<1>10. Loaded(file, EnvURL[p]) \in Configs
  BY ConstantTypes, LoadedIs DEF TypeOK
<1>11. proc'[p].at \in Steps /\ proc'[p].cfg \in Configs
  BY <1>7, <1>9, <1>10, EmptyIs DEF Steps
<1> HIDE DEF busy, meets
<1>12. /\ proc'[p] \in ProcType /\ proc'[p].cmd = c /\ proc'[p].model = "" /\ ~proc'[p].blind
       /\ proc'[p].flow = {}
       /\ (proc'[p].alone <=> ~busy) /\ (proc'[p].met <=> meets)
  <2>4. PICK z \in BOOLEAN : z <=> ~busy
    OBVIOUS
  <2>5. PICK m \in BOOLEAN : m <=> meets
    OBVIOUS
  <2>1. PICK a \in Steps, g \in Configs :
          proc'[p] = [Rest EXCEPT !.cmd = c, !.alone = z, !.met = m, !.at = a, !.cfg = g]
    <3>1. z = ~busy /\ m = meets
      BY <2>4, <2>5 DEF meets
    <3>2. proc'[p] = [Rest EXCEPT !.cmd = c, !.alone = z, !.met = m, !.at = proc'[p].at, !.cfg = proc'[p].cfg]
      BY <1>9, <3>1
    <3> QED
      BY <1>11, <3>2
  <2>7. proc'[p] \in ProcType
    BY <1>4, <2>1, RestIs DEF ProcType
  <2>8. proc'[p].cmd = c /\ proc'[p].model = ""
    BY <2>1, RestIs DEF ProcType
  <2>9. ~proc'[p].blind /\ proc'[p].flow = {}
    BY <2>1, RestIs DEF ProcType
  <2>10. proc'[p].alone = z
    BY <2>1, RestIs DEF ProcType
  <2>11. proc'[p].alone <=> ~busy
    BY <2>4, <2>10
  <2>12. proc'[p].met = m
    BY <2>1, RestIs DEF ProcType
  <2> QED
    BY <2>5, <2>7, <2>8, <2>9, <2>11, <2>12
<1>13. proc' \in [Procs -> ProcType]
  <2>1. proc' = [q \in Procs |-> proc'[q]]
    BY <1>1
  <2> QED
    BY <1>8, <1>12, <2>1
<1>14. overlapped' \in BOOLEAN /\ signedOut' \in BOOLEAN
  BY <1>2, <1>3 DEF TypeOK
<1> QED
  BY <1>2, <1>3, <1>5, <1>6, <1>8, <1>9, <1>12, <1>13, <1>14 DEF Begun, busy, meets

Replied(p) ==
    /\ UNCHANGED <<token, key, left, overlapped, cut, signedOut, raced, pin, ever>>
    /\ proc[p].at = "asked" /\ proc'[p].at = First(proc[p].cmd)
    /\ \A q \in Procs : q # p => proc'[q] = proc[q]
    /\ proc' \in [Procs -> ProcType]
    /\ proc'[p].cmd = proc[p].cmd /\ proc'[p].cfg = proc[p].cfg /\ proc'[p].alone = proc[p].alone /\ proc'[p].met = proc[p].met
    /\ proc'[p].model = proc[p].model
    /\ \/ file' = file
       \/ file' \in Configs /\ file'.auth = proc[p].cfg.auth /\ file'.prov = proc[p].cfg.prov
    /\ before' \in [file : Configs, token : BOOLEAN, key : [API -> BOOLEAN]]
    /\ before' = IF proc[p].alone THEN [before EXCEPT !.file = file'] ELSE before

LEMMA AnswerIs ==
    ASSUME TypeOK, CmdInv, NEW p \in Procs, Answer(p)
    PROVE  Replied(p)
<1>1. /\ proc[p].at = "asked" /\ Go(p, First(proc[p].cmd))
      /\ UNCHANGED <<token, key, left, overlapped, cut, signedOut, raced, pin, ever>>
      /\ before' = IF proc[p].alone THEN [before EXCEPT !.file = file'] ELSE before
  BY DEF Answer
<1>2. First(proc[p].cmd) \in Steps
  BY <1>1, FirstIs DEF CmdInv, Starts, Steps
<1>3. \/ file' = file
      \/ file' \in Configs /\ file'.auth = proc[p].cfg.auth /\ file'.prov = proc[p].cfg.prov
  <2>1. CASE file' = file
    BY <2>1
  <2>2. ASSUME NEW a \in {"on", "off"}, file' = Ask(proc[p].cfg, a)
        PROVE  file' \in Configs /\ file'.auth = proc[p].cfg.auth /\ file'.prov = proc[p].cfg.prov
    <3>1. proc[p].cfg \in Configs
      BY DEF TypeOK, ProcType
    <3> QED
      BY <2>2, <3>1 DEF Ask, Configs
  <2> QED
    BY <2>1, <2>2 DEF Answer
<1>4. file' \in Configs
  BY <1>3 DEF TypeOK
<1>5. /\ before' \in [file : Configs, token : BOOLEAN, key : [API -> BOOLEAN]]
      /\ before' = IF proc[p].alone THEN [before EXCEPT !.file = file'] ELSE before
  BY <1>1, <1>4 DEF TypeOK
<1> QED
  BY <1>1, <1>2, <1>3, <1>5, GoIs DEF TypeOK, Replied

Ended(p) ==
    /\ UNCHANGED <<file, token, key, left, overlapped, signedOut, raced, pin, ever, before>>
    /\ Active(p) /\ proc'[p] = Rest
    /\ \A q \in Procs : q # p => proc'[q] = proc[q]
    /\ proc' \in [Procs -> ProcType]
    /\ cut' \in BOOLEAN /\ (cut => cut') /\ (Is(p, "apiLogout") /\ At(p, "save") => cut')

LEMMA EndIs ==
    ASSUME TypeOK, NEW p \in Procs, Exit(p) \/ Kill(p)
    PROVE  Ended(p)
<1>1. Active(p) /\ proc' = [proc EXCEPT ![p] = Rest]
  BY DEF Exit, Kill
<1>2. UNCHANGED <<file, token, key, left, overlapped, signedOut, raced, pin, ever, before>>
  BY DEF Exit, Kill, stores, history
<1>3. cut' \in BOOLEAN /\ (cut => cut') /\ (Is(p, "apiLogout") /\ At(p, "save") => cut')
  BY DEF Exit, Kill, history, TypeOK
<1>4. /\ proc' \in [Procs -> ProcType] /\ proc'[p] = Rest
      /\ \A q \in Procs : q # p => proc'[q] = proc[q]
  BY <1>1, RestIs DEF TypeOK
<1> QED
  BY <1>1, <1>2, <1>3, <1>4 DEF Ended

Read(p) ==
    LET from == proc[p]
        to == proc'[p]
        c == Loaded(file, EnvURL[p])
    IN  /\ UNCHANGED <<file, token, key, left, overlapped, cut, signedOut, raced, pin, ever, before>>
        /\ from.at = "load" /\ to.alone = from.alone /\ to.met = from.met /\ to.flow = from.flow
        /\ to.cmd.op = from.cmd.op /\ (from.cmd.op # "run" => to.cmd = from.cmd)
        /\ \A q \in Procs : q # p => proc'[q] = proc[q]
        /\ proc' \in [Procs -> ProcType]
        /\ OpInv(to.cmd, to.at)
        /\ \/ /\ to.cfg = c /\ to.blind = from.blind
              /\ to.model = IF from.cmd.op = "show" THEN Configured(c, from.cmd.name) ELSE from.model
              /\ to.at \in {"keyring", "deleteKey", "ok", "checks", "model", "save"}
              /\ to.at = "ok" => \/ from.cmd.op = "show"
                                 \/ from.cmd.op = "clear" /\ c.prov[from.cmd.name] = NoEntry
              /\ from.cmd.op = "show" => to.at = "ok"
              /\ to.at = "save" => from.cmd.op \notin {"login", "logout", "apiLogout"}
           \/ to.cfg = from.cfg /\ to.model = from.model /\ to.at \in {"failed", "model"}

LEMMA AfterLoadIs ==
    ASSUME NEW p \in Procs, OpInv(proc[p].cmd, "load")
    PROVE  /\ AfterLoad(p) \in {"keyring", "deleteKey", "ok", "checks", "model", "save"}
           /\ AfterLoad(p) = "ok" <=> proc[p].cmd.op = "show"
           /\ AfterLoad(p) = "model" <=> proc[p].cmd.op = "run"
           /\ AfterLoad(p) = "save" => proc[p].cmd.op \notin {"login", "logout", "apiLogout"}
           /\ AfterLoad(p) # "model" => OpInv(proc[p].cmd, AfterLoad(p))
<1>1. CASE proc[p].cmd.op \in {"login", "logout", "status"}
  <2>1. AfterLoad(p) = "keyring"
    BY <1>1 DEF AfterLoad
  <2> QED
    BY <1>1, <2>1 DEF OpInv, Steps
<1>2. CASE proc[p].cmd.op = "apiLogout"
  <2>1. AfterLoad(p) = "deleteKey"
    BY <1>2 DEF AfterLoad
  <2> QED
    BY <1>2, <2>1 DEF OpInv, Steps
<1>3. CASE proc[p].cmd.op = "show"
  <2>1. AfterLoad(p) = "ok"
    BY <1>3 DEF AfterLoad
  <2> QED
    BY <1>3, <2>1 DEF OpInv, Steps
<1>4. CASE proc[p].cmd.op = "doctor"
  <2>1. AfterLoad(p) = "checks"
    BY <1>4 DEF AfterLoad
  <2> QED
    BY <1>4, <2>1 DEF OpInv, Steps
<1>5. CASE proc[p].cmd.op = "run"
  <2>1. AfterLoad(p) = "model"
    BY <1>5 DEF AfterLoad
  <2> QED
    BY <1>5, <2>1 DEF OpInv, Steps
<1>6. CASE proc[p].cmd.op \notin {"login", "logout", "status", "apiLogout", "show", "doctor", "run"}
  <2>1. AfterLoad(p) = "save"
    BY <1>6 DEF AfterLoad
  <2>2. Edits(proc[p].cmd)
    BY <1>6 DEF OpInv, Ops, Edits
  <2> QED
    BY <1>6, <2>1, <2>2 DEF OpInv, Steps
<1> QED
  BY <1>1, <1>2, <1>3, <1>4, <1>5, <1>6

LEMMA LoadIs ==
    ASSUME TypeOK, CmdInv, NEW p \in Procs, Load(p) \/ LoadFails(p)
    PROVE  Read(p)
<1> DEFINE c == Loaded(file, EnvURL[p])
           bare == Name(p) \in Names /\ c.prov[Name(p)] = NoEntry
           s == IF Is(p, "clear") /\ bare THEN "ok" ELSE AfterLoad(p)
           name == IF Is(p, "run") THEN Executor(c) ELSE proc[p].cmd.name
           m == IF Is(p, "show") THEN Configured(c, Name(p)) ELSE proc[p].model
<1>1. UNCHANGED <<file, token, key, left, overlapped, cut, signedOut, raced, pin, ever, before>>
  BY DEF Load, LoadFails, stores, history
<1>2. proc[p].at = "load" /\ OpInv(proc[p].cmd, "load") /\ proc[p] \in ProcType /\ proc[p].cmd \in CommandType
  BY DEF Load, LoadFails, CmdInv, TypeOK, ProcType
<1>3. c \in Configs
  BY ConstantTypes, LoadedIs DEF TypeOK
<1>4. \A n \in CLI : n \in Text
  BY ConstantTypes DEF Names
<1>5. CASE proc' = [proc EXCEPT ![p].cfg = c,
                  ![p].at = IF Is(p, "clear") /\ bare THEN "ok" ELSE AfterLoad(p),
                  ![p].cmd.name = IF Is(p, "run") THEN Executor(c) ELSE @,
                  ![p].model = IF Is(p, "show") THEN Configured(c, Name(p)) ELSE @]
  <2>1. proc' = [proc EXCEPT ![p].cfg = c, ![p].at = s, ![p].cmd.name = name, ![p].model = m]
    BY <1>5
  <2>2. s \in {"keyring", "deleteKey", "ok", "checks", "model", "save"}
    BY <1>2, AfterLoadIs
  <2>3. name \in Text /\ (Is(p, "run") => name \in CLI) /\ (~Is(p, "run") => name = proc[p].cmd.name)
    <3>1. Executor(c) \in CLI
      BY ConstantTypes DEF Executor
    <3>2. proc[p].cmd.name \in Text
      BY <1>2 DEF CommandType
    <3> QED
      BY <1>4, <3>1, <3>2
  <2>4. m \in Text
    <3>1. CASE Is(p, "show")
      <4>1. Name(p) \in Names /\ "" \in Text
        BY <1>2, <3>1 DEF OpInv, Text
      <4>2. c.prov[Name(p)].model \in Text
        BY <1>3, <4>1 DEF Configs, Entries
      <4> QED
        BY <3>1, <4>1, <4>2 DEF Configured
    <3>2. CASE ~Is(p, "show")
      BY <1>2, <3>2 DEF ProcType
    <3> QED
      BY <3>1, <3>2
  <2>5. /\ s = "ok" => Is(p, "show") \/ (Is(p, "clear") /\ c.prov[Name(p)] = NoEntry)
        /\ Is(p, "show") => s = "ok"
        /\ s = "save" => proc[p].cmd.op \notin {"login", "logout", "apiLogout"}
        /\ s = "model" <=> Is(p, "run")
        /\ s # "model" => OpInv(proc[p].cmd, s)
    <3>1. CASE Is(p, "clear") /\ bare
      <4>1. OpInv(proc[p].cmd, "ok")
        BY <1>2 DEF OpInv, Steps
      <4> QED
        BY <3>1, <4>1
    <3>2. CASE ~(Is(p, "clear") /\ bare)
      <4>1. s = AfterLoad(p)
        BY <3>2
      <4> QED
        BY <1>2, <4>1, AfterLoadIs
    <3> QED
      BY <3>1, <3>2
  <2> HIDE DEF c, s, name, m
  <2>6. \A q \in Procs : q # p => proc'[q] = proc[q]
    BY <2>1 DEF TypeOK
  <2>7. s \in Steps
    BY <2>2 DEF Steps
  <2>8. proc'[p] = [proc[p] EXCEPT !.cfg = c, !.at = s, !.cmd = [@ EXCEPT !.name = name], !.model = m]
    BY <2>1, <1>2 DEF TypeOK, ProcType
  <2> DEFINE d == [proc[p].cmd EXCEPT !.name = name]
  <2>9. d \in CommandType /\ d.op = proc[p].cmd.op /\ d.arg = proc[p].cmd.arg /\ d.name = name
    BY <1>2, <2>3 DEF CommandType
  <2>10. proc'[p] = [proc[p] EXCEPT !.cfg = c, !.at = s, !.cmd = d, !.model = m]
    BY <2>8
  <2>11. ~Is(p, "run") => d = proc[p].cmd
    BY <1>2, <2>3 DEF CommandType
  <2> HIDE DEF d
  <2>12. proc'[p] \in ProcType
    BY <1>2, <1>3, <2>4, <2>7, <2>9, <2>10 DEF ProcType
  <2>13. /\ proc'[p].cfg = c /\ proc'[p].at = s /\ proc'[p].cmd = d /\ proc'[p].model = m
         /\ proc'[p].alone = proc[p].alone /\ proc'[p].met = proc[p].met /\ proc'[p].blind = proc[p].blind
         /\ proc'[p].flow = proc[p].flow
    BY <1>2, <2>10 DEF ProcType
  <2>14. OpInv(d, s)
    <3>1. CASE s = "model"
      BY <1>2, <2>3, <2>5, <2>9, <3>1 DEF OpInv, Steps
    <3>2. CASE s # "model"
      BY <2>5, <2>11, <3>2
    <3> QED
      BY <3>1, <3>2
  <2>15. proc' \in [Procs -> ProcType]
    BY <2>1, <2>12, <2>6 DEF TypeOK
  <2> USE DEF c
  <2>16. proc'[p].model = IF proc[p].cmd.op = "show" THEN Configured(c, proc[p].cmd.name) ELSE proc[p].model
    BY <2>13 DEF m
  <2> QED
    BY <1>1, <1>2, <2>2, <2>5, <2>6, <2>9, <2>11, <2>13, <2>14, <2>15, <2>16 DEF Read
<1>6. CASE Go(p, "failed")
  <2>1. "failed" \in Steps /\ OpInv(proc[p].cmd, "failed")
    BY <1>2 DEF OpInv, Steps
  <2> QED
    BY <1>1, <1>2, <1>6, <2>1, GoIs DEF Read, TypeOK
<1>7. CASE Is(p, "run") /\ proc' = [proc EXCEPT ![p].at = "model", ![p].cmd.name = Fallback, ![p].blind = TRUE]
  <2> DEFINE d == [proc[p].cmd EXCEPT !.name = Fallback]
  <2>1. proc'[p] = [proc[p] EXCEPT !.at = "model", !.cmd = d, !.blind = TRUE]
    BY <1>2, <1>7 DEF TypeOK, ProcType
  <2>2. \A q \in Procs : q # p => proc'[q] = proc[q]
    BY <1>7 DEF TypeOK
  <2>3. d \in CommandType /\ d.op = proc[p].cmd.op /\ d.arg = proc[p].cmd.arg /\ d.name = Fallback
    BY <1>2, <1>4, ConstantTypes DEF CommandType
  <2> HIDE DEF d
  <2>4. /\ proc'[p].cmd = d /\ proc'[p].at = "model" /\ proc'[p].cfg = proc[p].cfg
        /\ proc'[p].model = proc[p].model /\ proc'[p].alone = proc[p].alone /\ proc'[p].met = proc[p].met
        /\ proc'[p].flow = proc[p].flow
    BY <1>2, <2>1 DEF ProcType
  <2>5. "model" \in Steps /\ TRUE \in BOOLEAN
    BY DEF Steps
  <2>6. proc'[p] \in ProcType
    BY <1>2, <2>1, <2>3, <2>5 DEF ProcType
  <2>7. proc' \in [Procs -> ProcType]
    BY <1>7, <2>2, <2>6 DEF TypeOK
  <2>8. OpInv(d, "model")
    BY <1>2, <1>7, <2>3, ConstantTypes DEF OpInv, Steps
  <2> QED
    BY <1>1, <1>2, <1>7, <2>2, <2>3, <2>4, <2>7, <2>8 DEF Read
<1> QED
  BY <1>5, <1>6, <1>7 DEF Load, LoadFails, Fail

Saved(p) ==
    LET cmd == proc[p].cmd
    IN  /\ UNCHANGED <<token, key, left, overlapped, cut, ever, before>>
        /\ proc[p].at = "save" /\ proc'[p].at = "ok"
        /\ proc'[p].cmd = cmd /\ proc'[p].cfg = proc[p].cfg /\ proc'[p].alone = proc[p].alone /\ proc'[p].met = proc[p].met
        /\ \A q \in Procs : q # p => proc'[q] = proc[q]
        /\ proc' \in [Procs -> ProcType]
        /\ Editable(cmd) /\ file' = Edit(cmd, proc[p].cfg) /\ file' \in Configs
        /\ pin' \in [Names -> Text]
        /\ IF cmd.op \in PinOps
           THEN /\ pin'[cmd.name] = IF cmd.op = "pin" THEN cmd.arg ELSE ""
                /\ \A n \in Names : n # cmd.name => pin'[n] = pin[n]
           ELSE pin' = pin
        /\ (signedOut' <=> signedOut \/ cmd.op = "logout") /\ signedOut' \in BOOLEAN
        /\ raced' \in SUBSET {"token", "account"}
        /\ IF cmd.op = "logout"
           THEN ("token" \in raced' <=> proc[p].met) /\ ("account" \in raced' <=> ~proc[p].alone)
           ELSE raced' = raced

LEMMA SaveIs ==
    ASSUME TypeOK, CmdInv, NEW p \in Procs, Save(p)
    PROVE  Saved(p)
<1>1. /\ proc[p].at = "save" /\ Go(p, "ok") /\ file' = Edit(proc[p].cmd, proc[p].cfg)
      /\ pin' = PinAfter(proc[p].cmd)
      /\ UNCHANGED <<token, key, left, overlapped, cut, ever, before>>
  BY DEF Save, Succeed
<1>2. /\ (signedOut' <=> signedOut \/ Is(p, "logout")) /\ signedOut' \in BOOLEAN
      /\ raced' \in SUBSET {"token", "account"}
      /\ IF Is(p, "logout")
         THEN ("token" \in raced' <=> proc[p].met) /\ ("account" \in raced' <=> ~proc[p].alone)
         ELSE raced' = raced
  <2>1. signedOut' = (signedOut \/ Is(p, "logout")) /\ raced' = IF Is(p, "logout") THEN BroughtBack(p) ELSE raced
    BY DEF Save
  <2>2. /\ BroughtBack(p) \in SUBSET {"token", "account"}
        /\ ("token" \in BroughtBack(p) <=> proc[p].met) /\ ("account" \in BroughtBack(p) <=> ~proc[p].alone)
    BY DEF BroughtBack
  <2> QED
    BY <2>1, <2>2 DEF TypeOK
<1>3. proc[p].cmd \in CommandType /\ proc[p].cfg \in Configs /\ OpInv(proc[p].cmd, "save")
  BY <1>1 DEF TypeOK, ProcType, CmdInv
<1>4. Editable(proc[p].cmd)
  BY <1>3 DEF OpInv, Editable
<1>5. file' \in Configs
  BY <1>1, <1>3, <1>4, PinEditIs, OtherEditIs
<1>6. /\ pin' \in [Names -> Text]
      /\ IF proc[p].cmd.op \in PinOps
         THEN /\ pin'[proc[p].cmd.name] = IF proc[p].cmd.op = "pin" THEN proc[p].cmd.arg ELSE ""
              /\ \A n \in Names : n # proc[p].cmd.name => pin'[n] = pin[n]
         ELSE pin' = pin
  <2>1. "" \in Text /\ proc[p].cmd.arg \in Text /\ (proc[p].cmd.op \in PinOps => proc[p].cmd.name \in Names)
    BY <1>3 DEF Text, CommandType, OpInv, PinOps, Names
  <2> QED
    BY <1>1, <2>1 DEF PinAfter, PinOps, TypeOK
<1>7. /\ proc' \in [Procs -> ProcType] /\ proc'[p].at = "ok"
      /\ proc'[p].cmd = proc[p].cmd /\ proc'[p].cfg = proc[p].cfg /\ proc'[p].alone = proc[p].alone /\ proc'[p].met = proc[p].met
      /\ \A q \in Procs : q # p => proc'[q] = proc[q]
  <2>1. "ok" \in Steps
    BY DEF Steps
  <2> QED
    BY <1>1, <2>1, GoIs DEF TypeOK
<1> QED
  BY <1>1, <1>2, <1>4, <1>5, <1>6, <1>7 DEF Saved

-----------------------------------------------------------------------------
(* Every step keeps the invariant. *)

\* The model a pin gives, once loaded.
Chosen(n) == {Current(m) : m \in ever[n]} \cup {""}

LEMMA SetIs ==
    ASSUME TypeOK, NEW n \in Names, NEW m \in Set(n)
    PROVE  m \in Text /\ Current(m) \in Chosen(n) /\ Current(m) \in Set(n)
<1>1. ever[n] \subseteq Text /\ "" \in Text
  BY DEF TypeOK, Text
<1>2. CASE m \in ever[n]
  BY <1>1, <1>2 DEF Set, Chosen
<1>3. CASE m = ""
  BY <1>1, <1>3, CurrentIs DEF Set, Chosen
<1>4. ASSUME NEW k \in ever[n], m = Current(k)
      PROVE  m \in Text /\ Current(m) \in Chosen(n) /\ Current(m) \in Set(n)
  <2>1. m \in Text /\ Current(m) = m
    BY <1>1, <1>4, CurrentIs
  <2> QED
    BY <1>4, <2>1 DEF Set, Chosen
<1> QED
  BY <1>2, <1>3, <1>4 DEF Set

LEMMA PinnedIs ==
    ASSUME TypeOK, EverInv, ForceInv, NEW p \in Procs, NEW n \in Names
    PROVE  LET c == Loaded(file, EnvURL[p])
           IN  /\ Configured(c, n) = PinnedModel(c, n)
               /\ PinnedModel(c, n) \in Chosen(n)
               /\ ~overlapped => PinnedModel(c, n) = Current(pin[n])
<1> DEFINE c == Loaded(file, EnvURL[p])
<1>1. c.prov[n].pinned = file.prov[n].pinned /\ c.prov[n].model = Current(file.prov[n].model)
  BY ConstantTypes, LoadedIs DEF TypeOK
<1> HIDE DEF c
<1>2. Configured(c, n) = PinnedModel(c, n)
  BY NoEntryIs DEF Configured, PinnedModel
<1>3. PinnedModel(c, n) \in Chosen(n)
  BY <1>1, SetIs DEF PinnedModel, EverInv, Chosen
<1>4. ~overlapped => PinnedModel(c, n) = Current(pin[n])
  BY <1>1 DEF PinnedModel, ForceInv, InForce
<1> QED
  BY <1>2, <1>3, <1>4 DEF c

LEMMA MoveKeeps ==
    ASSUME TypeOK, Inv, NEW p \in Procs, Moved(p), MovedStores(p)
    PROVE  TypeOK' /\ Inv'
<1> USE DEF Inv
<1>1. TypeOK'
  BY DEF Moved, TypeOK
<1>2. Active(p) /\ (Active(p))' /\ OpInv(proc[p].cmd, proc[p].at)
  BY DEF Moved, Edge, CmdInv
<1>3. CmdInv'
  <2>1. OpInv(proc[p].cmd, proc[p].at)'
    BY DEF Moved, OpInv
  <2>2. proc'[p].at \notin {"probe", "ok", "failed"} => proc'[p].model = ""
    <3>1. SUFFICES ASSUME proc'[p].at \notin {"probe", "ok", "failed"} PROVE proc'[p].model = ""
      OBVIOUS
    <3>2. proc[p].at \notin {"model", "probe", "ok", "failed"}
      BY <3>1 DEF Moved, Edge
    <3>3. proc'[p].model = proc[p].model
      BY <3>2 DEF MovedStores
    <3> QED
      BY <3>2, <3>3 DEF CmdInv
  <2>3. ASSUME NEW q \in Procs, q # p
        PROVE  /\ (Active(q))' => OpInv(proc[q].cmd, proc[q].at)'
               /\ ~(Active(q))' => proc'[q] = Rest
               /\ proc'[q].at \notin {"probe", "ok", "failed"} => proc'[q].model = ""
    <3>1. proc'[q] = proc[q] /\ ever' = ever
      BY <2>3 DEF Moved
    <3>2. OpInv(proc[q].cmd, proc[q].at) => OpInv(proc[q].cmd, proc[q].at)'
      BY <3>1 DEF OpInv
    <3> QED
      BY <3>1, <3>2 DEF CmdInv
  <2>4. proc'[p].cmd = proc[p].cmd
    BY DEF Moved
  <2> QED
    BY <1>2, <2>1, <2>2, <2>3, <2>4 DEF CmdInv
<1>4. AloneInv'
  BY <1>2 DEF AloneInv, Moved
<1>5. FreshInv'
  <2>1. ASSUME NEW q \in Procs, proc'[q].alone PROVE q = p
    <3>1. CASE q # p
      BY <1>2, <2>1, <3>1 DEF AloneInv, Moved
    <3> QED
      BY <3>1
  <2>2. Fresh(p)'
    <3>1. SUFFICES ASSUME proc[p].alone PROVE Fresh(p)'
      BY DEF Fresh, Moved
    <3>2. file = before.file /\ file' = file /\ before' = before
      BY <3>1 DEF FreshInv, Fresh, Moved
    <3>3. proc'[p].at \in Holding => proc[p].at \in Holding
      BY DEF Moved, Edge, Holding
    <3>4. proc'[p].at \in Holding => proc'[p].cfg = Loaded(file', EnvURL[p])
      BY <3>1, <3>2, <3>3 DEF FreshInv, Fresh, Moved
    <3>5. proc'[p].at = "ok" => AllDone(p)'
      BY <3>2 DEF Moved, AllDone
    <3>6. proc'[p].cmd.op = "login" /\ proc'[p].at \in {"save", "ok"} => token'
      BY <1>2 DEF Moved, MovedStores, Edge, OpInv, Edits
    <3>7. proc'[p].cmd.op = "logout" /\ proc'[p].at \in {"save", "ok"} => ~token'
      BY <1>2 DEF Moved, MovedStores, Edge, OpInv, Edits
    <3>8. proc'[p].cmd.op = "apiLogin" /\ proc'[p].at \in {"load", "save", "ok"} => key'[proc'[p].cmd.name]
      BY <1>2 DEF Moved, MovedStores, Edge, OpInv, Edits
    <3>9. ASSUME proc'[p].at = "request" PROVE token'
      <4>1. proc[p].at = "loadToken"
        BY <3>9 DEF Moved, Edge
      <4>2. token /\ token' = token
        BY <3>9, <4>1 DEF MovedStores
      <4> QED
        BY <4>2
    <3>10. token' = before'.token \/ proc'[p].cmd.op \in {"login", "logout"}
      <4>1. CASE token' = token
        BY <3>1, <3>2, <4>1 DEF FreshInv, Fresh, Moved
      <4>2. CASE proc[p].at \in {"storeToken", "deleteToken"}
        BY <1>2, <4>2 DEF Moved, OpInv
      <4>3. CASE proc[p].at = "request" /\ token'
        <5>1. token /\ token' = token
          BY <3>1, <4>3 DEF FreshInv, Fresh, TypeOK, Moved
        <5> QED
          BY <4>1, <5>1
      <4> QED
        BY <4>1, <4>2, <4>3 DEF MovedStores
    <3>11. ASSUME NEW n \in API
           PROVE  key'[n] = before'.key[n]
                  \/ (proc'[p].cmd.op \in {"apiLogin", "apiLogout"} /\ n = proc'[p].cmd.name)
      <4>1. CASE key'[n] = key[n]
        BY <3>1, <3>2, <4>1 DEF FreshInv, Fresh, Moved
      <4>2. CASE n = Name(p) /\ proc[p].at \in {"storeKey", "deleteKey"}
        BY <1>2, <4>2 DEF Moved, OpInv
      <4> QED
        BY <4>1, <4>2 DEF MovedStores
    <3> QED
      BY <3>2, <3>4, <3>5, <3>6, <3>7, <3>8, <3>9, <3>10, <3>11 DEF Fresh
  <2>3. ASSUME NEW q \in Procs, ~proc'[q].alone PROVE Fresh(q)'
    BY <2>3 DEF Fresh
  <2> QED
    BY <2>1, <2>2, <2>3 DEF FreshInv
<1>6. MetInv' /\ OutInv'
  <2>1. /\ \A q \in Procs : proc'[q].cmd = proc[q].cmd /\ proc'[q].cfg = proc[q].cfg /\ proc'[q].met = proc[q].met
        /\ \A q \in Procs : q # p => proc'[q].at = proc[q].at
        /\ signedOut' = signedOut /\ raced' = raced /\ file' = file
    BY DEF Moved
  <2>2. ASSUME token', ~token PROVE proc[p].cmd.op \in TokenOps
    BY <1>2, <2>2 DEF MovedStores, OpInv, TokenOps
  <2>3. proc'[p].at = "save" /\ proc[p].cmd.op = "logout" => ~token'
    BY <1>2 DEF Moved, MovedStores, Edge, OpInv
  <2>4. MetInv'
    BY <2>1, <2>2, <2>3 DEF MetInv
  <2>5. OutInv'
    <3>1. proc'[p].at = "request" => token
      BY DEF MovedStores
    <3>2. proc'[p].at # "ok" => proc[p].at # "ok"
      BY DEF Moved
    <3>3. proc[p].at = "storeToken" => proc[p].cmd.op = "login"
      BY <1>2 DEF OpInv
    <3>4. signedOut /\ "token" \notin raced => ~token'
      BY <3>3 DEF OutInv, MovedStores
    <3> QED
      BY <2>1, <3>1, <3>2, <3>4 DEF OutInv
  <2> QED
    BY <2>4, <2>5
<1>7. KeyInv'
  <2>1. SUFFICES ASSUME ~overlapped, ~cut', NEW n \in API, file.prov[n].in
        PROVE  key'[n] \/ \E q \in Procs : (Is(q, "apiLogout") /\ Name(q) = n /\ At(q, "save"))'
    BY DEF KeyInv, Moved
  <2>2. CASE key'[n] = key[n]
    <3>1. ~cut /\ ~(Is(p, "apiLogout") /\ At(p, "save"))
      BY <2>1 DEF Moved
    <3>2. CASE key[n]
      BY <2>2, <3>2
    <3>3. ASSUME NEW q \in Procs, Is(q, "apiLogout"), Name(q) = n, At(q, "save")
          PROVE  (Is(q, "apiLogout") /\ Name(q) = n /\ At(q, "save"))'
      BY <3>1, <3>3 DEF Moved
    <3>4. key[n] \/ \E q \in Procs : Is(q, "apiLogout") /\ Name(q) = n /\ At(q, "save")
      BY <2>1, <3>1 DEF KeyInv
    <3> QED
      BY <3>2, <3>3, <3>4
  <2>3. CASE key'[n]
    BY <2>3
  <2>4. CASE n = Name(p) /\ proc[p].at = "deleteKey" /\ proc'[p].at = "save"
    <3>1. (Is(p, "apiLogout") /\ Name(p) = n /\ At(p, "save"))'
      BY <1>2, <2>4 DEF Moved, OpInv
    <3> QED
      BY <3>1
  <2> QED
    BY <2>2, <2>3, <2>4 DEF MovedStores
<1>8. EverInv' /\ ForceInv'
  BY DEF EverInv, ForceInv, Moved, Set, InForce
<1>9. PinRespected'
  <2>1. ASSUME NEW q \in Procs, (Is(q, "run") /\ At(q, "probe")) \/ (Is(q, "show") /\ At(q, "ok")),
               proc'[q] = proc[q]
        PROVE  /\ proc'[q].model \in {Current(m) : m \in ever[Name(q)]} \cup {""}
               /\ ~overlapped /\ ~proc'[q].blind => proc'[q].model = Current(pin[proc'[q].cmd.name])
    BY <2>1 DEF PinRespected
  <2>2. proc'[p].cmd.op = "show" => proc'[p].at # "ok"
    BY <1>2 DEF Moved, Edge, OpInv
  <2>3. ASSUME proc'[p].at = "probe"
        PROVE  /\ proc'[p].model \in Chosen(Name(p))
               /\ ~overlapped /\ ~proc'[p].blind => proc'[p].model = Current(pin[Name(p)])
    <3>1. proc[p].at = "model" /\ Name(p) \in Names /\ proc[p].model = ""
      BY <1>2, <2>3 DEF Moved, Edge, OpInv, Names, CmdInv
    <3>2. \/ proc'[p].model = PinnedModel(Loaded(file, EnvURL[p]), Name(p))
          \/ proc'[p].model = "" /\ proc'[p].blind
      BY <3>1 DEF MovedStores
    <3> QED
      BY <3>1, <3>2, PinnedIs DEF Chosen
  <2>4. \A q \in Procs : q # p => proc'[q] = proc[q]
    BY DEF Moved
  <2>5. ever' = ever /\ pin' = pin /\ overlapped' = overlapped /\ proc'[p].cmd = proc[p].cmd
    BY DEF Moved
  <2> QED
    BY <2>1, <2>2, <2>3, <2>4, <2>5 DEF PinRespected, Chosen
<1> QED
  BY <1>1, <1>3, <1>4, <1>5, <1>6, <1>7, <1>8, <1>9

LEMMA BeginKeeps ==
    ASSUME TypeOK, Inv, NEW p \in Procs, NEW c \in Commands, Begun(p, c), OpInv(c, "asked")'
    PROVE  TypeOK' /\ Inv'
<1> USE DEF Inv
<1> DEFINE busy == \E q \in Procs : Active(q)
<1>1. TypeOK'
  BY DEF Begun, TypeOK, Snapshot
<1>2. proc[p] = Rest /\ ~Active(p)
  BY DEF Begun, CmdInv
<1>3. /\ proc'[p].at \in Starts \cup {"asked"} /\ OpInv(proc[p].cmd, proc[p].at)'
      /\ proc'[p].at = "load" => proc'[p].cmd.op # "apiLogin"
      /\ proc'[p].cmd = c
  <2>1. proc'[p].cmd = c /\ proc'[p].at \in {"asked", First(c)}
    BY DEF Begun
  <2>2. First(c) \in Starts /\ (First(c) = "load" => c.op # "apiLogin") /\ OpInv(c, First(c))'
    <3>1. First(c) \in Starts /\ (First(c) = "load" => c.op # "apiLogin")
      BY CommandsAre DEF First, Starts
    <3>2. (OpInv(c, "asked") => OpInv(c, First(c)))'
      BY FirstIs, PTL
    <3> QED
      BY <3>1, <3>2
  <2>3. CASE proc'[p].at = "asked"
    BY <2>1, <2>3
  <2>4. CASE proc'[p].at = First(c)
    BY <2>1, <2>2, <2>4
  <2> QED
    BY <2>1, <2>3, <2>4
<1>4. ASSUME NEW q \in Procs, q # p PROVE Same(q) /\ ~proc'[q].alone
  BY <1>4 DEF Begun
<1>5. CmdInv'
  <2>1. ASSUME NEW q \in Procs, q # p, Active(q) PROVE OpInv(proc[q].cmd, proc[q].at)'
    <3>1. proc'[q].cmd = proc[q].cmd /\ proc'[q].at = proc[q].at
      BY <1>4, <2>1 DEF Same
    <3>2. OpInv(proc[q].cmd, proc[q].at)
      BY <2>1 DEF CmdInv
    <3>3. \A n \in Names : ever[n] \subseteq ever'[n]
      BY DEF Begun
    <3> QED
      BY <3>1, <3>2, <3>3 DEF OpInv
  <2>2. ASSUME NEW q \in Procs, q # p, ~Active(q) PROVE proc'[q] = Rest
    <3>1. proc[q] = Rest
      BY <2>2 DEF CmdInv
    <3>2. proc[q] \in ProcType /\ proc'[q] \in ProcType
      BY DEF Begun, TypeOK
    <3>3. ~proc[q].alone /\ ~proc'[q].alone /\ ~proc[q].met /\ ~proc'[q].met
      BY <1>4, <2>2, <3>1, RestIs DEF Begun
    <3> QED
      BY <1>4, <2>2, <3>1, <3>2, <3>3 DEF Same, ProcType
  <2>3. (Active(p))' /\ proc'[p].model = ""
    BY <1>3 DEF Begun, Starts
  <2>4. \A q \in Procs : q # p => /\ proc'[q].at = proc[q].at /\ proc'[q].model = proc[q].model
    BY <1>4 DEF Same
  <2> QED
    BY <1>3, <2>1, <2>2, <2>3, <2>4 DEF CmdInv
<1>6. AloneInv'
  <2>1. (Active(p))' /\ (proc'[p].alone <=> ~busy) /\ (overlapped' <=> overlapped \/ busy)
    BY <1>3 DEF Begun, Starts
  <2>2. \A q \in Procs : q # p => ~proc'[q].alone /\ ((Active(q))' <=> Active(q))
    BY <1>4 DEF Same
  <2>3. ASSUME ~busy PROVE \A q \in Procs : q # p => ~(Active(q))'
    BY <2>2, <2>3
  <2>4. ASSUME NEW q \in Procs, proc'[q].alone
        PROVE  (Active(q))' /\ \A r \in Procs : (Active(r))' => r = q
    <3>1. q = p /\ ~busy
      BY <2>1, <2>2, <2>4
    <3> QED
      BY <2>1, <2>3, <3>1
  <2>5. ASSUME NEW q \in Procs, ~overlapped', (Active(q))' PROVE proc'[q].alone
    <3>1. ~busy
      BY <2>1, <2>5
    <3>2. q = p
      BY <2>3, <2>5, <3>1
    <3> QED
      BY <2>1, <3>1, <3>2
  <2> HIDE DEF busy
  <2> QED
    BY <2>4, <2>5 DEF AloneInv
<1>7. FreshInv'
  <2>1. ASSUME proc'[p].alone PROVE Fresh(p)'
    <3>1. file' = file /\ before'.file = file
      BY <2>1 DEF Begun, Snapshot
    <3>2. proc'[p].at \notin {"ok", "failed", "save"} /\ (proc'[p].at \in Holding => proc'[p].at = "asked")
      BY <1>3 DEF Starts, Holding
    <3>3. proc'[p].at = "asked" => proc'[p].cfg = Loaded(file, EnvURL[p])
      BY CommandsAre DEF Begun, First
    <3>4. token' = before'.token /\ key' = before'.key
      BY <2>1 DEF Begun, Snapshot
    <3> QED
      BY <1>3, <3>1, <3>2, <3>3, <3>4 DEF Fresh, Starts
  <2>2. ASSUME NEW q \in Procs, ~proc'[q].alone PROVE Fresh(q)'
    BY <2>2 DEF Fresh
  <2> QED
    BY <1>4, <2>1, <2>2 DEF FreshInv
<1>8. MetInv' /\ OutInv'
  <2>1. proc'[p].cmd = c /\ proc'[p].at \notin {"request", "save"} /\ token' = token /\ raced' = raced
    BY <1>3 DEF Begun, Starts
  <2>2. MetInv'
    <3>1. SUFFICES ASSUME NEW q \in Procs, (Is(q, "logout") /\ ~proc[q].met)'
                   PROVE  /\ \A r \in Procs : proc'[r].cmd.op \notin TokenOps
                          /\ proc'[q].at = "save" => ~token'
      BY DEF MetInv
    <3>2. CASE q = p
      <4>1. c.op = "logout" /\ \A r \in Procs : proc[r].cmd.op \notin TokenOps
        BY <2>1, <3>1, <3>2 DEF Begun
      <4> QED
        BY <1>4, <2>1, <3>2, <4>1 DEF Same, TokenOps
    <3>3. CASE q # p
      <4>1. Is(q, "logout") /\ ~proc[q].met /\ c.op \notin TokenOps /\ proc'[q].at = proc[q].at
        BY <3>1, <3>3 DEF Begun, Same
      <4>2. (\A r \in Procs : proc[r].cmd.op \notin TokenOps) /\ (proc[q].at = "save" => ~token)
        BY <4>1 DEF MetInv
      <4> QED
        BY <1>4, <2>1, <4>1, <4>2 DEF Same
    <3> QED
      BY <3>2, <3>3
  <2>3. OutInv'
    <3>1. SUFFICES ASSUME signedOut, c.op # "login" PROVE OutInv'
      BY DEF OutInv, Begun
    <3>2. "account" \notin raced => ~proc'[p].cfg.auth
      <4>1. "account" \notin raced => ~Loaded(file, EnvURL[p]).auth
        BY <3>1, ConstantTypes, LoadedIs DEF OutInv, TypeOK
      <4> QED
        BY <4>1, EmptyIs DEF Begun
    <3>3. file' = file
      BY DEF Begun
    <3> QED
      BY <1>4, <2>1, <3>1, <3>2, <3>3 DEF OutInv, Same
  <2> QED
    BY <2>2, <2>3
<1>9. KeyInv'
  <2>1. ASSUME NEW q \in Procs, Is(q, "apiLogout") PROVE (Is(q, "apiLogout"))' /\ Same(q)
    <3>1. q # p
      BY <1>2, <2>1, RestIs
    <3> QED
      BY <1>4, <2>1, <3>1 DEF Same
  <2> QED
    BY <2>1 DEF KeyInv, Begun, Same
<1>10. EverInv'
  <2>1. SUFFICES ASSUME NEW n \in Names
        PROVE /\ file'.prov[n].pinned => file'.prov[n].model \in Set(n)'
              /\ \A q \in Procs : proc'[q].cfg.prov[n].pinned => proc'[q].cfg.prov[n].model \in Set(n)'
    BY DEF EverInv
  <2>2. Set(n) \subseteq Set(n)'
    BY DEF Set, Begun
  <2>3. file'.prov[n].pinned => file'.prov[n].model \in Set(n)'
    BY <2>2 DEF EverInv, Begun
  <2>4. ASSUME NEW q \in Procs, q # p, proc'[q].cfg.prov[n].pinned PROVE proc'[q].cfg.prov[n].model \in Set(n)'
    BY <1>4, <2>2, <2>4 DEF EverInv, Same
  <2>5. ASSUME proc'[p].cfg.prov[n].pinned PROVE proc'[p].cfg.prov[n].model \in Set(n)'
    <3>1. proc'[p].cfg = Loaded(file, EnvURL[p])
      BY <2>5, EmptyIs DEF Begun
    <3>2. file.prov[n].pinned /\ proc'[p].cfg.prov[n].model = Current(file.prov[n].model)
      BY <2>5, <3>1, ConstantTypes, LoadedIs DEF TypeOK
    <3> QED
      BY <2>2, <3>2, SetIs DEF EverInv
  <2> QED
    BY <2>3, <2>4, <2>5
<1>11. ForceInv'
  BY DEF ForceInv, InForce, Begun
<1>12. PinRespected'
  <2>1. SUFFICES ASSUME NEW q \in Procs, ((Is(q, "run") /\ At(q, "probe")) \/ (Is(q, "show") /\ At(q, "ok")))'
        PROVE  /\ proc'[q].model \in Chosen(proc[q].cmd.name)'
               /\ ~overlapped' /\ ~proc'[q].blind => proc'[q].model = Current(pin'[proc'[q].cmd.name])
    BY DEF PinRespected, Chosen
  <2>2. q # p
    BY <1>3, <2>1 DEF Starts
  <2>3. Same(q)
    BY <1>4, <2>2
  <2>4. proc[q].model \in Chosen(Name(q)) /\ (~overlapped /\ ~proc[q].blind => proc[q].model = Current(pin[Name(q)]))
    BY <2>1, <2>3 DEF PinRespected, Chosen, Same
  <2>5. Name(q) \in Names
    <3>1. Active(q) /\ ((Is(q, "run") /\ At(q, "probe")) \/ (Is(q, "show") /\ At(q, "ok")))
      BY <2>1, <2>3 DEF Same
    <3>2. OpInv(proc[q].cmd, proc[q].at)
      BY <3>1 DEF CmdInv
    <3> QED
      BY <3>1, <3>2 DEF OpInv, Names
  <2>6. Chosen(Name(q)) \subseteq Chosen(proc[q].cmd.name)'
    BY <2>3, <2>5 DEF Chosen, Begun, Same
  <2>7. pin' = pin /\ (~overlapped' => ~overlapped)
    BY DEF Begun
  <2> QED
    BY <2>3, <2>4, <2>6, <2>7 DEF Same
<1> QED
  BY <1>1, <1>5, <1>6, <1>7, <1>8, <1>9, <1>10, <1>11, <1>12

\* What the others have is not disturbed by a step of p that leaves ever and pin alone.
LEMMA OthersKept ==
    ASSUME CmdInv, PinRespected, NEW p \in Procs, NEW q \in Procs, q # p,
           proc'[q] = proc[q], ever' = ever, pin' = pin, overlapped' = overlapped
    PROVE  /\ (Active(q))' => OpInv(proc[q].cmd, proc[q].at)'
           /\ ~(Active(q))' => proc'[q] = Rest
           /\ proc'[q].at \notin {"probe", "ok", "failed"} => proc'[q].model = ""
           /\ ((Is(q, "run") /\ At(q, "probe")) \/ (Is(q, "show") /\ At(q, "ok")))' =>
                /\ proc'[q].model \in Chosen(Name(q))
                /\ ~overlapped /\ ~proc'[q].blind => proc'[q].model = Current(pin[Name(q)])
<1>1. OpInv(proc[q].cmd, proc[q].at) => OpInv(proc[q].cmd, proc[q].at)'
  BY DEF OpInv
<1> QED
  BY <1>1 DEF CmdInv, PinRespected, Chosen

\* Who is alone is alone with its step.
LEMMA OnlyOne ==
    ASSUME AloneInv, NEW p \in Procs, Active(p), NEW q \in Procs, proc[q].alone PROVE q = p
  BY DEF AloneInv

LEMMA AnswerKeeps ==
    ASSUME TypeOK, Inv, NEW p \in Procs, Replied(p)
    PROVE  TypeOK' /\ Inv'
<1> USE DEF Inv
<1>1. TypeOK'
  BY DEF Replied, TypeOK
<1>2. Active(p) /\ OpInv(proc[p].cmd, "asked")
  BY DEF Replied, CmdInv
<1>3. /\ proc'[p].at \in Starts /\ OpInv(proc[p].cmd, proc[p].at)'
      /\ proc'[p].at = "load" => proc[p].cmd.op # "apiLogin"
  <2>1. OpInv(proc[p].cmd, First(proc[p].cmd)) /\ First(proc[p].cmd) \in Starts
        /\ (First(proc[p].cmd) = "load" => proc[p].cmd.op # "apiLogin")
    BY <1>2, FirstIs
  <2>2. proc'[p].cmd = proc[p].cmd /\ proc'[p].at = First(proc[p].cmd) /\ ever' = ever
    BY DEF Replied
  <2>3. OpInv(proc[p].cmd, proc[p].at)'
    BY <2>1, <2>2 DEF OpInv
  <2> QED
    BY <2>1, <2>2, <2>3
<1>4. ASSUME NEW q \in Procs, q # p PROVE proc'[q] = proc[q]
  BY <1>4 DEF Replied
<1>5. ~overlapped \/ proc[p].alone => file'.prov = file.prov \/ file'.prov = Loaded(file, EnvURL[p]).prov
  BY <1>2 DEF AloneInv, FreshInv, Fresh, Replied, Holding
<1>6. CmdInv'
  <2>1. (Active(p))' /\ proc'[p].model = ""
    BY <1>3 DEF Replied, CmdInv, Starts
  <2> QED
    BY <1>3, <1>4, <2>1, OthersKept DEF CmdInv, Replied
<1>7. AloneInv'
  BY <1>2, <1>3, <1>4 DEF AloneInv, Replied, Starts
<1>8. FreshInv'
  <2>1. ASSUME proc'[p].alone PROVE Fresh(p)'
    <3>1. /\ token' = token /\ key' = key /\ before' = [before EXCEPT !.file = file']
          /\ proc'[p].cmd = proc[p].cmd /\ proc[p].alone
      BY <2>1 DEF Replied
    <3>2. before'.token = before.token /\ before'.key = before.key /\ before'.file = file'
      BY <3>1 DEF TypeOK
    <3>3. /\ token = before.token \/ proc[p].cmd.op \in {"login", "logout"}
          /\ \A n \in API : key[n] = before.key[n] \/ (proc[p].cmd.op \in {"apiLogin", "apiLogout"} /\ n = Name(p))
      BY <3>1 DEF FreshInv, Fresh
    <3> QED
      BY <1>3, <3>1, <3>2, <3>3 DEF Fresh, Starts, Holding
  <2>2. ASSUME NEW q \in Procs, q # p PROVE ~proc'[q].alone
    BY <1>2, <1>4, <2>2, OnlyOne
  <2>3. ASSUME NEW q \in Procs, ~proc'[q].alone PROVE Fresh(q)'
    BY <2>3 DEF Fresh
  <2> QED
    BY <2>1, <2>2, <2>3 DEF FreshInv
<1>9. MetInv' /\ OutInv'
  <2>1. /\ \A q \in Procs : proc'[q].cmd = proc[q].cmd /\ proc'[q].cfg = proc[q].cfg /\ proc'[q].met = proc[q].met
        /\ \A q \in Procs : q # p => proc'[q].at = proc[q].at
        /\ proc[p].at # "ok" /\ proc'[p].at \notin {"request", "save"}
        /\ token' = token /\ signedOut' = signedOut /\ raced' = raced
    BY <1>3, <1>4 DEF Replied, Starts
  <2>2. file'.auth = file.auth \/ file'.auth = proc[p].cfg.auth
    BY DEF Replied
  <2> QED
    BY <2>1, <2>2 DEF MetInv, OutInv
<1>10. KeyInv'
  <2>1. SUFFICES ASSUME ~overlapped, ~cut, NEW n \in API, file'.prov[n].in
        PROVE  key[n] \/ \E q \in Procs : (Is(q, "apiLogout") /\ Name(q) = n /\ At(q, "save"))'
    BY DEF KeyInv, Replied
  <2>2. file.prov[n].in
    <3>1. EnvURL[p] \in Text /\ n \in Names /\ file \in Configs
      BY ConstantTypes DEF TypeOK, Names
    <3>2. Loaded(file, EnvURL[p]).prov[n].in = file.prov[n].in
      BY <3>1, LoadedIs
    <3> QED
      BY <1>5, <2>1, <3>2
  <2>3. ASSUME NEW q \in Procs, At(q, "save") PROVE proc'[q] = proc[q]
    BY <1>4, <2>3 DEF Replied
  <2> QED
    BY <2>1, <2>2, <2>3 DEF KeyInv
<1>11. EverInv'
  <2>1. ever' = ever /\ \A q \in Procs : proc'[q].cfg = proc[q].cfg
    BY <1>4 DEF Replied
  <2>2. file'.prov = file.prov \/ file'.prov = proc[p].cfg.prov
    BY DEF Replied
  <2> QED
    BY <2>1, <2>2 DEF EverInv, Set
<1>12. ForceInv'
  <2>1. SUFFICES ASSUME ~overlapped, NEW n \in Names PROVE InForce(file', n) = Current(pin[n])
    BY DEF ForceInv, Replied, InForce
  <2>2. CASE file'.prov = file.prov
    BY <2>1, <2>2 DEF ForceInv, InForce
  <2>3. CASE file'.prov = Loaded(file, EnvURL[p]).prov
    <3>1. /\ file'.prov[n].pinned = file.prov[n].pinned
          /\ file'.prov[n].model = Current(file.prov[n].model)
      BY <2>3, ConstantTypes, LoadedIs DEF TypeOK
    <3>2. file.prov[n].model \in Text
      BY DEF TypeOK, Configs, Entries
    <3> QED
      BY <2>1, <3>1, <3>2, CurrentIs DEF ForceInv, InForce
  <2> QED
    BY <1>5, <2>1, <2>2, <2>3
<1>13. PinRespected'
  <2>1. proc'[p].at \notin {"probe", "ok"}
    BY <1>3 DEF Starts
  <2>2. ever' = ever /\ pin' = pin /\ overlapped' = overlapped
    BY DEF Replied
  <2> QED
    BY <1>4, <2>1, <2>2, OthersKept DEF PinRespected, Chosen
<1> QED
  BY <1>1, <1>6, <1>7, <1>8, <1>9, <1>10, <1>11, <1>12, <1>13

LEMMA EndKeeps ==
    ASSUME TypeOK, Inv, NEW p \in Procs, Ended(p)
    PROVE  TypeOK' /\ Inv'
<1> USE DEF Inv
<1>1. TypeOK'
  BY DEF Ended, TypeOK
<1>2. Active(p) /\ proc'[p] = Rest /\ \A q \in Procs : q # p => proc'[q] = proc[q]
  BY DEF Ended
<1>3. ever' = ever /\ pin' = pin /\ overlapped' = overlapped
  BY DEF Ended
<1>4. CmdInv'
  BY <1>2, <1>3, RestIs, OthersKept DEF CmdInv
<1>5. AloneInv'
  BY <1>2, RestIs DEF AloneInv, Ended
<1>6. FreshInv'
  BY <1>2, RestIs, OnlyOne DEF FreshInv, Fresh
<1>7. MetInv' /\ OutInv'
  BY <1>2, RestIs, EmptyIs DEF MetInv, OutInv, Ended, TokenOps
<1>8. KeyInv'
  BY <1>2 DEF KeyInv, Ended
<1>9. EverInv' /\ ForceInv'
  BY <1>2, RestIs, EmptyIs DEF EverInv, ForceInv, Ended, Set, InForce
<1>10. PinRespected'
  BY <1>2, <1>3, RestIs, OthersKept DEF PinRespected, Chosen
<1> QED
  BY <1>1, <1>4, <1>5, <1>6, <1>7, <1>8, <1>9, <1>10

LEMMA LoadKeeps ==
    ASSUME TypeOK, Inv, NEW p \in Procs, Read(p)
    PROVE  TypeOK' /\ Inv'
<1> USE DEF Inv
<1> DEFINE c == Loaded(file, EnvURL[p])
<1>1. TypeOK'
  BY DEF Read, TypeOK
<1>2. Active(p) /\ OpInv(proc[p].cmd, "load") /\ proc[p].at = "load"
  BY DEF Read, CmdInv
<1>3. /\ proc'[p].at \in {"keyring", "deleteKey", "ok", "checks", "model", "save", "failed"}
      /\ OpInv(proc[p].cmd, proc[p].at)'
  BY DEF Read, OpInv
<1>4. \A q \in Procs : q # p => proc'[q] = proc[q]
  BY DEF Read
<1>5. ever' = ever /\ pin' = pin /\ overlapped' = overlapped
  BY DEF Read
<1>6. /\ c.auth = file.auth
      /\ \A n \in Names : c.prov[n].pinned = file.prov[n].pinned /\ c.prov[n].model = Current(file.prov[n].model)
  BY ConstantTypes, LoadedIs DEF TypeOK
<1>7. proc'[p].cfg = c \/ (proc'[p].cfg = proc[p].cfg /\ proc'[p].at \notin Holding)
  BY DEF Read, Holding
<1> HIDE DEF c
<1>8. CmdInv'
  <2>1. proc'[p].at \notin {"ok", "failed"} => proc'[p].model = ""
    BY <1>2 DEF Read, CmdInv
  <2>2. (Active(p))'
    BY <1>3
  <2> QED
    BY <1>3, <1>4, <1>5, <2>1, <2>2, OthersKept DEF CmdInv
<1>9. AloneInv'
  BY <1>2, <1>3, <1>4 DEF AloneInv, Read
<1>10. FreshInv'
  <2>1. ASSUME proc[p].alone PROVE Fresh(p)'
    <3>1. file = before.file /\ file' = file /\ before' = before /\ token' = token /\ key' = key
      BY <1>2, <2>1 DEF FreshInv, Fresh, Read
    <3>2. proc'[p].at \in Holding => proc'[p].cfg = Loaded(file', EnvURL[p])
      BY <1>7, <3>1 DEF c
    <3>3. proc'[p].at = "ok" => AllDone(p)'
      <4>1. SUFFICES ASSUME proc'[p].at = "ok" PROVE AllDone(p)'
        OBVIOUS
      <4>2. \/ proc[p].cmd.op = "show"
            \/ proc[p].cmd.op = "clear" /\ c.prov[Name(p)] = NoEntry
        BY <4>1 DEF Read, c
      <4>3. proc'[p].cmd = proc[p].cmd
        BY <4>2 DEF Read
      <4> QED
        BY <3>1, <4>2, <4>3 DEF AllDone, Edits, c
    <3>4. proc'[p].at \in {"save", "ok"} => proc'[p].cmd.op \notin {"login", "logout"}
      BY DEF Read
    <3>5. proc'[p].cmd.op = "apiLogin" => key'[proc'[p].cmd.name]
      BY <1>2, <2>1, <3>1 DEF FreshInv, Fresh, Read
    <3>6. token = before.token \/ proc'[p].cmd.op \in {"login", "logout"}
      BY <2>1 DEF FreshInv, Fresh, Read
    <3>7. \A n \in API : key[n] = before.key[n]
                        \/ (proc'[p].cmd.op \in {"apiLogin", "apiLogout"} /\ n = proc'[p].cmd.name)
      BY <2>1 DEF FreshInv, Fresh, Read
    <3>8. proc'[p].at # "request"
      BY <1>3
    <3> QED
      BY <3>1, <3>2, <3>3, <3>4, <3>5, <3>6, <3>7, <3>8 DEF Fresh
  <2>2. ASSUME ~proc[p].alone PROVE Fresh(p)'
    BY <2>2 DEF Fresh, Read
  <2>3. ASSUME NEW q \in Procs, q # p PROVE Fresh(q)'
    BY <1>2, <1>4, <2>3, OnlyOne DEF Fresh
  <2> QED
    BY <2>1, <2>2, <2>3 DEF FreshInv
<1>11. MetInv' /\ OutInv'
  <2>1. /\ \A q \in Procs : proc'[q].cmd.op = proc[q].cmd.op /\ proc'[q].met = proc[q].met
        /\ \A q \in Procs : q # p => proc'[q] = proc[q]
        /\ proc[p].at # "ok" /\ proc'[p].at # "request"
        /\ proc'[p].at = "save" => proc[p].cmd.op # "logout"
        /\ token' = token /\ file' = file /\ signedOut' = signedOut /\ raced' = raced
    BY <1>2, <1>3 DEF Read
  <2>2. proc'[p].cfg.auth => file.auth \/ proc[p].cfg.auth
    BY <1>6, <1>7
  <2> QED
    BY <2>1, <2>2 DEF MetInv, OutInv
<1>12. KeyInv'
  BY <1>2, <1>4 DEF KeyInv, Read
<1>13. EverInv'
  <2>1. SUFFICES ASSUME NEW n \in Names
        PROVE /\ file.prov[n].pinned => file.prov[n].model \in Set(n)
              /\ \A q \in Procs : proc'[q].cfg.prov[n].pinned => proc'[q].cfg.prov[n].model \in Set(n)
    BY <1>5 DEF EverInv, Read, Set
  <2>2. file.prov[n].pinned => file.prov[n].model \in Set(n) /\ Current(file.prov[n].model) \in Set(n)
    BY SetIs DEF EverInv
  <2>3. proc'[p].cfg.prov[n].pinned => proc'[p].cfg.prov[n].model \in Set(n)
    BY <1>6, <1>7, <2>2 DEF EverInv
  <2> QED
    BY <1>4, <2>2, <2>3 DEF EverInv
<1>14. ForceInv'
  BY DEF ForceInv, InForce, Read
<1>15. PinRespected'
  <2>1. SUFFICES ASSUME proc'[p].cmd.op = "show", proc'[p].at = "ok"
        PROVE  /\ proc'[p].model \in Chosen(proc'[p].cmd.name)
               /\ ~overlapped => proc'[p].model = Current(pin[proc'[p].cmd.name])
    BY <1>3, <1>4, <1>5, OthersKept DEF PinRespected, Chosen
  <2>2. /\ proc[p].cmd.op = "show" /\ proc'[p].cmd = proc[p].cmd
        /\ proc'[p].model = Configured(c, Name(p))
    BY <2>1 DEF Read, c
  <2>3. Name(p) \in Names
    BY <1>2, <2>2 DEF OpInv
  <2> QED
    BY <2>2, <2>3, PinnedIs DEF c
<1> QED
  BY <1>1, <1>8, <1>9, <1>10, <1>11, <1>12, <1>13, <1>14, <1>15

LEMMA SaveKeeps ==
    ASSUME TypeOK, Inv, NEW p \in Procs, Saved(p)
    PROVE  TypeOK' /\ Inv'
<1> USE DEF Inv
<1> DEFINE cmd == proc[p].cmd
           c == proc[p].cfg
<1>1. TypeOK'
  BY DEF Saved, TypeOK
<1>2. Active(p) /\ OpInv(cmd, "save") /\ proc[p].at = "save" /\ proc'[p].at = "ok"
  BY DEF Saved, CmdInv
<1>3. \A q \in Procs : q # p => proc'[q] = proc[q]
  BY DEF Saved
<1>4. /\ proc'[p].cmd = cmd /\ proc'[p].cfg = c /\ proc'[p].alone = proc[p].alone /\ proc'[p].met = proc[p].met
      /\ file' = Edit(cmd, c) /\ token' = token /\ key' = key
      /\ ever' = ever /\ overlapped' = overlapped /\ before' = before /\ cut' = cut
  BY DEF Saved
<1>5. c \in Configs /\ cmd \in CommandType /\ Editable(cmd) /\ Edits(cmd)
  BY DEF TypeOK, ProcType, Saved, Editable
<1>6. ~overlapped => proc[p].alone
  BY <1>2 DEF AloneInv
<1>7. proc[p].alone => c = Loaded(file, EnvURL[p]) /\ file = before.file
  BY <1>2 DEF FreshInv, Fresh, Holding
<1>8. ASSUME proc[p].alone, NEW q \in Procs, q # p PROVE proc[q] = Rest
  BY <1>2, <1>8 DEF AloneInv, CmdInv
\* What is in the file now.
<1>9. ASSUME NEW n \in Names
      PROVE  /\ ~(cmd.op \in PinOps /\ n = cmd.name) => file'.prov[n] = c.prov[n]
             /\ cmd.op \in PinOps /\ n = cmd.name =>
                  /\ file'.prov[n].in => c.prov[n].in \/ cmd.op = "apiLogin"
                  /\ cmd.op = "apiLogout" => ~file'.prov[n].in
                  /\ file'.prov[n].pinned <=> cmd.op = "pin"
                  /\ cmd.op = "pin" => file'.prov[n].model = cmd.arg
  <2>1. CASE cmd.op \in PinOps
    BY <1>4, <1>5, <2>1, PinEditIs
  <2>2. CASE cmd.op \notin PinOps
    BY <1>4, <1>5, <2>2, OtherEditIs
  <2> QED
    BY <2>1, <2>2
<1>10. /\ cmd.op # "login" => (file'.auth => c.auth)
       /\ cmd.op = "logout" => ~file'.auth
  <2>1. CASE cmd.op \in PinOps
    BY <1>4, <1>5, <2>1, PinEditIs DEF PinOps
  <2>2. CASE cmd.op \notin PinOps
    BY <1>4, <1>5, <2>2, OtherEditIs
  <2> QED
    BY <2>1, <2>2
<1> HIDE DEF cmd, c
<1>11. CmdInv'
  <2>1. OpInv(proc[p].cmd, proc[p].at)'
    BY <1>2, <1>4 DEF OpInv, Steps
  <2>2. (Active(p))' /\ proc'[p].at = "ok"
    BY <1>2, <1>4
  <2>3. ASSUME NEW q \in Procs, q # p
        PROVE  /\ (Active(q))' => OpInv(proc[q].cmd, proc[q].at)'
               /\ ~(Active(q))' => proc'[q] = Rest
               /\ proc'[q].at \notin {"probe", "ok", "failed"} => proc'[q].model = ""
    <3>1. OpInv(proc[q].cmd, proc[q].at) => OpInv(proc[q].cmd, proc[q].at)'
      BY <1>3, <1>4, <2>3 DEF OpInv
    <3> QED
      BY <1>3, <2>3, <3>1 DEF CmdInv
  <2> QED
    BY <2>1, <2>2, <2>3 DEF CmdInv
<1>12. AloneInv'
  BY <1>2, <1>3, <1>4 DEF AloneInv
<1>13. FreshInv'
  <2>1. ASSUME proc[p].alone PROVE Fresh(p)'
    <3>1. AllDone(p)'
      BY <1>4, <1>5, <1>7, <2>1 DEF AllDone
    <3>2. /\ cmd.op = "login" => token
          /\ cmd.op = "logout" => ~token
          /\ cmd.op = "apiLogin" => key[cmd.name]
      BY <1>2, <2>1 DEF FreshInv, Fresh, cmd
    <3>3. /\ token = before.token \/ cmd.op \in {"login", "logout"}
          /\ \A n \in API : key[n] = before.key[n] \/ (cmd.op \in {"apiLogin", "apiLogout"} /\ n = cmd.name)
      BY <2>1 DEF FreshInv, Fresh, cmd
    <3> QED
      BY <1>2, <1>4, <3>1, <3>2, <3>3 DEF Fresh, Holding
  <2>2. ASSUME ~proc[p].alone PROVE Fresh(p)'
    BY <1>4, <2>2 DEF Fresh
  <2>3. ASSUME NEW q \in Procs, q # p PROVE Fresh(q)'
    BY <1>2, <1>3, <2>3, OnlyOne DEF Fresh
  <2> QED
    BY <2>1, <2>2, <2>3 DEF FreshInv
<1>14. MetInv' /\ OutInv'
  <2>1. /\ \A q \in Procs : proc'[q].cmd = proc[q].cmd /\ proc'[q].met = proc[q].met /\ proc'[q].cfg = proc[q].cfg
        /\ \A q \in Procs : q # p => proc'[q].at = proc[q].at
        /\ proc'[p].at = "ok"
    BY <1>2, <1>3, <1>4 DEF cmd, c
  <2>2. MetInv'
    BY <1>4, <2>1 DEF MetInv
  <2>3. OutInv'
    <3>1. CASE cmd.op = "logout"
      <4>1. ~proc[p].met =>
              ~token /\ \A q \in Procs : proc[q].cmd.op \notin TokenOps /\ proc[q].at # "request"
        <5>1. SUFFICES ASSUME ~proc[p].met PROVE ~token /\ \A q \in Procs : proc[q].cmd.op \notin TokenOps /\ proc[q].at # "request"
          OBVIOUS
        <5>2. ~token /\ \A q \in Procs : proc[q].cmd.op \notin TokenOps
          BY <1>2, <3>1, <5>1 DEF MetInv, cmd
        <5>3. ASSUME NEW q \in Procs, proc[q].at = "request" PROVE FALSE
          BY <5>2, <5>3 DEF CmdInv, OpInv, TokenOps
        <5> QED
          BY <5>2, <5>3
      <4>2. proc[p].alone =>
              ~file'.auth /\ \A q \in Procs : q # p => proc[q].cmd.op = "none" /\ ~proc[q].cfg.auth
        BY <1>8, <1>10, <3>1, RestIs, EmptyIs
      <4>3. /\ "token" \notin raced' => ~proc[p].met
            /\ "account" \notin raced' => proc[p].alone
        BY <3>1 DEF Saved, cmd
      <4> QED
        BY <1>4, <2>1, <3>1, <4>1, <4>2, <4>3 DEF OutInv, cmd, TokenOps
    <3>2. CASE cmd.op # "logout"
      <4>1. signedOut' = signedOut /\ raced' = raced
        BY <3>2 DEF Saved, cmd, TypeOK
      <4>2. signedOut /\ "account" \notin raced => cmd.op # "login" /\ ~c.auth
        BY <1>2 DEF OutInv, cmd, c
      <4>3. signedOut /\ "account" \notin raced => ~file'.auth
        BY <1>10, <4>2
      <4> QED
        BY <1>4, <2>1, <4>1, <4>3 DEF OutInv
    <3> QED
      BY <3>1, <3>2
  <2> QED
    BY <2>2, <2>3
<1>15. KeyInv'
  <2>1. SUFFICES ASSUME ~overlapped, ~cut, NEW n \in API, file'.prov[n].in PROVE key[n]
    BY <1>4 DEF KeyInv
  <2>2. n \in Names /\ c = Loaded(file, EnvURL[p])
    BY <1>6, <1>7, <2>1 DEF Names
  <2>3. c.prov[n].in = file.prov[n].in
    <3>1. EnvURL[p] \in Text /\ file \in Configs
      BY ConstantTypes DEF TypeOK
    <3>2. Loaded(file, EnvURL[p]).prov[n].in = file.prov[n].in
      BY <2>2, <3>1, LoadedIs
    <3> QED
      BY <2>2, <3>2
  <2>4. CASE cmd.op = "apiLogin" /\ n = cmd.name
    BY <1>2, <1>6, <2>1, <2>4 DEF FreshInv, Fresh, cmd
  <2>5. CASE ~(cmd.op = "apiLogin" /\ n = cmd.name)
    <3>1. file.prov[n].in
      BY <1>9, <2>1, <2>2, <2>3, <2>5
    <3>2. ASSUME NEW q \in Procs, Is(q, "apiLogout"), Name(q) = n, At(q, "save") PROVE FALSE
      <4>1. q = p
        BY <1>6, <2>1, <3>2 DEF AloneInv
      <4> QED
        BY <1>9, <2>1, <2>2, <3>2, <4>1 DEF PinOps, cmd
    <3> QED
      BY <2>1, <3>1, <3>2 DEF KeyInv
  <2> QED
    BY <2>4, <2>5
<1>16. EverInv'
  <2>1. SUFFICES ASSUME NEW n \in Names
        PROVE /\ file'.prov[n].pinned => file'.prov[n].model \in Set(n)
              /\ \A q \in Procs : proc'[q].cfg.prov[n].pinned => proc'[q].cfg.prov[n].model \in Set(n)
    BY <1>4 DEF EverInv, Set
  <2>2. c.prov[n].pinned => c.prov[n].model \in Set(n)
    BY DEF EverInv, c
  <2>3. cmd.op = "pin" /\ n = cmd.name => cmd.arg \in Set(n)
    BY <1>2 DEF OpInv, Set
  <2>4. file'.prov[n].pinned => file'.prov[n].model \in Set(n)
    BY <1>9, <2>2, <2>3
  <2> QED
    BY <1>3, <1>4, <2>2, <2>4 DEF EverInv
<1>17. ForceInv'
  <2>1. SUFFICES ASSUME ~overlapped, NEW n \in Names PROVE InForce(file', n) = Current(pin'[n])
    BY <1>4 DEF ForceInv, InForce
  <2>2. c = Loaded(file, EnvURL[p])
    BY <1>6, <1>7, <2>1
  <2>3. c.prov[n].pinned = file.prov[n].pinned /\ c.prov[n].model = Current(file.prov[n].model)
    BY <2>2, ConstantTypes, LoadedIs DEF TypeOK
  <2>4. file.prov[n].model \in Text
    BY DEF TypeOK, Configs, Entries
  <2>5. CASE ~(cmd.op \in PinOps /\ n = cmd.name)
    <3>1. pin'[n] = pin[n]
      BY <2>5 DEF Saved, cmd
    <3>2. file'.prov[n] = c.prov[n]
      BY <1>9, <2>5
    <3>3. InForce(file', n) = InForce(file, n)
      BY <2>3, <2>4, <3>2, CurrentIs DEF InForce
    <3> QED
      BY <2>1, <3>1, <3>3 DEF ForceInv
  <2>6. CASE cmd.op \in PinOps /\ n = cmd.name
    <3>1. pin'[n] = IF cmd.op = "pin" THEN cmd.arg ELSE ""
      BY <2>6 DEF Saved, cmd
    <3>2. Current("") = ""
      BY <2>4, CurrentIs
    <3> QED
      BY <1>9, <2>6, <3>1, <3>2 DEF InForce
  <2> QED
    BY <2>5, <2>6
<1>18. PinRespected'
  <2>1. cmd.op \notin {"run", "show"}
    BY <1>5 DEF Edits
  <2>2. SUFFICES ASSUME NEW q \in Procs, q # p, (Is(q, "run") /\ At(q, "probe")) \/ (Is(q, "show") /\ At(q, "ok"))
        PROVE  /\ proc[q].model \in Chosen(Name(q))
               /\ ~overlapped /\ ~proc[q].blind => proc[q].model = Current(pin'[Name(q)])
    BY <1>3, <1>4, <2>1 DEF PinRespected, Chosen
  <2>3. overlapped
    BY <1>2, <1>6, <2>2 DEF AloneInv
  <2> QED
    BY <2>2, <2>3 DEF PinRespected, Chosen
<1> QED
  BY <1>1, <1>11, <1>12, <1>13, <1>14, <1>15, <1>16, <1>17, <1>18

LEMMA InitKeeps == Init => TypeOK /\ Inv
<1> SUFFICES ASSUME Init PROVE TypeOK /\ Inv
  OBVIOUS
<1>1. PICK f \in Files : file = f /\ key = Keys[f] /\ token = f.auth
  BY DEF Init
<1>2. file \in Configs /\ key \in [API -> BOOLEAN] /\ token \in BOOLEAN
  <2>1. Files \subseteq Configs /\ Keys \in [Files -> [API -> BOOLEAN]]
    BY ShellAssumption
  <2> QED
    BY <1>1, <2>1 DEF Configs
<1>3. \A n \in API : file.prov[n].in => key[n]
  <2>1. \A g \in Files, n \in API : g.prov[n].in => Keys[g][n]
    BY ShellAssumption
  <2> QED
    BY <1>1, <2>1
<1>4. /\ proc = [p \in Procs |-> Rest] /\ left = MaxCommands
      /\ overlapped = FALSE /\ cut = FALSE /\ signedOut = FALSE /\ raced = {}
      /\ pin = [n \in Names |-> PinnedModel(file, n)] /\ ever = [n \in Names |-> {pin[n]} \ {""}]
      /\ before = Snapshot
  BY DEF Init
<1>5. ASSUME NEW n \in Names
      PROVE  /\ pin[n] \in Text /\ ever[n] = {pin[n]} \ {""}
             /\ pin[n] = IF file.prov[n].pinned THEN file.prov[n].model ELSE ""
  BY <1>2, <1>4 DEF PinnedModel, Configs, Entries, Text
<1>6. TypeOK
  <2>1. pin \in [Names -> Text]
    BY <1>4, <1>5
  <2>2. ever \in [Names -> SUBSET Text]
    BY <1>4, <1>5
  <2>3. proc \in [Procs -> ProcType] /\ left \in Nat
    BY <1>4, RestIs, ConstantTypes
  <2>4. before \in [file : Configs, token : BOOLEAN, key : [API -> BOOLEAN]]
    BY <1>2, <1>4 DEF Snapshot
  <2>5. overlapped \in BOOLEAN /\ cut \in BOOLEAN /\ signedOut \in BOOLEAN /\ raced \in SUBSET {"token", "account"}
    BY <1>4
  <2> QED
    BY <1>2, <2>1, <2>2, <2>3, <2>4, <2>5 DEF TypeOK
<1>7. CmdInv /\ AloneInv /\ FreshInv /\ MetInv /\ OutInv /\ PinRespected
  BY <1>4, RestIs DEF CmdInv, AloneInv, FreshInv, Fresh, MetInv, OutInv, PinRespected
<1>8. KeyInv
  BY <1>3 DEF KeyInv
<1>9. EverInv
  BY <1>4, <1>5, RestIs, EmptyIs DEF EverInv, Set
<1>10. ForceInv
  <2>1. Current("") = ""
    BY <1>2, CurrentIs DEF Text
  <2> QED
    BY <1>5, <2>1 DEF ForceInv, InForce
<1> QED
  BY <1>6, <1>7, <1>8, <1>9, <1>10 DEF Inv

LEMMA StutterKeeps == TypeOK /\ Inv /\ UNCHANGED vars => TypeOK' /\ Inv'
<1> SUFFICES ASSUME TypeOK, Inv, UNCHANGED vars PROVE TypeOK' /\ Inv'
  OBVIOUS
<1> USE DEF vars, stores, history
<1>1. TypeOK'
  BY DEF TypeOK
<1>2. CmdInv'
  <2>1. proc' = proc /\ \A p \in Procs : OpInv(proc[p].cmd, proc[p].at)' <=> OpInv(proc[p].cmd, proc[p].at)
    BY DEF OpInv
  <2> QED
    BY <2>1 DEF Inv, CmdInv
<1>5. AloneInv' /\ MetInv' /\ OutInv'
  BY DEF Inv, AloneInv, MetInv, OutInv
<1>3. FreshInv'
  BY DEF Inv, FreshInv, Fresh, AllDone
<1>4. KeyInv' /\ EverInv' /\ ForceInv' /\ PinRespected'
  BY DEF Inv, KeyInv, EverInv, ForceInv, PinRespected, Set, InForce
<1> QED
  BY <1>1, <1>2, <1>3, <1>4, <1>5 DEF Inv

LEMMA NextKeeps == TypeOK /\ Inv /\ [Next]_vars => TypeOK' /\ Inv'
<1> SUFFICES ASSUME TypeOK, Inv, [Next]_vars PROVE TypeOK' /\ Inv'
  OBVIOUS
<1>1. CmdInv
  BY DEF Inv
<1>2. ASSUME NEW p \in Procs, NEW c \in Commands, Begin(p, c) PROVE TypeOK' /\ Inv'
  BY <1>1, <1>2, BeginIs, BeginKeeps
<1>3. ASSUME NEW p \in Procs, Answer(p) PROVE TypeOK' /\ Inv'
  BY <1>1, <1>3, AnswerIs, AnswerKeeps
<1>4. ASSUME NEW p \in Procs, Exit(p) \/ Kill(p) PROVE TypeOK' /\ Inv'
  BY <1>4, EndIs, EndKeeps
<1>5. ASSUME NEW p \in Procs, Load(p) \/ LoadFails(p) PROVE TypeOK' /\ Inv'
  BY <1>1, <1>5, LoadIs, LoadKeeps
<1>6. ASSUME NEW p \in Procs, Save(p) PROVE TypeOK' /\ Inv'
  BY <1>1, <1>6, SaveIs, SaveKeeps
<1>7. ASSUME NEW p \in Procs, Move(p) PROVE TypeOK' /\ Inv'
  BY <1>1, <1>7, MoveIs, MoveKeeps
<1>8. CASE UNCHANGED vars
  BY <1>8, StutterKeeps
<1>9. CASE Done
  BY <1>8, <1>9 DEF Done
<1> QED
  BY <1>2, <1>3, <1>4, <1>5, <1>6, <1>7, <1>8, <1>9 DEF Next, Own, Outside, Move

-----------------------------------------------------------------------------
(* Theorems. *)

\* The configuration, the keyring and every process keep their types.
THEOREM TypeCorrect == Spec => []TypeOK
  BY InitKeeps, NextKeeps, PTL DEF Spec

\* The inductive invariant.
THEOREM InvAlways == Spec => []Inv
  BY InitKeeps, NextKeeps, PTL DEF Spec

\* Without overlap, and with no logout cut short, a provider that counts as logged in has its
\* key; after any logout token and account come back before the next login only by what ran
\* beside it.
THEOREM StoresAlwaysAgree == Spec => []StoresAgree
<1>1. Inv => StoresAgree
  BY DEF Inv, KeyInv, OutInv, StoresAgree
<1> QED
  BY <1>1, InvAlways, PTL

\* A command alone with the stores leaves its whole edit in the configuration if it exits with
\* 0 (and Load's replacements with it), none of it if not; a login leaves its token, a logout
\* none, llm api login its key, llm api logout promises nothing of its key; token and keys of
\* others stay.
THEOREM CommandsAllOrNothing == Spec => []AllOrNothing
<1>1. Inv => AllOrNothing
  <2> SUFFICES ASSUME Inv, NEW p \in Procs
               PROVE  /\ Alone(p, "ok") => AllDone(p)
                      /\ Alone(p, "ok") /\ Is(p, "login") => token
                      /\ Alone(p, "ok") /\ Is(p, "logout") => ~token
                      /\ Alone(p, "ok") /\ Is(p, "apiLogin") => key[Name(p)]
                      /\ Alone(p, "failed") => file = before.file
                      /\ Alone(p, "ok") \/ Alone(p, "failed") =>
                           /\ token = before.token \/ proc[p].cmd.op \in {"login", "logout"}
                           /\ \A n \in API : key[n] = before.key[n]
                                \/ (proc[p].cmd.op \in {"apiLogin", "apiLogout"} /\ n = Name(p))
    BY DEF AllOrNothing
  <2>1. Fresh(p)
    BY DEF Inv, FreshInv
  <2> QED
    BY <2>1 DEF Fresh, Alone
<1> QED
  BY <1>1, InvAlways, PTL

\* The model an executor is run with is one the user pinned, or its replacement; without
\* overlap it is the pin in force.
THEOREM PinsRespected == Spec => []PinRespected
<1>1. Inv => PinRespected
  BY DEF Inv
<1> QED
  BY <1>1, InvAlways, PTL
-----------------------------------------------------------------------------
(* Progress: a command waits for nobody but those outside, and never goes back. *)

\* A callback server that has taken its turn has told the command what came of it.
AnsweredInv ==
    \A p \in Procs : "served" \in proc[p].flow => proc[p].flow \cap {"code", "err"} # {}

\* The program can go on by itself: what Own's guards ask for.
Ready(p) ==
    \/ proc[p].at \in {"load", "save", "exchange", "answer", "validate", "model", "checks", "ok", "failed"}
    \/ At(p, "flow") /\ proc[p].flow \cap {"code", "err"} # {}

\* More than the steps left to a command that is here.
Ahead(at) ==
    CASE at = "asked"    -> 12
      [] at = "enterKey" -> 11
      [] at = "getKey"   -> 10
      [] at = "validate" -> 9
      [] at = "storeKey" -> 8
      [] at = "load"     -> 7
      [] at = "keyring"  -> 6
      [] at \in {"flow", "hasToken"} -> 5
      [] at \in {"exchange", "device", "loadToken"} -> 4
      [] at \in {"storeToken", "deleteToken", "deleteKey", "request", "model"} -> 3
      [] at \in {"save", "answer", "probe", "checks"} -> 2
      [] at \in {"ok", "failed"} -> 1
      [] OTHER -> 0
StepsLeft(p) == Ahead(proc[p].at)

LEMMA AheadIs ==
    ASSUME NEW at \in Steps \cup {"idle"}
    PROVE  Ahead(at) \in 0..12 /\ (at # "idle" <=> Ahead(at) > 0)
  BY DEF Steps, Ahead

LEMMA AheadType ==
    ASSUME TypeOK, NEW p \in Procs PROVE proc[p].at \in Steps \cup {"idle"} /\ StepsLeft(p) \in 0..12
<1>1. proc[p].at \in Steps \cup {"idle"}
  BY DEF TypeOK, ProcType
<1> QED
  BY <1>1, AheadIs DEF StepsLeft

\* Each edge of a command leads down.
LEMMA EdgeFalls ==
    ASSUME NEW from \in Steps \ {"ok", "failed"}, NEW to \in Steps, Edge(from, to)
    PROVE  /\ Ahead(to) <= Ahead(from)
           /\ ~(from = "flow" /\ to = "flow") => Ahead(to) < Ahead(from)
<1>1. CASE to = "failed"
  <2>1. Ahead(from) >= 2
    BY DEF Steps, Ahead
  <2>2. Ahead("failed") = 1
    BY DEF Ahead
  <2>3. Ahead(from) \in Nat
    BY AheadIs
  <2> QED
    BY <1>1, <2>1, <2>2, <2>3
<1>2. CASE to # "failed"
  BY <1>2 DEF Edge, Ahead
<1> QED
  BY <1>1, <1>2

\* Going on leaves the callback server alone.
LEMMA FlowKept ==
    ASSUME TypeOK, CmdInv, NEW p \in Procs, Step(p)
    PROVE  proc'[p].flow \in {proc[p].flow, {}}
<1>1. proc[p] \in ProcType /\ proc \in [Procs -> ProcType]
  BY DEF TypeOK
<1>2. ASSUME NEW s, Go(p, s) PROVE proc'[p].flow = proc[p].flow
  <2>1. proc'[p] = [proc[p] EXCEPT !.at = s]
    BY <1>1, <1>2 DEF Go
  <2> QED
    BY <1>1, <2>1 DEF ProcType
<1>3. CASE Load(p) \/ LoadFails(p)
  BY <1>3, LoadIs DEF Read
<1>4. CASE Model(p)
  BY <1>1, <1>4 DEF Model, ProcType
<1>5. CASE Exit(p)
  BY <1>1, <1>5 DEF Exit, Rest
<1>6. CASE Answer(p) \/ Save(p) \/ SaveFails(p) \/ OpenKeyring(p) \/ FlowEnds(p) \/ Exchange(p) \/ Device(p)
  <2>1. \E s : Go(p, s)
    BY <1>6, Zenon DEF Answer, Save, SaveFails, OpenKeyring, FlowEnds, Exchange, Device, Succeed, Fail
  <2> QED
    BY <1>2, <2>1
<1>7. CASE StoreToken(p) \/ DeleteToken(p) \/ HasToken(p) \/ LoadToken(p) \/ SaveToken(p) \/ Answered(p)
  <2>1. \E s : Go(p, s)
    BY <1>7, Zenon DEF StoreToken, DeleteToken, HasToken, LoadToken, SaveToken, Answered, Succeed, Fail
  <2> QED
    BY <1>2, <2>1
<1>8. CASE EnterKey(p) \/ GetKey(p) \/ Validate(p) \/ StoreKey(p) \/ DeleteKey(p) \/ Probe(p) \/ Checks(p)
  <2>1. \E s : Go(p, s)
    BY <1>8, Zenon DEF EnterKey, GetKey, Validate, StoreKey, DeleteKey, Probe, Checks, Succeed, Fail
  <2> QED
    BY <1>2, <2>1
<1> QED
  BY <1>3, <1>4, <1>5, <1>6, <1>7, <1>8 DEF Step, Own, Outside

\* What a step of one process does to the place of another: nothing.
LEMMA OthersUnmoved ==
    ASSUME TypeOK, CmdInv, NEW p \in Procs, NEW q \in Procs, q # p,
           Step(p) \/ Kill(p) \/ Callback(p) \/ ServeFails(p) \/ \E c \in Commands : Begin(p, c)
    PROVE  proc'[q].at = proc[q].at /\ proc'[q].flow = proc[q].flow
<1>1. CASE Move(p)
  BY <1>1, MoveIs DEF Moved
<1>2. CASE Answer(p)
  BY <1>2, AnswerIs DEF Replied
<1>3. CASE Load(p) \/ LoadFails(p)
  BY <1>3, LoadIs DEF Read
<1>4. CASE Save(p)
  BY <1>4, SaveIs DEF Saved
<1>5. CASE Exit(p) \/ Kill(p)
  BY <1>5, EndIs DEF Ended
<1>6. ASSUME NEW c \in Commands, Begin(p, c) PROVE proc'[q].at = proc[q].at /\ proc'[q].flow = proc[q].flow
  <2>1. Begun(p, c)
    BY <1>6, BeginIs
  <2> QED
    BY <2>1 DEF Begun, Same
<1> QED
  BY <1>1, <1>2, <1>3, <1>4, <1>5, <1>6 DEF Step, Own, Outside, Move

\* The steps of the program that neither load nor save.
Onward(p) ==
    \/ Walk(p) \/ StoreToken(p) \/ DeleteToken(p) \/ SaveToken(p)
    \/ StoreKey(p) \/ DeleteKey(p) \/ Model(p)

LEMMA StepFalls ==
    ASSUME TypeOK, CmdInv, NEW p \in Procs, Step(p)
    PROVE  StepsLeft(p)' < StepsLeft(p)
<1>0. proc[p].at \in Steps \cup {"idle"}
  BY AheadType
<1>1. CASE Onward(p)
  <2>1. Moved(p) /\ proc'[p].at \in Steps
    <3>1. Move(p)
      BY <1>1, Zenon DEF Onward, Walk, Move
    <3>2. Moved(p)
      BY <3>1, MoveIs
    <3>3. OpInv(proc[p].cmd, proc'[p].at)
      BY <3>2 DEF Moved
    <3> QED
      BY <3>2, <3>3 DEF OpInv
  <2>2. proc[p].at \in Steps \ {"ok", "failed"} /\ Edge(proc[p].at, proc'[p].at)
    BY <1>0, <2>1 DEF Moved
  <2>3. proc[p].at = "flow" => proc'[p].at # "flow"
    <3>1. SUFFICES ASSUME proc[p].at = "flow" PROVE proc'[p].at # "flow"
      OBVIOUS
    <3>2. FlowEnds(p)
      BY <1>1, <3>1 DEF Onward, Walk, SaveFails, OpenKeyring, Exchange, Device, StoreToken, DeleteToken,
           HasToken, LoadToken, SaveToken, Answered, EnterKey, GetKey, Validate, StoreKey,
           DeleteKey, Model, Probe, Checks
    <3>3. Go(p, "failed") \/ Go(p, "exchange")
      BY <3>2 DEF FlowEnds, Fail
    <3> QED
      BY <3>3, GoIs DEF TypeOK, Steps
  <2> QED
    BY <2>1, <2>2, <2>3, EdgeFalls DEF StepsLeft
<1>2. CASE Answer(p)
  <2>1. proc[p].at = "asked" /\ proc'[p].at = First(proc[p].cmd)
    BY <1>2, AnswerIs DEF Replied
  <2>2. First(proc[p].cmd) \in Starts
    BY <2>1, FirstIs DEF CmdInv
  <2> QED
    BY <2>1, <2>2 DEF StepsLeft, Ahead, Starts
<1>3. CASE Load(p) \/ LoadFails(p)
  <2>1. /\ proc[p].at = "load"
        /\ proc'[p].at \in {"keyring", "deleteKey", "ok", "checks", "model", "save", "failed"}
    BY <1>3, LoadIs DEF Read
  <2> QED
    BY <2>1 DEF StepsLeft, Ahead
<1>4. CASE Save(p)
  <2>1. proc[p].at = "save" /\ proc'[p].at = "ok"
    BY <1>4, SaveIs DEF Saved
  <2> QED
    BY <2>1 DEF StepsLeft, Ahead
<1>5. CASE Exit(p)
  <2>1. proc[p].at \in {"ok", "failed"}
    BY <1>5 DEF Exit
  <2>2. proc'[p].at = "idle"
    BY <1>5, EndIs, RestIs DEF Ended
  <2> QED
    BY <2>1, <2>2 DEF StepsLeft, Ahead
<1> QED
  BY <1>1, <1>2, <1>3, <1>4, <1>5 DEF Step, Own, Outside, Onward, Walk

LEMMA AnsweredKept ==
    ASSUME TypeOK, CmdInv, AnsweredInv, [Next]_vars PROVE AnsweredInv'
<1> SUFFICES ASSUME NEW q \in Procs, "served" \in proc'[q].flow
             PROVE  proc'[q].flow \cap {"code", "err"} # {}
  BY DEF AnsweredInv
<1>1. proc'[q].flow = proc[q].flow => proc'[q].flow \cap {"code", "err"} # {}
  BY DEF AnsweredInv
<1>2. ASSUME NEW p \in Procs, p # q,
             Step(p) \/ Kill(p) \/ Callback(p) \/ ServeFails(p) \/ \E c \in Commands : Begin(p, c)
      PROVE  proc'[q].flow = proc[q].flow
  BY <1>2, OthersUnmoved
<1>3. CASE Step(q)
  BY <1>1, <1>3, FlowKept
<1>4. ~Kill(q) /\ \A c \in Commands : ~Begin(q, c)
  <2>1. ASSUME Kill(q) PROVE FALSE
    BY <2>1, EndIs, RestIs DEF Ended
  <2>2. ASSUME NEW c \in Commands, Begin(q, c) PROVE FALSE
    BY <2>2, BeginIs DEF Begun
  <2> QED
    BY <2>1, <2>2
<1>5. CASE Callback(q)
  <2>1. PICK x \in {"code", "err"} : proc' = [proc EXCEPT ![q].flow = @ \cup {"served", x}]
    BY <1>5 DEF Callback
  <2>2. proc'[q].flow = proc[q].flow \cup {"served", x}
    BY <2>1 DEF TypeOK, ProcType
  <2> QED
    BY <2>2
<1>6. CASE ServeFails(q)
  <2>1. proc'[q].flow = proc[q].flow \cup {"err"}
    BY <1>6 DEF ServeFails, TypeOK, ProcType
  <2> QED
    BY <2>1
<1>7. CASE UNCHANGED vars \/ Done
  BY <1>1, <1>7 DEF vars, Done
<1> QED
  BY <1>1, <1>2, <1>3, <1>4, <1>5, <1>6, <1>7 DEF Next, Step

\* No step of anyone sets a command back.
LEMMA NobodySetsBack ==
    ASSUME TypeOK, CmdInv, NEW q \in Procs, Active(q), Next, TypeOK'
    PROVE  StepsLeft(q)' <= StepsLeft(q)
<1>0. StepsLeft(q) \in 0..12 /\ StepsLeft(q)' \in 0..12
  <2>1. proc[q].at \in Steps \cup {"idle"} /\ proc'[q].at \in Steps \cup {"idle"}
    BY DEF TypeOK, ProcType
  <2> QED
    BY <2>1, AheadIs DEF StepsLeft
<1>1. proc'[q].at = proc[q].at => StepsLeft(q)' <= StepsLeft(q)
  BY <1>0 DEF StepsLeft
<1>2. ASSUME NEW p \in Procs, p # q,
             Step(p) \/ Kill(p) \/ Callback(p) \/ ServeFails(p) \/ \E c \in Commands : Begin(p, c)
      PROVE  StepsLeft(q)' <= StepsLeft(q)
  BY <1>1, <1>2, OthersUnmoved
<1>3. CASE Step(q)
  BY <1>0, <1>3, StepFalls
<1>4. CASE Kill(q)
  <2>1. proc'[q].at = "idle"
    BY <1>4, EndIs, RestIs DEF Ended
  <2> QED
    BY <1>0, <2>1 DEF StepsLeft, Ahead
<1>5. CASE Callback(q) \/ ServeFails(q)
  <2>1. proc'[q].at = proc[q].at
    BY <1>5 DEF Callback, ServeFails, TypeOK, ProcType
  <2> QED
    BY <1>1, <2>1
<1>6. ~Done /\ \A c \in Commands : ~Begin(q, c)
  BY DEF Done, Begin
<1> QED
  BY <1>2, <1>3, <1>4, <1>5, <1>6 DEF Next, Step

\* A command that runs waits for somebody outside (Waiting: the user, his browser or keyring,
\* the device flow, an executor) or can go on by itself; it takes at most twelve steps, and no
\* step of it, of another terminal, the browser or the user sets it back.  Under the fairness
\* of Spec this is why it returns once nobody outside keeps it waiting (RunPKCEFlow's select
\* hears of everything its callback server does).
THEOREM CommandsProgress ==
    Spec => /\ [](\A p \in Procs : /\ Active(p) => Ready(p) \/ Waiting(p)
                                   /\ StepsLeft(p) \in 0..12 /\ (Active(p) <=> StepsLeft(p) > 0))
            /\ [][\A p \in Procs : /\ Step(p) => StepsLeft(p)' < StepsLeft(p)
                                   /\ Active(p) => StepsLeft(p)' <= StepsLeft(p)]_vars
<1>1. Init => AnsweredInv
  BY RestIs DEF Init, AnsweredInv
<1>2. TypeOK /\ Inv /\ AnsweredInv /\ [Next]_vars => AnsweredInv'
  BY AnsweredKept DEF Inv
<1>3. TypeOK /\ AnsweredInv =>
        \A p \in Procs : /\ Active(p) => Ready(p) \/ Waiting(p)
                         /\ StepsLeft(p) \in 0..12 /\ (Active(p) <=> StepsLeft(p) > 0)
  <2> SUFFICES ASSUME TypeOK, AnsweredInv, NEW p \in Procs
               PROVE  /\ Active(p) => Ready(p) \/ Waiting(p)
                      /\ StepsLeft(p) \in 0..12 /\ (Active(p) <=> StepsLeft(p) > 0)
    OBVIOUS
  <2>1. proc[p].flow \subseteq {"served", "code", "err"}
    BY DEF TypeOK, ProcType
  <2>2. Active(p) => Ready(p) \/ Waiting(p)
    <3>1. proc[p].at \in Steps \cup {"idle"}
      BY AheadType
    <3> QED
      BY <2>1, <3>1 DEF AnsweredInv, Ready, Waiting, Steps
  <2>3. StepsLeft(p) \in 0..12 /\ (Active(p) <=> StepsLeft(p) > 0)
    BY AheadType, AheadIs DEF StepsLeft
  <2> QED
    BY <2>2, <2>3
<1>4. TypeOK /\ Inv /\ TypeOK' /\ [Next]_vars =>
        [\A p \in Procs : /\ Step(p) => StepsLeft(p)' < StepsLeft(p)
                          /\ Active(p) => StepsLeft(p)' <= StepsLeft(p)]_vars
  BY StepFalls, NobodySetsBack DEF Inv
<1> QED
  BY <1>1, <1>2, <1>3, <1>4, TypeCorrect, InvAlways, PTL DEF Spec
=============================================================================
