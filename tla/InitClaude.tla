----------------------------- MODULE InitClaude -----------------------------
(***************************************************************************)
(* dbdense init-claude (runInitClaude, cmd/dbdense/main.go): it reads the  *)
(* MCP configuration, adds its own server and writes the file back, while  *)
(* other programs may write the same file.                                 *)
(*                                                                         *)
(* A configuration is [servers, other]: servers[n] = [run, other] with     *)
(* run the command and its arguments, and other what else is written       *)
(* there (environment, settings) that the Go structs have no field for.    *)
(***************************************************************************)
EXTENDS Integers, FiniteSets

CONSTANTS
    Inits,         \* invocations of init-claude
    FirstConfigs,  \* configurations the file may hold at the start
    ForeignEntry,  \* an entry another program may add, under the name "other"
    OurRun         \* command and arguments of dbdense serve

VARIABLES
    config,                         \* the file
    initStage, readConfig, cfg,     \* per init-claude: stage, what it read, what it holds
    undisturbed                     \* history: nobody else wrote since the read

configVars == <<config, initStage, readConfig, cfg, undisturbed>>

\* No file, and content that is not JSON.
NoFile == [none |-> TRUE]
Torn == [torn |-> TRUE]

Bare == [servers |-> << >>, other |-> {}]

\* What json.Unmarshal keeps of a file in mcpConfig: command and arguments.
Unmarshal(content) ==
    IF content = NoFile THEN Bare
    ELSE [servers |-> [n \in DOMAIN content.servers |->
                          [run |-> content.servers[n].run, other |-> {}]],
          other |-> {}]

WithServer(content, name, entry) ==
    [content EXCEPT !.servers = [n \in DOMAIN content.servers \cup {name} |->
        IF n = name THEN entry ELSE content.servers[n]]]

ConfigInit ==
    /\ config \in FirstConfigs
    /\ initStage = [i \in Inits |-> "read"]
    /\ readConfig = [i \in Inits |-> NoFile]
    /\ cfg = [i \in Inits |-> Bare]
    /\ undisturbed = {}

InitTo(i, stage) == initStage' = [initStage EXCEPT ![i] = stage]

\* Faulty variant, for the mutation runs: the configuration is built afresh.
ReadConfigAfresh(i) ==
    /\ initStage[i] = "read"
    /\ config # Torn
    /\ InitTo(i, "truncate")
    /\ readConfig' = [readConfig EXCEPT ![i] = config]
    /\ cfg' = [cfg EXCEPT ![i] = WithServer(Bare, "dbdense", [run |-> OurRun, other |-> {}])]
    /\ undisturbed' = undisturbed \cup {i}
    /\ UNCHANGED config

\* os.ReadFile, json.Unmarshal, and the entry for dbdense.
ReadConfig(i) ==
    /\ initStage[i] = "read"
    /\ config # Torn
    /\ InitTo(i, "truncate")
    /\ readConfig' = [readConfig EXCEPT ![i] = config]
    /\ cfg' = [cfg EXCEPT ![i] = WithServer(Unmarshal(config), "dbdense",
                                            [run |-> OurRun, other |-> {}])]
    /\ undisturbed' = undisturbed \cup {i}
    /\ UNCHANGED config

\* A file that is not JSON is an error, and stays as it is.
RefuseConfig(i) ==
    /\ initStage[i] = "read"
    /\ config = Torn
    /\ InitTo(i, "failed")
    /\ UNCHANGED <<config, readConfig, cfg, undisturbed>>

\* os.WriteFile truncates the file and then writes it.  When somebody else wrote
\* in between, a longer content leaves a rest behind ours.
TruncateConfig(i) ==
    /\ initStage[i] = "truncate"
    /\ config' = Torn
    /\ undisturbed' = undisturbed \cap {i}
    /\ InitTo(i, "write")
    /\ UNCHANGED <<readConfig, cfg>>

WriteConfig(i) ==
    /\ initStage[i] = "write"
    /\ \/ config' = cfg[i]
       \/ config # Torn /\ config' = Torn
    /\ undisturbed' = undisturbed \cap {i}
    /\ InitTo(i, "ok")
    /\ UNCHANGED <<readConfig, cfg>>

\* A failing file system, or the process is killed.
FailInit(i) ==
    /\ initStage[i] \notin {"ok", "failed"}
    /\ InitTo(i, "failed")
    /\ UNCHANGED <<config, readConfig, cfg, undisturbed>>

\* Another program registers its server.
ForeignWrite ==
    /\ config # Torn
    /\ config # NoFile
    /\ "other" \notin DOMAIN config.servers
    /\ config' = WithServer(config, "other", ForeignEntry)
    /\ undisturbed' = {}
    /\ UNCHANGED <<initStage, readConfig, cfg>>

InitStep(i) ==
    \/ ReadConfig(i) \/ RefuseConfig(i) \/ TruncateConfig(i) \/ WriteConfig(i) \/ FailInit(i)

ConfigNext == (\E i \in Inits : InitStep(i)) \/ ForeignWrite

-----------------------------------------------------------------------------
Finished(i) == initStage[i] = "ok" /\ i \in undisturbed

\* A run of init-claude that nobody disturbed leaves dbdense registered, and every
\* other server it found under its name with its command.
ServersKept ==
    \A i \in Inits : Finished(i) =>
        /\ config # Torn
        /\ "dbdense" \in DOMAIN config.servers /\ config.servers["dbdense"].run = OurRun
        /\ readConfig[i] # NoFile =>
              \A n \in DOMAIN readConfig[i].servers \ {"dbdense"} :
                  n \in DOMAIN config.servers /\ config.servers[n].run = readConfig[i].servers[n].run

\* "Load existing config if present, to preserve other MCP servers": what the
\* file said of the other servers is still there, whole.
OtherServersPreserved ==
    \A i \in Inits : Finished(i) /\ readConfig[i] # NoFile =>
        \A n \in DOMAIN readConfig[i].servers \ {"dbdense"} :
            config.servers[n] = readConfig[i].servers[n]
=============================================================================
