----------------------------- MODULE RemoteLog -----------------------------
(***************************************************************************)
(* The reports of the device's own log lines to the update server          *)
(* (src/remotelog/remotelog.go): the client of tfi-display, made from its  *)
(* configuration when it starts (src/main.go), and the client of           *)
(* tfi-agent, brought up to date at the head of each cycle                 *)
(* (src/agent/agent.go), while the two files change under both.            *)
(*                                                                         *)
(* A line is its level.  A report is sent by a goroutine of its own: it    *)
(* arrives, fails, or is lost with the process.                            *)
(***************************************************************************)
EXTENDS Configuration, FiniteSets

CONSTANTS
  Configs,   \* what may lie in config.yaml, of ConfigFile
  Secrets,   \* and in secrets.yaml, of SecretsFile
  APIKeyEnv, \* TFI_API_KEY
  MaxReports \* bound on the reports on their way

VARIABLES
  config,    \* config.yaml
  secrets,   \* secrets.yaml
  display,   \* tfi-display: its phase, "down" or "up", and its client
  agent,     \* tfi-agent: its phase and its client
  reports,   \* the reports on their way
  readBy     \* history: the level in config.yaml when each program last read it

vars == <<config, secrets, display, agent, reports, readBy>>

Programs == {"display", "agent"}

\* A client is its address, its token and its level; a report is who sends it, its level,
\* and the address and the token that it is sent with.
NewClient(url, token, level) ==
  [baseURL |-> url, deviceToken |-> token, minLevel |-> level]

\* The value that Client has before New has set it.
NoClient == NewClient("", "", "info")

Init ==
  /\ config \in Configs /\ secrets \in Secrets
  /\ display = [phase |-> "down", client |-> NoClient]
  /\ agent = [phase |-> "down", client |-> NoClient]
  /\ reports = {}
  /\ readBy = [p \in Programs |-> ""]

-----------------------------------------------------------------------------
\* Log: nothing without an address and a token, nothing below the level; the sending
\* goroutine takes the settings along.
Passes(client, level) ==
  /\ client.baseURL # "" /\ client.deviceToken # ""
  /\ Rank(level) >= Rank(client.minLevel)

Log(program, client, level) ==
  reports' = IF Passes(client, level)
               THEN reports \cup
                      {[by |-> program, level |-> level,
                        to |-> client.baseURL, token |-> client.deviceToken]}
               ELSE reports

Room == Cardinality(reports) < MaxReports

\* send ends: the server has the report, or it was refused, or it took five seconds.
ReportEnds ==
  /\ \E r \in reports : reports' = reports \ {r}
  /\ UNCHANGED <<config, secrets, display, agent, readBy>>

Read(program) ==
  readBy' = [readBy EXCEPT ![program] = IF Parses(config) THEN config.remote_log_level ELSE ""]

\* With the process go the goroutines that send for it.
Gone(program) == reports' = {r \in reports : r.by # program}

-----------------------------------------------------------------------------
\* tfi-display

\* main exits with 1 when the configuration does not load, and systemd tries again.
DisplayStarts ==
  /\ display.phase = "down" /\ Room
  /\ LoadsWithSecrets(config, secrets, APIKeyEnv)
  /\ LET cfg == LoadWithSecrets(config, secrets, APIKeyEnv)
         client == NewClient(cfg.base_url, cfg.device_token, ParseLevel(cfg.remote_log_level))
     IN  /\ display' = [phase |-> "up", client |-> client]
         /\ Log("display", client, "info")
  /\ Read("display")
  /\ UNCHANGED <<config, secrets, agent>>

DisplayLogs ==
  /\ display.phase = "up" /\ Room
  /\ \E level \in LogLevels : Log("display", display.client, level)
  /\ UNCHANGED <<config, secrets, display, agent, readBy>>

\* A crash, or a SIGTERM: its last line has 200 ms to get through.
DisplayEnds ==
  /\ display.phase = "up"
  /\ display' = [phase |-> "down", client |-> NoClient]
  /\ Gone("display")
  /\ UNCHANGED <<config, secrets, agent, readBy>>

-----------------------------------------------------------------------------
\* tfi-agent

AgentStarts ==
  /\ agent.phase = "down"
  /\ agent' = [phase |-> "first", client |-> NewClient("", "", "info")]
  /\ UNCHANGED <<config, secrets, display, reports, readBy>>

\* reloadSettings, at the head of each cycle; the first one says that the agent has started.
ReloadSettings ==
  /\ agent.phase \in {"first", "waiting"} /\ Room
  /\ LET s == LoadSettings(config, secrets)
         client == NewClient(s.BaseURL, s.DeviceToken, ParseLevel(s.RemoteLogLevel))
     IN  /\ agent' = [phase |-> IF s.BaseURL = "" THEN "waiting" ELSE "cycle",
                      client |-> client]
         /\ IF agent.phase = "first" THEN Log("agent", client, "info")
                                     ELSE reports' = reports
  /\ Read("agent")
  /\ UNCHANGED <<config, secrets, display>>

\* What checkBinary and checkConfig say; a config that is applied is a ConfigChanges.
AgentLogs ==
  /\ agent.phase = "cycle" /\ Room
  /\ \E level \in LogLevels : Log("agent", agent.client, level)
  /\ UNCHANGED <<config, secrets, display, agent, readBy>>

CycleEnds ==
  /\ agent.phase = "cycle"
  /\ agent' = [agent EXCEPT !.phase = "waiting"]
  /\ UNCHANGED <<config, secrets, display, reports, readBy>>

\* SIGTERM is seen after the cycle, and the last line is sent by a process that exits.
AgentEnds ==
  /\ agent.phase # "down"
  /\ agent' = [phase |-> "down", client |-> NoClient]
  /\ Gone("agent")
  /\ UNCHANGED <<config, secrets, display, readBy>>

-----------------------------------------------------------------------------
\* The files: an edit on the device, a sync of the agent, a write that tears one.

ConfigChanges ==
  /\ config' \in Configs
  /\ UNCHANGED <<secrets, display, agent, reports, readBy>>

SecretsChange ==
  /\ secrets' \in Secrets
  /\ UNCHANGED <<config, display, agent, reports, readBy>>

Next ==
  \/ DisplayStarts \/ DisplayLogs \/ DisplayEnds
  \/ AgentStarts \/ ReloadSettings \/ AgentLogs \/ CycleEnds \/ AgentEnds
  \/ ReportEnds \/ ConfigChanges \/ SecretsChange

Spec == Init /\ [][Next]_vars

-----------------------------------------------------------------------------
\* remote_log_level in config.yaml filters which levels are sent (src/README.md:177), by
\* tfi-display and tfi-agent alike: no line below the level that the program read last.
LevelFilters ==
  [][\A r \in reports' \ reports : Rank(r.level) >= Rank(ParseLevel(readBy'[r.by]))]_vars

\* The same of tfi-display alone: the level it was started with.
DisplayFilters ==
  [][\A r \in reports' \ reports :
       r.by = "display" => Rank(r.level) >= Rank(ParseLevel(readBy'["display"]))]_vars

\* What tfi-agent does instead: whatever its config.yaml says, it sends from info on, so
\* that "debug" never brings its debug lines and "error" never quiets it.
AgentKeepsToInfo ==
  /\ agent.client.minLevel = "info"
  /\ \A r \in reports : r.by = "agent" => r.level # "debug"

\* No report leaves without an address and a token, across starts and changes of the files.
ReportsAreAuthorised == \A r \in reports : r.to # "" /\ r.token # ""

=============================================================================
