-------------------------- MODULE RemoteLogProofs --------------------------
(***************************************************************************)
(* What a configuration that loads is good for, and what the two clients   *)
(* of the remote log send, whatever the files say and however they change. *)
(***************************************************************************)
EXTENDS RemoteLog, SequenceTheorems, TLAPS

-----------------------------------------------------------------------------
\* A configuration that loads has a whole schedule or none: the times that main parses
\* without looking at the error are times (main.go:113-114).
THEOREM LoadedScheduleIsUsable ==
  ASSUME NEW f \in ConfigFile, Loads(f)
  PROVE  ScheduleOf(LoadFile(f)) \in
           [scheduled : BOOLEAN, start : TimesOfDay, stop : TimesOfDay]
<1>1. /\ LoadFile(f).start_time = f.start_time
      /\ LoadFile(f).stop_time = f.stop_time
  BY DEF LoadFile, ConfigFile
<1>2. /\ f.start_time \in TimesOfDay \cup {Unset}
      /\ f.stop_time \in TimesOfDay \cup {Unset}
  <2>1. /\ f.start_time \in TimesOfDay \cup {Unset, NotATime}
        /\ f.stop_time \in TimesOfDay \cup {Unset, NotATime}
    BY DEF ConfigFile
  <2>2. f.start_time # NotATime /\ f.stop_time # NotATime
    BY DEF Loads, ScheduleIsValid
  <2> QED
    BY <2>1, <2>2
<1>3. 0 \in TimesOfDay
  BY DEF TimesOfDay
<1> QED
  BY <1>1, <1>2, <1>3 DEF ScheduleOf

LEMMA CheckedStopWalks ==
  ASSUME NEW s \in StopEntry
  PROVE  CheckedStop(s).stop_number = s.stop_number /\ CheckedStop(s).walking_minutes >= 0
<1>1. s.walking_minutes \in Int
  BY DEF StopEntry
<1>2. CheckedStop(s).stop_number = s.stop_number
  BY DEF StopEntry, CheckedStop
<1>3. CheckedStop(s).walking_minutes
        = IF s.walking_minutes < 0 THEN 0 ELSE s.walking_minutes
  BY DEF StopEntry, CheckedStop
<1> QED
  BY <1>1, <1>2, <1>3

\* It has a stop, each with a number and a walking time of no less than 0, and intervals
\* that are not 0; nothing keeps them from being negative, which NewTicker panics on
\* (main.go:236-238).
THEOREM LoadedIsComplete ==
  ASSUME NEW f \in ConfigFile, Loads(f)
  PROVE  LET c == LoadFile(f)
         IN  /\ c.stops # <<>>
             /\ \A i \in DOMAIN c.stops :
                  c.stops[i].stop_number # "" /\ c.stops[i].walking_minutes >= 0
             /\ c.poll_interval_seconds # 0 /\ c.page_interval_seconds # 0
<1> DEFINE stops == [i \in DOMAIN f.stops |-> CheckedStop(f.stops[i])]
<1>1. f.stops \in Seq(StopEntry) /\ f.poll_interval_seconds \in Int
        /\ f.page_interval_seconds \in Int
  BY DEF ConfigFile
<1>2. LoadFile(f).stops = stops
  BY DEF LoadFile, ConfigFile
<1>3. f.stops # <<>> /\ \A i \in DOMAIN f.stops : f.stops[i].stop_number # ""
  BY DEF Loads, StopsAreValid
<1>4. ASSUME NEW i \in DOMAIN f.stops
      PROVE  /\ CheckedStop(f.stops[i]).stop_number # ""
             /\ CheckedStop(f.stops[i]).walking_minutes >= 0
  <2>1. f.stops[i] \in StopEntry
    BY <1>1
  <2> QED
    BY <1>3, <2>1, CheckedStopWalks
<1>5. DOMAIN stops = DOMAIN f.stops
        /\ \A i \in DOMAIN f.stops : stops[i] = CheckedStop(f.stops[i])
  OBVIOUS
<1>6. stops # <<>>
  <2>1. Len(f.stops) # 0
    BY <1>1, <1>3, EmptySeq
  <2>2. 1 \in DOMAIN f.stops
    BY <1>1, <2>1
  <2> QED
    BY <1>5, <2>2
<1> HIDE DEF stops
<1>7. LoadFile(f).poll_interval_seconds # 0 /\ LoadFile(f).page_interval_seconds # 0
  <2>1. /\ LoadFile(f).poll_interval_seconds = Default(f.poll_interval_seconds, 60)
        /\ LoadFile(f).page_interval_seconds = Default(f.page_interval_seconds, 5)
    BY DEF LoadFile, ConfigFile
  <2> QED
    BY <1>1, <2>1 DEF Default
<1> QED
  BY <1>2, <1>4, <1>5, <1>6, <1>7

-----------------------------------------------------------------------------
\* The level of tfi-display's client is that of the file it was started with.
LevelKept ==
  display.phase = "up" => display.client.minLevel = ParseLevel(readBy["display"])

LEMMA NoLevelIsInfo == ParseLevel("") = "info"
<1>1. "" \notin DOMAIN LowerOf
  BY DEF LowerOf
<1> QED
  BY <1>1 DEF ParseLevel, ToLower, LogLevels

\* A report that Log adds is the program's, passes its client, and carries its settings.
LEMMA LogAdds ==
  ASSUME NEW program, NEW client, NEW level, Log(program, client, level),
         NEW r \in reports', r \notin reports
  PROVE  /\ Passes(client, level)
         /\ r.by = program /\ r.level = level
         /\ r.to = client.baseURL /\ r.token = client.deviceToken
BY DEF Log

\* The induction: readBy stays a function of the programs, the display's client is at the
\* level of the file it was started with, the agent's at info, and what is on its way has
\* passed its client.
ReadByIsFunction == readBy = [p \in Programs |-> readBy[p]]

Kept == ReadByIsFunction /\ LevelKept /\ AgentKeepsToInfo /\ ReportsAreAuthorised

LEMMA KeptInit == Init => Kept
<1> SUFFICES ASSUME Init PROVE Kept
  OBVIOUS
<1>1. ReadByIsFunction
  BY DEF Init, ReadByIsFunction
<1>2. LevelKept
  BY DEF Init, LevelKept
<1>3. AgentKeepsToInfo /\ ReportsAreAuthorised
  BY DEF Init, AgentKeepsToInfo, ReportsAreAuthorised, NewClient, NoClient
<1> QED
  BY <1>1, <1>2, <1>3 DEF Kept

\* A step either leaves the reports, drops some, or logs one line for one program.
Logs(program, client) ==
  \E level \in LogLevels : Log(program, client, level)

LEMMA StepReports ==
  ASSUME Kept, [Next]_vars
  PROVE  \/ reports' \subseteq reports
         \/ Logs("display", display'.client) /\ display'.phase = "up"
         \/ Logs("agent", agent'.client)
<1>1. CASE DisplayStarts
  BY <1>1 DEF DisplayStarts, Logs, LogLevels
<1>2. CASE DisplayLogs
  BY <1>2 DEF DisplayLogs, Logs
<1>3. CASE ReloadSettings
  BY <1>3 DEF ReloadSettings, Logs, LogLevels
<1>4. CASE AgentLogs
  BY <1>4 DEF AgentLogs, Logs
<1>5. CASE DisplayEnds \/ AgentEnds
  BY <1>5 DEF DisplayEnds, AgentEnds, Gone
<1>6. CASE AgentStarts \/ CycleEnds \/ ConfigChanges \/ SecretsChange \/ UNCHANGED vars
  BY <1>6 DEF AgentStarts, CycleEnds, ConfigChanges, SecretsChange, vars
<1>7. CASE ReportEnds
  BY <1>7 DEF ReportEnds
<1> QED
  BY <1>1, <1>2, <1>3, <1>4, <1>5, <1>6, <1>7 DEF Next

LEMMA StepClients ==
  ASSUME Kept, [Next]_vars
  PROVE  ReadByIsFunction' /\ LevelKept' /\ agent'.client.minLevel = "info"
<1> USE DEF Kept, ReadByIsFunction, LevelKept, AgentKeepsToInfo
<1>1. CASE DisplayStarts
  <2>1. Parses(config)
    BY <1>1 DEF DisplayStarts, LoadsWithSecrets, Loads, Parses
  <2>2. LoadWithSecrets(config, secrets, APIKeyEnv).remote_log_level
          = config.remote_log_level
    BY DEF LoadWithSecrets, LoadFile
  <2>3. display'.client.minLevel = ParseLevel(config.remote_log_level)
    BY <1>1, <2>2 DEF DisplayStarts, NewClient
  <2>4. readBy' = [readBy EXCEPT !["display"] = config.remote_log_level]
    BY <1>1, <2>1 DEF DisplayStarts, Read
  <2> QED
    BY <1>1, <2>3, <2>4 DEF DisplayStarts, Programs
<1>2. CASE ReloadSettings
  <2>1. agent'.client.minLevel = "info"
    BY <1>2, NoLevelIsInfo DEF ReloadSettings, NewClient, LoadSettings
  <2>2. ReadByIsFunction' /\ readBy'["display"] = readBy["display"]
    BY <1>2 DEF ReloadSettings, Read, Programs
  <2> QED
    BY <1>2, <2>1, <2>2 DEF ReloadSettings
<1>3. CASE DisplayEnds
  BY <1>3 DEF DisplayEnds
<1>4. CASE AgentStarts
  BY <1>4 DEF AgentStarts, NewClient
<1>5. CASE CycleEnds
  BY <1>5 DEF CycleEnds
<1>6. CASE AgentEnds
  BY <1>6 DEF AgentEnds, NoClient, NewClient
<1>7. CASE \/ DisplayLogs \/ AgentLogs \/ ReportEnds \/ ConfigChanges \/ SecretsChange
           \/ UNCHANGED vars
  BY <1>7 DEF DisplayLogs, AgentLogs, ReportEnds, ConfigChanges, SecretsChange, vars
<1> QED
  BY <1>1, <1>2, <1>3, <1>4, <1>5, <1>6, <1>7 DEF Next

LEMMA KeptStep == Kept /\ [Next]_vars => Kept'
<1> SUFFICES ASSUME Kept, [Next]_vars PROVE Kept'
  OBVIOUS
<1>1. ReadByIsFunction' /\ LevelKept' /\ agent'.client.minLevel = "info"
  BY StepClients
<1>2. ASSUME NEW r \in reports'
      PROVE  r.to # "" /\ r.token # "" /\ (r.by = "agent" => r.level # "debug")
  <2>1. CASE r \in reports
    BY <2>1 DEF Kept, AgentKeepsToInfo, ReportsAreAuthorised
  <2>2. CASE r \notin reports
    <3>1. CASE Logs("display", display'.client)
      <4>1. PICK level \in LogLevels : Log("display", display'.client, level)
        BY <3>1 DEF Logs
      <4>2. Passes(display'.client, level) /\ r.by = "display"
              /\ r.to = display'.client.baseURL /\ r.token = display'.client.deviceToken
        BY <2>2, <4>1, LogAdds
      <4> QED
        BY <4>2 DEF Passes
    <3>2. CASE Logs("agent", agent'.client)
      <4>1. PICK level \in LogLevels : Log("agent", agent'.client, level)
        BY <3>2 DEF Logs
      <4>2. /\ Passes(agent'.client, level)
            /\ r.level = level /\ r.to = agent'.client.baseURL
            /\ r.token = agent'.client.deviceToken
        BY <2>2, <4>1, LogAdds
      <4>3. Rank(level) >= Rank("info")
        BY <1>1, <4>2 DEF Passes
      <4>4. level # "debug"
        BY <4>3 DEF Rank
      <4> QED
        BY <4>2, <4>4 DEF Passes
    <3> QED
      BY <2>2, <3>1, <3>2, StepReports
  <2> QED
    BY <2>1, <2>2
<1> QED
  BY <1>1, <1>2 DEF Kept, AgentKeepsToInfo, ReportsAreAuthorised

LEMMA AlwaysKept == Spec => []Kept
BY KeptInit, KeptStep, PTL DEF Spec

\* tfi-agent is at info whatever remote_log_level says (src/agent/agent.go:196-200): no
\* file makes it send a debug line, none quiets its info lines.
THEOREM AgentIgnoresTheLevel == Spec => []AgentKeepsToInfo
<1>1. Kept => AgentKeepsToInfo
  BY DEF Kept
<1> QED
  BY <1>1, AlwaysKept, PTL

\* No report leaves without an address and a token (src/remotelog/remotelog.go:113).
THEOREM NoReportWithoutToken == Spec => []ReportsAreAuthorised
<1>1. Kept => ReportsAreAuthorised
  BY DEF Kept
<1> QED
  BY <1>1, AlwaysKept, PTL

\* tfi-display sends nothing below the level it was started with, through every change of
\* the files and every restart (src/main.go:44).
THEOREM DisplayHonoursTheLevel == Spec => DisplayFilters
<1>1. Kept /\ [Next]_vars =>
        [\A r \in reports' \ reports :
           r.by = "display" => Rank(r.level) >= Rank(ParseLevel(readBy'["display"]))]_vars
  <2> SUFFICES ASSUME Kept, [Next]_vars, NEW r \in reports' \ reports, r.by = "display"
               PROVE  Rank(r.level) >= Rank(ParseLevel(readBy'["display"]))
    OBVIOUS
  <2>1. Logs("display", display'.client) /\ display'.phase = "up"
    <3>1. ~Logs("agent", agent'.client)
      BY LogAdds DEF Logs
    <3> QED
      BY <3>1, StepReports
  <2>2. PICK level \in LogLevels : Log("display", display'.client, level)
    BY <2>1 DEF Logs
  <2>3. Passes(display'.client, level) /\ r.level = level
    BY <2>2, LogAdds
  <2>4. display'.client.minLevel = ParseLevel(readBy'["display"])
    BY <2>1, StepClients DEF LevelKept
  <2> QED
    BY <2>3, <2>4 DEF Passes
<1> QED
  BY <1>1, AlwaysKept, PTL DEF Spec, DisplayFilters

=============================================================================
