--------------------------- MODULE Configuration ---------------------------
(***************************************************************************)
(* The two files on the device's disk and what its programs make of them:  *)
(* config.LoadWithSecrets for tfi-display (src/config/config.go), which    *)
(* refuses what is not valid, and loadSettings for tfi-agent               *)
(* (src/agent/agent.go), which falls back to defaults.                     *)
(*                                                                         *)
(* A file is absent, unreadable, not YAML ("garbage"), or a record of its  *)
(* fields, one of which, that only tfi-display reads, may have the wrong   *)
(* type ("mistyped").  "" and 0 are Go's zero values of a field that is    *)
(* not in the file.  A time of day is its minute; the URLs, paths and      *)
(* models whose defaults only name a resource are left out.                *)
(***************************************************************************)
EXTENDS Integers, Sequences

FileStates == {"absent", "unreadable", "garbage", "mistyped", "yaml"}

Unset == -1     \* a time that is not in the file
NotATime == -2  \* one that time.Parse("15:04") refuses
TimesOfDay == 0..(24 * 60 - 1)

StopEntry == [stop_number : STRING, walking_minutes : Int]

ConfigFile ==
  [is : FileStates, api_key : STRING, base_url : STRING, device_token : STRING,
   remote_log_level : STRING, start_time : TimesOfDay \cup {Unset, NotATime},
   stop_time : TimesOfDay \cup {Unset, NotATime}, stops : Seq(StopEntry),
   poll_interval_seconds : Int, page_interval_seconds : Int, max_pages : Int,
   static_refresh_seconds : Int, feed_watchdog_seconds : Int, max_minutes : Int,
   update_interval_seconds : Int]

SecretsFile ==
  [is : FileStates, api_key : STRING, base_url : STRING, device_token : STRING]

-----------------------------------------------------------------------------
\* config.yaml for tfi-display

Default(value, default) == IF value = 0 THEN default ELSE value
FirstSet(a, b) == IF a # "" THEN a ELSE b

ScheduleIsValid(f) ==
  /\ f.start_time = Unset <=> f.stop_time = Unset
  /\ f.start_time # NotATime /\ f.stop_time # NotATime

StopsAreValid(f) ==
  /\ f.stops # <<>>
  /\ \A i \in DOMAIN f.stops : f.stops[i].stop_number # ""

Loads(f) == f.is = "yaml" /\ ScheduleIsValid(f) /\ StopsAreValid(f)

\* A walking time below 0 is no filter.
CheckedStop(s) ==
  [s EXCEPT !.walking_minutes = IF @ < 0 THEN 0 ELSE @]

\* loadFile, for a file that loads.  A negative interval stays as it is.
LoadFile(f) ==
  [f EXCEPT
    !.poll_interval_seconds = Default(@, 60),
    !.page_interval_seconds = Default(@, 5),
    !.static_refresh_seconds = Default(@, 86400),
    !.feed_watchdog_seconds = Default(@, 1800),
    !.max_minutes = Default(@, 90),
    !.stops = [i \in DOMAIN @ |-> CheckedStop(@[i])]]

\* The secrets' key wins; the environment is asked only when no file has one.
APIKey(f, s, env) ==
  IF s.is = "yaml" /\ s.api_key # "" THEN s.api_key ELSE FirstSet(f.api_key, env)

LoadsWithSecrets(f, s, env) ==
  /\ Loads(f)
  /\ s.is \in {"absent", "yaml"}
  /\ APIKey(f, s, env) # ""

LoadWithSecrets(f, s, env) ==
  [LoadFile(f) EXCEPT
    !.api_key = APIKey(f, s, env),
    !.base_url = IF s.is = "yaml" THEN FirstSet(s.base_url, @) ELSE @,
    !.device_token = IF s.is = "yaml" THEN FirstSet(s.device_token, @) ELSE @]

\* What main makes of the times: a day without them has no schedule.
ScheduleOf(c) ==
  [scheduled |-> c.start_time # Unset,
   start |-> IF c.start_time = Unset THEN 0 ELSE c.start_time,
   stop |-> IF c.stop_time = Unset THEN 0 ELSE c.stop_time]

-----------------------------------------------------------------------------
\* The settings of tfi-agent: each file counts if the fields it asks for parse.
\* The level that loadSettings reads from config.yaml is not handed on.

defaultInterval == 3600

Parses(f) == f.is \in {"mistyped", "yaml"}

LoadSettings(f, s) ==
  [Interval |-> IF Parses(f) /\ f.update_interval_seconds > 0
                  THEN f.update_interval_seconds ELSE defaultInterval,
   BaseURL |-> IF Parses(s) THEN s.base_url ELSE "",
   DeviceToken |-> IF Parses(s) THEN s.device_token ELSE "",
   RemoteLogLevel |-> ""]

-----------------------------------------------------------------------------
\* Levels of the remote log (src/remotelog/remotelog.go)

LogLevels == {"debug", "info", "warn", "error"}

Rank(l) ==
  CASE l = "debug" -> 0
    [] l = "warn" -> 2
    [] l = "error" -> 3
    [] OTHER -> 1

\* strings.ToLower on the capital spellings.
LowerOf == [DEBUG |-> "debug", INFO |-> "info", WARN |-> "warn", ERROR |-> "error"]
ToLower(s) == IF s \in DOMAIN LowerOf THEN LowerOf[s] ELSE s

ParseLevel(s) == IF ToLower(s) \in LogLevels THEN ToLower(s) ELSE "info"

=============================================================================
