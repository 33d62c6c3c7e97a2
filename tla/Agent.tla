------------------------------- MODULE Agent -------------------------------
(***************************************************************************)
(* tfi-agent (src/agent/agent.go): each cycle asks the update server for   *)
(* the latest release, downloads and installs it when it differs from the  *)
(* version marker and is not known to be bad, then fetches config.yaml and *)
(* applies it when its bytes differ.  Installing is the Updater's: Run and *)
(* ApplyConfig are called here and advance by the Updater's own steps.     *)
(*                                                                         *)
(* The server may publish another release or another config at any moment. *)
(* A request fails, after doWithRetry's attempts, by a Fault.              *)
(***************************************************************************)
EXTENDS Updater

CONSTANTS
  HasToken      \* secrets.yaml holds a device_token

ASSUME AgentAssumption == HasToken \in BOOLEAN

VARIABLES
  pc,         \* where the loop of Run / cycle stands
  want,       \* the version read from /latest, while it is being installed
  misread,    \* history: the bad list could not be read when want was looked up in it
  staged,     \* the downloaded file in StagingDir
  marker,     \* versionFile: the version believed to be installed
  bad,        \* badVersionsFile: versions that failed to install
  event,      \* the report about to be posted
  latest,     \* server: the release /latest answers with
  remoteCfg,  \* server: the config of this device
  reports     \* server: the reports received, as <<event, version>>

server == <<latest, remoteCfg, reports>>
disk == <<staged, marker, bad>>
fetched == <<want, misread>>
avars == <<pc, want, misread, staged, marker, bad, event, latest, remoteCfg, reports>>
vars == <<uvars, avars>>

Events == {"release_failure", "update_error"}

AgentInit ==
  /\ Init
  /\ pc = "wait" /\ want = Missing /\ misread = FALSE /\ event = "update_error"
  /\ staged = Missing /\ marker = Missing /\ bad = {}
  /\ latest \in Versions \cup {Missing}
  /\ remoteCfg \in Configs
  /\ reports = {}

AgentAt(step) == pc = step

-----------------------------------------------------------------------------
\* Mutant of FetchLatest: with nothing to install the cycle ends, without the config.
FetchEndsCycle ==
  /\ AgentAt("wait")
  /\ IF latest \in {marker, Missing} \cup bad
       THEN UNCHANGED <<pc, want>>
       ELSE pc' = "download" /\ want' = latest
  /\ UNCHANGED <<uvars, misread, disk, event, server>>

\* checkBinary: the release is fetched, then compared with the marker and the bad list.
\* "Different, not newer".  A marker that cannot be read is taken for none, and a list that
\* cannot be read for an empty one.  Any other failure, an answer without a version
\* included, ends the binary check; the config check follows.
FetchLatest ==
  /\ AgentAt("wait")
  /\ \/ \E installed \in {marker, Missing}, known \in {bad, {}} :
          /\ IF installed = marker /\ known = bad THEN UNCHANGED faults ELSE Fault
          /\ misread' = (known # bad)
          /\ IF latest \in {installed, Missing} \cup known
               THEN pc' = "config" /\ UNCHANGED want
               ELSE pc' = "download" /\ want' = latest
     \/ /\ Fault
        /\ pc' = "config"
        /\ UNCHANGED fetched
  /\ UNCHANGED <<file, prev, svc, op, crashes, disk, event, server>>

\* downloadFile truncates the staged file and then fills it.
DownloadStart ==
  /\ AgentAt("download")
  /\ \/ /\ staged' = Torn /\ pc' = "downloading"
        /\ UNCHANGED <<event, faults>>
     \/ /\ Fault
        /\ event' = "update_error" /\ pc' = "report"
        /\ UNCHANGED staged
  /\ UNCHANGED <<file, prev, svc, op, crashes, fetched, marker, bad, server>>

\* Mutant of DownloadEnd: a download cut short is installed.
DownloadCutShort ==
  AgentAt("downloading") /\ pc' = "install" /\ UNCHANGED <<uvars, fetched, disk, event, server>>

DownloadEnd ==
  /\ AgentAt("downloading")
  /\ \/ /\ staged' = want /\ pc' = "install"
        /\ UNCHANGED <<event, faults>>
     \/ /\ Fault
        /\ event' = "update_error" /\ pc' = "report"
        /\ UNCHANGED staged
  /\ UNCHANGED <<file, prev, svc, op, crashes, fetched, marker, bad, server>>

RunUpdate ==
  /\ AgentAt("install")
  /\ Run(staged)
  /\ pc' = "updating"
  /\ UNCHANGED <<fetched, disk, event, server>>

\* Mutant of UpdateReturns: the result is read the wrong way round.
UpdateReturnsInverted ==
  /\ AgentAt("updating")
  /\ Collect
  /\ pc' = IF op.err THEN "marker" ELSE "markBad"
  /\ UNCHANGED <<fetched, disk, event, server>>

UpdateReturns ==
  /\ AgentAt("updating")
  /\ Collect
  /\ pc' = IF op.err THEN "markBad" ELSE "marker"
  /\ UNCHANGED <<fetched, disk, event, server>>

\* writeInstalledVersion: os.WriteFile truncates, then writes; a failure is logged.
WriteMarkerStart ==
  /\ AgentAt("marker")
  /\ \/ marker' = Missing /\ pc' = "marking" /\ UNCHANGED faults
     \/ Fault /\ pc' = "config" /\ UNCHANGED marker
  /\ UNCHANGED <<file, prev, svc, op, crashes, fetched, staged, bad, event, server>>

WriteMarkerEnd ==
  /\ AgentAt("marking")
  /\ \/ marker' = want /\ UNCHANGED faults
     \/ Fault /\ UNCHANGED marker
  /\ pc' = "config"
  /\ UNCHANGED <<file, prev, svc, op, crashes, fetched, staged, bad, event, server>>

\* Mutant of MarkBadVersion: the version is reported and not remembered.
ReportOnly ==
  /\ AgentAt("markBad")
  /\ event' = "release_failure" /\ pc' = "report"
  /\ UNCHANGED <<uvars, fetched, disk, server>>

MarkBadVersion ==
  /\ AgentAt("markBad")
  /\ \/ bad' = bad \cup {want} /\ UNCHANGED faults
     \/ Fault /\ UNCHANGED bad
  /\ event' = "release_failure"
  /\ pc' = "report"
  /\ UNCHANGED <<file, prev, svc, op, crashes, fetched, staged, marker, server>>

\* Mutant of PostReport: the report does not say which version.
PostReportUnnamed ==
  /\ AgentAt("report")
  /\ pc' = "config" /\ reports' = reports \cup {event}
  /\ UNCHANGED <<uvars, fetched, disk, event, latest, remoteCfg>>

\* postReport: without a token, or after a failed request, the report is dropped.
\* A request whose answer is lost has still been received.
PostReport ==
  /\ AgentAt("report")
  /\ pc' = "config"
  /\ \/ ~HasToken /\ UNCHANGED <<reports, faults>>
     \/ HasToken /\ reports' = reports \cup {<<event, want>>} /\ UNCHANGED faults
     \/ HasToken /\ Fault /\ reports' \in {reports, reports \cup {<<event, want>>}}
  /\ UNCHANGED <<file, prev, svc, op, crashes, fetched, disk, event, latest, remoteCfg>>

-----------------------------------------------------------------------------
\* checkConfig, which runs whatever became of the binary check.
SkipConfig ==
  /\ AgentAt("config")
  /\ \/ ~HasToken /\ UNCHANGED faults
     \/ HasToken /\ file["cfg"] = remoteCfg /\ UNCHANGED faults
     \/ HasToken /\ Fault
  /\ pc' = "wait"
  /\ UNCHANGED <<file, prev, svc, op, crashes, fetched, disk, event, server>>

RunApplyConfig ==
  /\ AgentAt("config") /\ HasToken
  /\ file["cfg"] # remoteCfg
  /\ ApplyConfig(remoteCfg)
  /\ pc' = "applying"
  /\ UNCHANGED <<fetched, disk, event, server>>

ApplyReturns ==
  /\ AgentAt("applying")
  /\ Collect
  /\ pc' = "wait"
  /\ UNCHANGED <<fetched, disk, event, server>>

-----------------------------------------------------------------------------
\* The agent is killed, or the device loses power: systemd starts the agent again,
\* which begins a new cycle with what the disk holds.
AgentCrash ==
  /\ Crash
  /\ pc' = "wait" /\ want' = Missing /\ misread' = FALSE
  /\ UNCHANGED <<disk, event, server>>

\* The update server, driven by its operator.
Publish(v) == latest' = v /\ UNCHANGED <<uvars, pc, fetched, disk, event, remoteCfg, reports>>
SetConfig(c) == remoteCfg' = c /\ UNCHANGED <<uvars, pc, fetched, disk, event, latest, reports>>

CheckBinary ==
  \/ FetchLatest \/ DownloadStart \/ DownloadEnd \/ RunUpdate \/ UpdateReturns
  \/ WriteMarkerStart \/ WriteMarkerEnd \/ MarkBadVersion \/ PostReport
CheckConfig == SkipConfig \/ RunApplyConfig \/ ApplyReturns
UpdaterStep == Step /\ UNCHANGED avars
Cycle == CheckBinary \/ CheckConfig \/ UpdaterStep
Service == (ServiceExits \/ SystemdRestarts) /\ UNCHANGED avars

AgentNext ==
  \/ CheckBinary \/ CheckConfig \/ UpdaterStep \/ Service \/ AgentCrash
  \/ \E v \in Versions : Publish(v)
  \/ \E c \in Configs : SetConfig(c)

AgentSpec == AgentInit /\ [][AgentNext]_vars

\* The loop always goes on (every request, command and wait has a timeout), and
\* systemd restarts the display.  Nothing is assumed of the server or of faults.
AgentFairSpec ==
  AgentSpec /\ WF_vars(Cycle) /\ WF_vars(SystemdRestarts /\ UNCHANGED avars)

-----------------------------------------------------------------------------
(***************************************************************************)
(* Properties.                                                             *)
(***************************************************************************)

\* Every variable keeps its shape.
AgentTypeOK ==
  /\ TypeOK
  /\ pc \in {"wait", "download", "downloading", "install", "updating", "marker",
            "marking", "markBad", "report", "config", "applying"}
  /\ want \in Versions \cup {Missing} /\ misread \in BOOLEAN
  /\ staged \in Versions \cup {Missing, Torn}
  /\ marker \in Versions \cup {Missing}
  /\ bad \subseteq Versions
  /\ event \in Events
  /\ latest \in Versions \cup {Missing}
  /\ remoteCfg \in Configs
  /\ reports \subseteq Events \X (Versions \cup {Missing})

\* The updater is only ever given a complete download, through crashes that leave the staged
\* file half written included; and a version on the bad list only when the list could not be
\* read in that cycle, which isBadVersion takes for an empty list (agent.go:490-494).
OnlyCompleteFreshReleases ==
  [][At("idle") /\ op'.pc = "find"
       => op'.new \in Versions /\ (op'.new \in bad => misread)]_vars

\* The agent uses the updater the way its specification allows: one call at a time,
\* a complete binary or none, the result taken once, nobody else at the files.
UsesUpdaterAsSpecified == Spec

\* At the start of a cycle the marker names the binary on the disk, so that "binary
\* up to date" is true when the agent says so.
MarkerIsTrue ==
  NoFlaps /\ Clean /\ pc = "wait" /\ marker # Missing => file["bin"] = marker

\* A version lands on the bad list only because it really fails with some config.
BlacklistIsEarned ==
  NoFlaps /\ Clean /\ Deployed \in Works
    => \A v \in bad : \E c \in Configs : <<v, c>> \notin Works

\* Once the server stops changing its mind the agent settles: the release is
\* recorded as installed, or as bad, for good; faults and crashes only delay it.
Settles ==
  \A v \in Versions : <>[](latest = v) => <>[](marker = v \/ v \in bad)

\* A config every release works with ends up on the disk and stays there, when the
\* environment is quiet, even if releases came up for a moment under other configs.
ConfigSettles ==
  HasToken /\ Deployed \in Works /\ []Clean =>
    \A c \in Configs :
      <>[](remoteCfg = c) /\ (\A v \in Versions : <<v, c>> \in Works) => <>[](file["cfg"] = c)

-----------------------------------------------------------------------------
(***************************************************************************)
(* What the repository says and the code does not do: a run refutes it.    *)
(***************************************************************************)

\* Some pair of an installed or a .prev binary and config works ("the running
\* display is never disturbed on failure").  A kill between the install and the
\* marker makes the next cycle back up the new binary over the last good one.
GoodCopyKept ==
  Deployed \in Works =>
    \E b \in {file["bin"], prev["bin"]}, c \in {file["cfg"], prev["cfg"]} : <<b, c>> \in Works

=============================================================================
