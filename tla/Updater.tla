------------------------------ MODULE Updater ------------------------------
(***************************************************************************)
(* The update lifecycle of src/updater/updater.go: Run installs a staged   *)
(* tfi-display binary, ApplyConfig a new config.yaml, and both go through  *)
(*                                                                         *)
(*   backup -> install -> restart the service -> verify -> roll back       *)
(*                                                                         *)
(* on the same device: the files under TargetBinary and configPath, their  *)
(* .prev copies, and the tfi-display service that systemd keeps restarting *)
(* (Restart=always).  The caller may be killed, or the device may lose     *)
(* power, between any two steps.  A rename is durable once it returns.     *)
(***************************************************************************)
EXTENDS Naturals

CONSTANTS
  Versions,     \* binary releases
  Configs,      \* contents of config.yaml
  Works,        \* pairs <<binary, config>> under which the display keeps running
  Flaps,        \* pairs that come up for a while and then exit
  Deployed,     \* the pair on the disk before the first call
  Missing,      \* no file
  Torn,         \* a file truncated or half written
  MaxFaults,    \* bound on the failures of the environment (disk, systemctl, network)
  MaxCrashes    \* bound on kills of the caller and power losses

Content == Versions \cup Configs \cup {Missing, Torn}
Artifact == {"bin", "cfg"}

ASSUME DeviceAssumption ==
  /\ Works \subseteq Versions \X Configs
  /\ Flaps \subseteq Versions \X Content
  /\ Flaps \cap Works = {}
  /\ Deployed \in (Versions \cup {Missing}) \X (Configs \cup {Missing})
  /\ Missing # Torn
  /\ {Missing, Torn} \cap (Versions \cup Configs) = {}
  /\ MaxFaults \in Nat
  /\ MaxCrashes \in Nat

VARIABLES
  file,     \* file[a]: what TargetBinary and configPath hold
  prev,     \* prev[a]: what the .prev copy of each holds
  svc,      \* the tfi-display process
  op,       \* the call of Run or ApplyConfig in progress
  faults,   \* failures of the environment so far
  crashes   \* kills and power losses so far

uvars == <<file, prev, svc, op, faults, crashes>>

(***************************************************************************)
(* The process: whether it is up, the pair it loaded when it started, and  *)
(* whether it executes the very file now at TargetBinary (the kernel then  *)
(* refuses to open that file for writing: ETXTBSY).  svc.flapped is        *)
(* history: a pair that does not work has come up for a while.             *)
(***************************************************************************)
Stopped(flapped) ==
  [up |-> FALSE, pair |-> <<Missing, Missing>>, here |-> FALSE, flapped |-> flapped]
Down == Stopped(svc.flapped)
Pair == <<file["bin"], file["cfg"]>>
Running ==
  [up |-> TRUE, pair |-> Pair, here |-> TRUE, flapped |-> svc.flapped \/ Pair \in Flaps]
StartOutcomes == {s \in {Running, Down} :
                    IF s.up THEN Pair \in Works \cup Flaps ELSE Pair \notin Works}

(***************************************************************************)
(* The call: op.pc names the step that comes next, op.new is the content   *)
(* to install, op.err the result once op.pc = "done".  op.old is what the  *)
(* file held when the call began; no step reads it, the properties do.     *)
(***************************************************************************)
Idle == [pc |-> "idle", art |-> "bin", new |-> Missing, old |-> Missing, err |-> FALSE]
Steps == {"find", "backup", "backupCopy", "install", "restart", "verify",
          "rollback", "rollbackCopy", "rollbackRestart"}

At(step) == op.pc = step
Goto(step) == op' = [op EXCEPT !.pc = step]
\* Mutant of Return: the result is lost.
ReturnNothing(failed) == op' = [pc |-> "done"]

Return(failed) == op' = [op EXCEPT !.pc = "done", !.err = failed]
Fault == faults < MaxFaults /\ faults' = faults + 1

Init ==
  /\ file = [a \in Artifact |-> IF a = "bin" THEN Deployed[1] ELSE Deployed[2]]
  /\ prev = [a \in Artifact |-> Missing]
  /\ svc = Stopped(FALSE)
  /\ op = Idle
  /\ faults = 0
  /\ crashes = 0

-----------------------------------------------------------------------------
\* The entry points.  Run starts with findStagedBinary, ApplyConfig with the backup.

Run(new) ==
  /\ At("idle")
  /\ op' = [pc |-> "find", art |-> "bin", new |-> new, old |-> file["bin"], err |-> FALSE]
  /\ UNCHANGED <<file, prev, svc, faults, crashes>>

ApplyConfig(new) ==
  /\ At("idle")
  /\ op' = [pc |-> "backup", art |-> "cfg", new |-> new, old |-> file["cfg"], err |-> FALSE]
  /\ UNCHANGED <<file, prev, svc, faults, crashes>>

FindStagedBinary ==
  /\ At("find")
  /\ IF op.new = Missing THEN Return(TRUE) ELSE Goto("backup")
  /\ UNCHANGED <<file, prev, svc, faults, crashes>>

-----------------------------------------------------------------------------
\* copyFile truncates its destination before it writes: two steps, a crash may
\* fall between them, and either may fail.

BackupBinary ==
  /\ At("backup")
  /\ \/ /\ file[op.art] = Missing
        /\ Goto("install")
        /\ UNCHANGED <<prev, faults>>
     \/ /\ file[op.art] # Missing
        /\ prev' = [prev EXCEPT ![op.art] = Torn]
        /\ Goto("backupCopy")
        /\ UNCHANGED faults
     \/ /\ file[op.art] # Missing
        /\ Fault
        /\ Return(TRUE)
        /\ UNCHANGED prev
  /\ UNCHANGED <<file, svc, crashes>>

\* Mutant of BackupCopy: the copy stops half way and nobody looks at the error.
BackupCopyUnchecked ==
  At("backupCopy") /\ Goto("install") /\ UNCHANGED <<file, prev, svc, faults, crashes>>

BackupCopy ==
  /\ At("backupCopy")
  /\ \/ /\ prev' = [prev EXCEPT ![op.art] = file[op.art]]
        /\ Goto("install")
        /\ UNCHANGED faults
     \/ /\ Fault
        /\ Return(TRUE)
        /\ UNCHANGED prev
  /\ UNCHANGED <<file, svc, crashes>>

\* installBinary and writeFileAtomic: a ".new" file renamed into place, so the
\* destination goes from the old content to the new one at once, and a running
\* process keeps executing the file that was replaced.
InstallFile ==
  /\ At("install")
  /\ \/ /\ file' = [file EXCEPT ![op.art] = op.new]
        /\ svc' = IF op.art = "bin" THEN [svc EXCEPT !.here = FALSE] ELSE svc
        /\ Goto("restart")
        /\ UNCHANGED faults
     \/ /\ Fault
        /\ Return(TRUE)
        /\ UNCHANGED <<file, svc>>
  /\ UNCHANGED <<prev, crashes>>

-----------------------------------------------------------------------------
\* restartService and waitForActive.  A Type=simple service is "active" as soon
\* as its process exists; the wait succeeds at the first sample that finds it up
\* and fails when every sample up to the timeout finds it down.

\* Mutants of RestartService and WaitForActive: the restart is left out, the wait
\* believes every service, a failed wait does not roll back.
NoRestart ==
  At("restart") /\ Goto("verify") /\ UNCHANGED <<file, prev, svc, faults, crashes>>
WaitForNothing ==
  At("verify") /\ Return(FALSE) /\ UNCHANGED <<file, prev, svc, faults, crashes>>
WaitWithoutRollback ==
  At("verify") /\ Return(~svc.up) /\ UNCHANGED <<file, prev, svc, faults, crashes>>

RestartService ==
  /\ At("restart")
  /\ \/ svc' \in StartOutcomes /\ Goto("verify") /\ UNCHANGED faults
     \/ svc' \in {svc, Down} /\ Fault /\ Goto("rollback")
  /\ UNCHANGED <<file, prev, crashes>>

WaitForActive ==
  /\ At("verify")
  /\ IF svc.up THEN Return(FALSE) ELSE Goto("rollback")
  /\ UNCHANGED <<file, prev, svc, faults, crashes>>

-----------------------------------------------------------------------------
\* rollback writes in place: it needs the .prev copy, cannot open the binary that
\* is being executed, and leaves the file torn when the copy stops half way.

BinaryBusy == op.art = "bin" /\ svc.up /\ svc.here

Rollback ==
  /\ At("rollback")
  /\ \/ /\ prev[op.art] = Missing \/ BinaryBusy
        /\ Return(TRUE)
        /\ UNCHANGED <<file, faults>>
     \/ /\ prev[op.art] # Missing /\ ~BinaryBusy
        /\ file' = [file EXCEPT ![op.art] = Torn]
        /\ Goto("rollbackCopy")
        /\ UNCHANGED faults
     \/ /\ prev[op.art] # Missing /\ ~BinaryBusy
        /\ Fault
        /\ Return(TRUE)
        /\ UNCHANGED file
  /\ UNCHANGED <<prev, svc, crashes>>

RollbackCopy ==
  /\ At("rollbackCopy")
  /\ \/ /\ file' = [file EXCEPT ![op.art] = prev[op.art]]
        /\ Goto("rollbackRestart")
        /\ UNCHANGED faults
     \/ /\ Fault
        /\ Return(TRUE)
        /\ UNCHANGED file
  /\ UNCHANGED <<prev, svc, crashes>>

RollbackRestart ==
  /\ At("rollbackRestart")
  /\ \/ svc' \in StartOutcomes /\ UNCHANGED faults
     \/ svc' \in {svc, Down} /\ Fault
  /\ Return(TRUE)
  /\ UNCHANGED <<file, prev, crashes>>

-----------------------------------------------------------------------------
\* The service on its own: a pair that does not work exits sooner or later, one
\* that works only through a failure outside it, and systemd starts it again.

ServiceExits ==
  /\ svc.up
  /\ \/ svc.pair \notin Works /\ UNCHANGED faults
     \/ svc.pair \in Works /\ Fault
  /\ svc' = Down
  /\ UNCHANGED <<file, prev, op, crashes>>

SystemdRestarts ==
  /\ ~svc.up
  /\ svc' \in StartOutcomes
  /\ UNCHANGED <<file, prev, op, faults, crashes>>

\* The caller is killed (SIGKILL after TimeoutStopSec); a power loss also takes
\* the display down.  Files stay as the last completed step left them.
Crash ==
  /\ crashes < MaxCrashes
  /\ crashes' = crashes + 1
  /\ op' = Idle
  /\ svc' \in {svc, Down}
  /\ UNCHANGED <<file, prev, faults>>

\* The environment fails the caller outside a call (a request, a state file).
FaultElsewhere == Fault /\ UNCHANGED <<file, prev, svc, op, crashes>>

-----------------------------------------------------------------------------
Step ==
  \/ FindStagedBinary \/ BackupBinary \/ BackupCopy \/ InstallFile
  \/ RestartService \/ WaitForActive
  \/ Rollback \/ RollbackCopy \/ RollbackRestart

\* The caller has taken the result of a finished call.
Collect == At("done") /\ op' = Idle /\ UNCHANGED <<file, prev, svc, faults, crashes>>

Next ==
  \/ \E v \in Versions \cup {Missing} : Run(v)
  \/ \E c \in Configs : ApplyConfig(c)
  \/ Step \/ Collect
  \/ ServiceExits \/ SystemdRestarts \/ Crash \/ FaultElsewhere

Spec == Init /\ [][Next]_uvars

\* A call in progress takes its next step (every step is bounded by a timeout),
\* and systemd restarts a service that is down.
FairSpec == Spec /\ WF_uvars(Step) /\ WF_uvars(Collect) /\ WF_uvars(SystemdRestarts)

-----------------------------------------------------------------------------
(***************************************************************************)
(* Properties.                                                             *)
(***************************************************************************)

Process == [up : BOOLEAN, pair : Content \X Content, here : BOOLEAN, flapped : BOOLEAN]
Call == [pc : Steps \cup {"idle", "done"}, art : Artifact,
         new : Content, old : Content, err : BOOLEAN]

\* Every variable keeps its shape.
TypeOK ==
  /\ file \in [Artifact -> Content]
  /\ prev \in [Artifact -> Content]
  /\ svc \in Process
  /\ op \in Call
  /\ faults \in 0..MaxFaults
  /\ crashes \in 0..MaxCrashes

NoFlaps == ~svc.flapped
Clean == faults = 0 /\ crashes = 0

\* While a call runs, whatever fails, what the file held when the call began is
\* on the disk in full, in place or as .prev ("the previous config is preserved
\* at configPath.prev for one-step rollback").
OldContentKept ==
  op.pc \in Steps \cup {"done"} => op.old \in {file[op.art], prev[op.art]}

\* A call that fails has put the old content back, unless the environment failed
\* too, or a broken release was momentarily up when rollback wanted to overwrite it.
FailedCallRestores ==
  NoFlaps /\ faults = 0 /\ At("done") /\ op.err /\ op.old # Missing
    => file[op.art] = op.old

\* Between calls the disk holds a pair that works, whatever releases and configs
\* were tried: the running display is never disturbed by a failed update.
DisplayPreserved ==
  NoFlaps /\ Clean /\ Deployed \in Works /\ op.pc \in {"idle", "done"} => Pair \in Works

\* Between calls the process that is up was started from the files on the disk: no
\* installed binary or config is still waiting for a restart.
RunsWhatIsInstalled ==
  Clean /\ op.pc \in {"idle", "done"} /\ svc.up => svc.pair = Pair

\* With a quiet environment the display never stays dark: after any update attempt
\* the service is up again, run after run.
DisplayComesBack ==
  Deployed \in Works /\ [](Clean /\ NoFlaps) => []<>(svc.up)

=============================================================================
