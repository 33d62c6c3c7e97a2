---------------------------- MODULE AgentProofs ----------------------------
(***************************************************************************)
(* Theorems of Updater and of Agent, for every set of releases and         *)
(* configs, every choice of the pairs that work, and any number of faults  *)
(* and crashes.  First the updater by itself: UpdaterInv is the inductive  *)
(* invariant its theorems follow from.  The agent then uses the updater as *)
(* Updater's Spec says it is used, so that these theorems hold of the      *)
(* whole agent; the marker and the bad list need an invariant of their     *)
(* own, AgentInv.                                                          *)
(***************************************************************************)
EXTENDS Agent, TLAPS

-----------------------------------------------------------------------------
(***************************************************************************)
(* The updater.                                                            *)
(***************************************************************************)

\* What the disk holds of the old content at each step of a call.
BackupInv ==
  /\ \A a \in Artifact : file[a] = Missing => prev[a] = Missing
  /\ op.pc \in {"backup", "backupCopy", "install"} => op.new # Missing
  /\ op.pc \in {"find", "backup", "backupCopy", "rollbackRestart"} => file[op.art] = op.old
  /\ op.pc \in {"install", "restart", "verify", "rollback", "rollbackCopy"} => prev[op.art] = op.old
  /\ op.pc = "done" => op.old \in {file[op.art], prev[op.art]}
  /\ op.pc \in {"restart", "verify"} => file[op.art] = op.new
  /\ op.pc = "done" /\ ~op.err => file[op.art] = op.new

\* While nothing has flapped only a pair that works is up, and, as long as nothing
\* outside fails, the service is up after a restart exactly when the new pair works.
ServiceInv ==
  NoFlaps =>
    /\ svc.up => svc.pair \in Works
    /\ faults = 0 /\ At("verify") => (svc.up <=> Pair \in Works)
    /\ faults = 0 /\ At("rollback") => ~svc.up /\ Pair \notin Works

\* The pair the disk held when the call began.
OldPair == IF op.art = "bin" THEN <<op.old, file["cfg"]>> ELSE <<file["bin"], op.old>>

\* While nothing has failed the call began on a pair that works.
WorkingInv ==
  NoFlaps /\ Clean /\ Deployed \in Works =>
    /\ op.pc \in Steps => OldPair \in Works
    /\ op.pc \in {"idle", "done"} => Pair \in Works

\* Between the replacement of a file and the restart that follows, and only there,
\* the process may have been started from other files.
FreshInv ==
  Clean /\ svc.up /\ op.pc \notin {"restart", "rollbackCopy", "rollbackRestart"} => svc.pair = Pair

UpdaterInv ==
  TypeOK /\ BackupInv /\ ServiceInv /\ FailedCallRestores /\ WorkingInv /\ FreshInv

-----------------------------------------------------------------------------
(***************************************************************************)
(* Types.                                                                  *)
(***************************************************************************)

\* A start leaves the service running the pair on the disk, or down.
LEMMA StartTyping ==
  ASSUME TypeOK
  PROVE  Running \in Process /\ Down \in Process /\ StartOutcomes \subseteq {Running, Down}
<1>1. Pair \in Content \X Content
  BY DEF TypeOK, Pair, Artifact
<1>2. Running \in Process /\ Down \in Process
  BY <1>1 DEF TypeOK, Running, Down, Stopped, Process, Content
<1> QED
  BY <1>2 DEF StartOutcomes

\* Going to a step and returning keep the call a call.
LEMMA CallTyping ==
  ASSUME TypeOK
  PROVE  /\ Idle \in Call
         /\ \A s \in Steps : Goto(s) => op' \in Call
         /\ \A b \in BOOLEAN : Return(b) => op' \in Call
  BY DEF TypeOK, Call, Idle, Goto, Return, Content, Artifact

\* Faults stay within their bound.
LEMMA FaultTyping ==
  ASSUME TypeOK, Fault
  PROVE  faults' \in 0..MaxFaults
  BY DeviceAssumption DEF TypeOK, Fault

\* Every step of the specification preserves the types.
LEMMA TypeStep ==
  ASSUME TypeOK, [Next]_uvars
  PROVE  TypeOK'
<1> USE StartTyping, CallTyping, FaultTyping DEF TypeOK
<1>0. {"backup", "backupCopy", "install", "restart", "verify", "rollback",
       "rollbackCopy", "rollbackRestart"} \subseteq Steps
  BY DEF Steps
<1>1. ASSUME NEW v \in Versions \cup {Missing}, Run(v) PROVE TypeOK'
  <2>1. op' \in Call
    BY <1>1 DEF Run, Call, Artifact, Steps, Content
  <2> QED
    BY <1>1, <2>1 DEF Run
<1>2. ASSUME NEW c \in Configs, ApplyConfig(c) PROVE TypeOK'
  <2>1. op' \in Call
    BY <1>2 DEF ApplyConfig, Call, Artifact, Steps, Content
  <2> QED
    BY <1>2, <2>1 DEF ApplyConfig
<1>3. CASE FindStagedBinary
  BY <1>0, <1>3 DEF FindStagedBinary
<1>4. CASE BackupBinary
  BY <1>0, <1>4 DEF BackupBinary, Content
<1>5. CASE BackupCopy
  BY <1>0, <1>5 DEF BackupCopy, Call
<1>6. CASE InstallFile
  <2>1. [svc EXCEPT !.here = FALSE] \in Process
    BY DEF Process
  <2>2. op.new \in Content
    BY DEF Call
  <2> QED
    BY <1>0, <1>6, <2>1, <2>2 DEF InstallFile
<1>7. CASE RestartService
  BY <1>0, <1>7 DEF RestartService
<1>8. CASE WaitForActive
  BY <1>0, <1>8 DEF WaitForActive
<1>9. CASE Rollback
  BY <1>0, <1>9 DEF Rollback, Content
<1>10. CASE RollbackCopy
  BY <1>0, <1>10 DEF RollbackCopy, Call
<1>11. CASE RollbackRestart
  BY <1>0, <1>11 DEF RollbackRestart
<1>12. CASE Collect
  BY <1>0, <1>12 DEF Collect
<1>13. CASE ServiceExits
  BY <1>0, <1>13 DEF ServiceExits
<1>14. CASE SystemdRestarts
  BY <1>0, <1>14 DEF SystemdRestarts
<1>15. CASE Crash
  BY <1>15, DeviceAssumption DEF Crash
<1>16. CASE FaultElsewhere
  BY <1>16 DEF FaultElsewhere
<1>17. CASE UNCHANGED uvars
  BY <1>17 DEF uvars
<1> QED
  BY <1>1, <1>2, <1>3, <1>4, <1>5, <1>6, <1>7, <1>8, <1>9, <1>10, <1>11, <1>12, <1>13, <1>14, <1>15, <1>16, <1>17 DEF Next, Step

-----------------------------------------------------------------------------
(***************************************************************************)
(* The inductive invariant.                                                *)
(***************************************************************************)

\* Going to a step and returning change the step and the result of a call only.
LEMMA CallFields ==
  ASSUME TypeOK
  PROVE  /\ op.art \in Artifact
         /\ \A s \in Steps : Goto(s) =>
              /\ op'.pc = s /\ op'.art = op.art /\ op'.err = op.err
              /\ op'.old = op.old /\ op'.new = op.new
         /\ \A b \in BOOLEAN : Return(b) =>
              /\ op'.pc = "done" /\ op'.art = op.art /\ op'.err = b
              /\ op'.old = op.old /\ op'.new = op.new
  BY DEF TypeOK, Call, Goto, Return

\* The old content stays on the disk.
LEMMA BackupStep ==
  ASSUME TypeOK, BackupInv, [Next]_uvars
  PROVE  BackupInv'
<1> USE CallFields DEF TypeOK, BackupInv, At, Artifact
<1>0. {"backup", "backupCopy", "install", "restart", "verify", "rollback",
       "rollbackCopy", "rollbackRestart"} \subseteq Steps
  BY DEF Steps
<1>1. ASSUME NEW v \in Versions \cup {Missing}, Run(v) PROVE BackupInv'
  BY <1>1 DEF Run
<1>2. ASSUME NEW c \in Configs, ApplyConfig(c) PROVE BackupInv'
  BY <1>2, DeviceAssumption DEF ApplyConfig
<1>3. CASE FindStagedBinary
  BY <1>0, <1>3 DEF FindStagedBinary
<1>4. CASE BackupBinary
  BY <1>0, <1>4 DEF BackupBinary
<1>5. CASE BackupCopy
  BY <1>0, <1>5 DEF BackupCopy
<1>6. CASE InstallFile
  BY <1>0, <1>6 DEF InstallFile
<1>7. CASE RestartService
  BY <1>0, <1>7 DEF RestartService
<1>8. CASE WaitForActive
  BY <1>0, <1>8 DEF WaitForActive
<1>9. CASE Rollback
  BY <1>0, <1>9, DeviceAssumption DEF Rollback
<1>10. CASE RollbackCopy
  BY <1>0, <1>10 DEF RollbackCopy
<1>11. CASE RollbackRestart
  BY <1>0, <1>11 DEF RollbackRestart
<1>12. CASE Collect
  BY <1>0, <1>12 DEF Collect, Idle
<1>13. CASE ServiceExits
  BY <1>0, <1>13 DEF ServiceExits
<1>14. CASE SystemdRestarts
  BY <1>0, <1>14 DEF SystemdRestarts
<1>15. CASE Crash
  BY <1>0, <1>15 DEF Crash, Idle
<1>16. CASE FaultElsewhere
  BY <1>16 DEF FaultElsewhere
<1>17. CASE UNCHANGED uvars
  BY <1>17 DEF uvars
<1> QED
  BY <1>1, <1>2, <1>3, <1>4, <1>5, <1>6, <1>7, <1>8, <1>9, <1>10, <1>11, <1>12, <1>13, <1>14, <1>15, <1>16, <1>17 DEF Next, Step

\* A fault leaves its mark.
LEMMA FaultDirties ==
  ASSUME TypeOK, Fault
  PROVE  faults' # 0
  BY DeviceAssumption DEF TypeOK, Fault

\* A start leaves the service up with the pair on the disk, which works or flaps, or down
\* with a pair that does not work; a stop leaves it down.  That something flapped is kept.
LEMMA StartFields ==
  ASSUME TypeOK
  PROVE  /\ ~Down.up /\ Down.flapped = svc.flapped
         /\ \A s \in StartOutcomes :
              /\ s.up => s.pair = Pair /\ (Pair \in Works \/ s.flapped)
              /\ ~s.up => Pair \notin Works
              /\ svc.flapped => s.flapped
<1>1. ~Down.up /\ Down.flapped = svc.flapped
  BY DEF Down, Stopped
<1>2. Running.up /\ Running.pair = Pair /\ Running.flapped = (svc.flapped \/ Pair \in Flaps)
  BY DEF Running
<1> QED
  BY <1>1, <1>2 DEF StartOutcomes

\* Only working pairs are up, and verification tells them apart.
LEMMA ServiceStep ==
  ASSUME TypeOK, ServiceInv, [Next]_uvars
  PROVE  ServiceInv'
<1> USE CallFields, StartFields, FaultDirties, DeviceAssumption DEF TypeOK, ServiceInv, At, NoFlaps, Pair
<1>0. {"backup", "backupCopy", "install", "restart", "verify", "rollback",
       "rollbackCopy", "rollbackRestart"} \subseteq Steps
  BY DEF Steps
<1>1. ASSUME NEW v \in Versions \cup {Missing}, Run(v) PROVE ServiceInv'
  BY <1>0, <1>1 DEF Run
<1>2. ASSUME NEW c \in Configs, ApplyConfig(c) PROVE ServiceInv'
  BY <1>0, <1>2 DEF ApplyConfig
<1>3. CASE FindStagedBinary
  BY <1>0, <1>3 DEF FindStagedBinary
<1>4. CASE BackupBinary
  BY <1>0, <1>4 DEF BackupBinary
<1>5. CASE BackupCopy
  BY <1>0, <1>5 DEF BackupCopy
<1>6. CASE InstallFile
  <2>1. svc'.up = svc.up /\ svc'.pair = svc.pair /\ svc'.flapped = svc.flapped
    BY <1>6 DEF InstallFile, Process
  <2> QED
    BY <1>0, <1>6, <2>1 DEF InstallFile
<1>7. CASE RestartService
  BY <1>0, <1>7 DEF RestartService
<1>8. CASE WaitForActive
  BY <1>0, <1>8 DEF WaitForActive
<1>9. CASE Rollback
  BY <1>0, <1>9 DEF Rollback, BinaryBusy
<1>10. CASE RollbackCopy
  BY <1>0, <1>10 DEF RollbackCopy
<1>11. CASE RollbackRestart
  <2>1. svc' = svc \/ svc' = Down \/ svc' \in StartOutcomes
    BY <1>11 DEF RollbackRestart
  <2>2. op'.pc = "done"
    BY <1>11 DEF RollbackRestart
  <2> QED
    BY <2>1, <2>2
<1>12. CASE Collect
  BY <1>0, <1>12 DEF Collect, Idle
<1>13. CASE ServiceExits
  BY <1>0, <1>13 DEF ServiceExits
<1>14. CASE SystemdRestarts
  BY <1>0, <1>14 DEF SystemdRestarts
<1>15. CASE Crash
  BY <1>0, <1>15 DEF Crash, Idle
<1>16. CASE FaultElsewhere
  BY <1>16 DEF FaultElsewhere
<1>17. CASE UNCHANGED uvars
  BY <1>17 DEF uvars
<1> QED
  BY <1>1, <1>2, <1>3, <1>4, <1>5, <1>6, <1>7, <1>8, <1>9, <1>10, <1>11,
     <1>12, <1>13, <1>14, <1>15, <1>16, <1>17 DEF Next, Step

\* A failed call restores the old content.
LEMMA RestoreStep ==
  ASSUME TypeOK, BackupInv, ServiceInv, FailedCallRestores, [Next]_uvars
  PROVE  FailedCallRestores'
<1> USE CallFields, StartFields, FaultDirties, DeviceAssumption DEF TypeOK, FailedCallRestores, At, BackupInv, ServiceInv, NoFlaps, Pair
<1>0. {"backup", "backupCopy", "install", "restart", "verify", "rollback",
       "rollbackCopy", "rollbackRestart"} \subseteq Steps
  BY DEF Steps
<1>1. ASSUME NEW v \in Versions \cup {Missing}, Run(v) PROVE FailedCallRestores'
  BY <1>0, <1>1 DEF Run
<1>2. ASSUME NEW c \in Configs, ApplyConfig(c) PROVE FailedCallRestores'
  BY <1>0, <1>2 DEF ApplyConfig
<1>3. CASE FindStagedBinary
  BY <1>0, <1>3 DEF FindStagedBinary
<1>4. CASE BackupBinary
  BY <1>0, <1>4 DEF BackupBinary
<1>5. CASE BackupCopy
  BY <1>0, <1>5 DEF BackupCopy
<1>6. CASE InstallFile
  BY <1>0, <1>6 DEF InstallFile
<1>7. CASE RestartService
  BY <1>0, <1>7 DEF RestartService
<1>8. CASE WaitForActive
  BY <1>0, <1>8 DEF WaitForActive
<1>9. CASE Rollback
  BY <1>0, <1>9 DEF Rollback, BinaryBusy
<1>10. CASE RollbackCopy
  BY <1>0, <1>10 DEF RollbackCopy
<1>11. CASE RollbackRestart
  BY <1>0, <1>11 DEF RollbackRestart
<1>12. CASE Collect
  BY <1>0, <1>12 DEF Collect, Idle
<1>13. CASE ServiceExits
  BY <1>0, <1>13 DEF ServiceExits
<1>14. CASE SystemdRestarts
  BY <1>0, <1>14 DEF SystemdRestarts
<1>15. CASE Crash
  BY <1>0, <1>15 DEF Crash, Idle
<1>16. CASE FaultElsewhere
  BY <1>16 DEF FaultElsewhere
<1>17. CASE UNCHANGED uvars
  BY <1>17 DEF uvars
<1> QED
  BY <1>1, <1>2, <1>3, <1>4, <1>5, <1>6, <1>7, <1>8, <1>9, <1>10, <1>11,
     <1>12, <1>13, <1>14, <1>15, <1>16, <1>17 DEF Next, Step

\* The disk keeps a working pair.
LEMMA WorkingStep ==
  ASSUME TypeOK, BackupInv, ServiceInv, FailedCallRestores, WorkingInv, [Next]_uvars
  PROVE  WorkingInv'
<1> USE CallFields, StartFields, FaultDirties, DeviceAssumption DEF TypeOK, WorkingInv, At, NoFlaps, Clean, Pair, OldPair, Artifact
<1>0. {"find", "backup", "backupCopy", "install", "restart", "verify", "rollback",
       "rollbackCopy", "rollbackRestart"} \subseteq Steps
  BY DEF Steps
<1>a. op.pc \in {"find", "rollbackRestart"} => OldPair = Pair
  BY DEF BackupInv
<1>1. ASSUME NEW v \in Versions \cup {Missing}, Run(v) PROVE WorkingInv'
  BY <1>0, <1>1 DEF Run
<1>2. ASSUME NEW c \in Configs, ApplyConfig(c) PROVE WorkingInv'
  BY <1>0, <1>2 DEF ApplyConfig
<1>3. CASE FindStagedBinary
  BY <1>0, <1>a, <1>3 DEF FindStagedBinary
<1>4. CASE BackupBinary
  BY <1>0, <1>4 DEF BackupBinary
<1>5. CASE BackupCopy
  BY <1>0, <1>5 DEF BackupCopy
<1>6. CASE InstallFile
  <2>1. svc'.flapped = svc.flapped
    BY <1>6 DEF InstallFile, Process
  <2> QED
    BY <1>0, <1>6, <2>1 DEF InstallFile
<1>7. CASE RestartService
  BY <1>0, <1>7 DEF RestartService
<1>8. CASE WaitForActive
  BY <1>0, <1>8 DEF WaitForActive, ServiceInv
<1>9. CASE Rollback
  <2>1. ASSUME NoFlaps, Clean, OldPair \in Works
        PROVE  prev[op.art] # Missing /\ ~BinaryBusy
    BY <1>9, <2>1 DEF Rollback, BinaryBusy, BackupInv, ServiceInv
  <2> QED
    BY <1>0, <1>9, <2>1 DEF Rollback
<1>10. CASE RollbackCopy
  BY <1>0, <1>10 DEF RollbackCopy
<1>11. CASE RollbackRestart
  BY <1>0, <1>a, <1>11 DEF RollbackRestart
<1>12. CASE Collect
  BY <1>0, <1>12 DEF Collect, Idle, Steps
<1>13. CASE ServiceExits
  BY <1>0, <1>13 DEF ServiceExits
<1>14. CASE SystemdRestarts
  BY <1>0, <1>14 DEF SystemdRestarts
<1>15. CASE Crash
  BY <1>0, <1>15 DEF Crash, Idle
<1>16. CASE FaultElsewhere
  BY <1>16 DEF FaultElsewhere
<1>17. CASE UNCHANGED uvars
  BY <1>17 DEF uvars
<1> QED
  BY <1>1, <1>2, <1>3, <1>4, <1>5, <1>6, <1>7, <1>8, <1>9, <1>10, <1>11,
     <1>12, <1>13, <1>14, <1>15, <1>16, <1>17 DEF Next, Step

\* The process runs the files on the disk.
LEMMA FreshStep ==
  ASSUME TypeOK, FreshInv, [Next]_uvars
  PROVE  FreshInv'
<1> USE CallFields, StartFields, FaultDirties, DeviceAssumption DEF TypeOK, FreshInv, At, Clean, Pair, Artifact
<1>0. {"backup", "backupCopy", "install", "restart", "verify", "rollback",
       "rollbackCopy", "rollbackRestart"} \subseteq Steps
  BY DEF Steps
<1>1. ASSUME NEW v \in Versions \cup {Missing}, Run(v) PROVE FreshInv'
  BY <1>0, <1>1 DEF Run
<1>2. ASSUME NEW c \in Configs, ApplyConfig(c) PROVE FreshInv'
  BY <1>0, <1>2 DEF ApplyConfig
<1>3. CASE FindStagedBinary
  BY <1>0, <1>3 DEF FindStagedBinary
<1>4. CASE BackupBinary
  BY <1>0, <1>4 DEF BackupBinary
<1>5. CASE BackupCopy
  BY <1>0, <1>5 DEF BackupCopy
<1>6. CASE InstallFile
  BY <1>0, <1>6 DEF InstallFile
<1>7. CASE RestartService
  BY <1>0, <1>7 DEF RestartService
<1>8. CASE WaitForActive
  BY <1>0, <1>8 DEF WaitForActive
<1>9. CASE Rollback
  BY <1>0, <1>9 DEF Rollback, BinaryBusy
<1>10. CASE RollbackCopy
  BY <1>0, <1>10 DEF RollbackCopy
<1>11. CASE RollbackRestart
  BY <1>0, <1>11 DEF RollbackRestart
<1>12. CASE Collect
  BY <1>0, <1>12 DEF Collect, Idle
<1>13. CASE ServiceExits
  BY <1>0, <1>13 DEF ServiceExits
<1>14. CASE SystemdRestarts
  BY <1>0, <1>14 DEF SystemdRestarts
<1>15. CASE Crash
  BY <1>0, <1>15 DEF Crash, Idle
<1>16. CASE FaultElsewhere
  BY <1>16 DEF FaultElsewhere
<1>17. CASE UNCHANGED uvars
  BY <1>17 DEF uvars
<1> QED
  BY <1>1, <1>2, <1>3, <1>4, <1>5, <1>6, <1>7, <1>8, <1>9, <1>10, <1>11,
     <1>12, <1>13, <1>14, <1>15, <1>16, <1>17 DEF Next, Step

-----------------------------------------------------------------------------
(***************************************************************************)
(* The theorems.                                                           *)
(***************************************************************************)

\* The invariant holds initially.
LEMMA InitInv == Init => UpdaterInv
<1> SUFFICES ASSUME Init PROVE UpdaterInv
  OBVIOUS
<1> USE DeviceAssumption
<1>1. TypeOK
  <2>1. Idle \in Call
    BY DEF Idle, Call, Artifact, Content
  <2>2. Stopped(FALSE) \in Process
    BY DEF Stopped, Process, Content
  <2>3. file \in [Artifact -> Content] /\ prev \in [Artifact -> Content]
    BY DEF Init, Artifact, Content
  <2>4. faults \in 0..MaxFaults /\ crashes \in 0..MaxCrashes
    BY DEF Init
  <2>5. svc \in Process /\ op \in Call
    BY <2>1, <2>2 DEF Init
  <2> QED
    BY <2>3, <2>4, <2>5 DEF TypeOK
<1>2. BackupInv /\ ServiceInv /\ FailedCallRestores /\ FreshInv
  BY DEF Init, Idle, Stopped, BackupInv, ServiceInv, FailedCallRestores, FreshInv, At
<1>3. WorkingInv
  BY DEF Init, Idle, WorkingInv, Pair, Artifact, Steps
<1> QED
  BY <1>1, <1>2, <1>3 DEF UpdaterInv

\* Every step preserves it.
LEMMA StepInv == UpdaterInv /\ [Next]_uvars => UpdaterInv'
  BY TypeStep, BackupStep, ServiceStep, RestoreStep, WorkingStep, FreshStep DEF UpdaterInv

\* The inductive invariant holds in every reachable state.
THEOREM UpdaterInvariant == Spec => []UpdaterInv
  BY InitInv, StepInv, PTL DEF Spec

\* The invariant implies the properties the runs check.
LEMMA InvImplies ==
  UpdaterInv => /\ TypeOK /\ OldContentKept /\ FailedCallRestores
                /\ DisplayPreserved /\ RunsWhatIsInstalled
<1> SUFFICES ASSUME UpdaterInv
             PROVE  TypeOK /\ OldContentKept /\ FailedCallRestores /\ DisplayPreserved /\ RunsWhatIsInstalled
  OBVIOUS
<1>1. OldContentKept
  BY DEF UpdaterInv, BackupInv, OldContentKept, Steps
<1>2. DisplayPreserved
  BY DEF UpdaterInv, WorkingInv, DisplayPreserved
<1>3. RunsWhatIsInstalled
  BY DEF UpdaterInv, FreshInv, RunsWhatIsInstalled
<1> QED
  BY <1>1, <1>2, <1>3 DEF UpdaterInv

\* Type correctness of the updater's state.
THEOREM TypeCorrect == Spec => []TypeOK
  BY UpdaterInvariant, InvImplies, PTL

\* Whatever fails and whenever the caller is killed, the old content of the file
\* being replaced is on the disk in full for as long as the call runs.
THEOREM OldContentIsKept == Spec => []OldContentKept
  BY UpdaterInvariant, InvImplies, PTL

\* A failed call has restored the old content.
THEOREM FailedCallsRestore == Spec => []FailedCallRestores
  BY UpdaterInvariant, InvImplies, PTL

\* Failed updates never leave the device on a pair that does not work.
THEOREM DisplayIsPreserved == Spec => []DisplayPreserved
  BY UpdaterInvariant, InvImplies, PTL

\* Between calls the display runs what is installed.
THEOREM RunsInstalled == Spec => []RunsWhatIsInstalled
  BY UpdaterInvariant, InvImplies, PTL

-----------------------------------------------------------------------------
(***************************************************************************)
(* The agent.                                                              *)
(***************************************************************************)

Busy == Steps \cup {"done"}
Installing == {"download", "downloading", "install", "updating"}

\* Where the loop stands, what call is in progress for it, and what it carries.
PhaseInv ==
  /\ IF pc \in {"updating", "applying"} THEN op.pc \in Busy ELSE op.pc = "idle"
  /\ pc = "updating" => op.art = "bin" /\ op.new = want
  /\ pc = "applying" => op.art = "cfg"
  /\ pc \in Installing => want \in Versions /\ (want \in bad => misread)
  /\ pc \in {"marker", "marking", "markBad", "report"} => want \in Versions
  /\ pc = "install" => staged = want

\* What the marker says of the disk, through an update.
MarkerInv ==
  NoFlaps /\ Clean =>
    /\ pc \in {"marker", "marking"} => file["bin"] = want
    /\ marker # Missing /\ pc = "updating" => op.old = marker
    /\ marker # Missing /\ pc \notin {"updating", "marker", "marking"} => file["bin"] = marker

\* When a version is given up, it has failed to work.
Fails(v) == \E c \in Configs : <<v, c>> \notin Works
BlameInv ==
  NoFlaps /\ Clean /\ Deployed \in Works =>
    /\ \A v \in bad : Fails(v)
    /\ pc = "markBad" => Fails(want)
    /\ pc = "updating" /\ op.pc \in {"rollback", "rollbackCopy", "rollbackRestart"} => Fails(want)
    /\ pc = "updating" /\ op.err => Fails(want)

AgentInv == AgentTypeOK /\ PhaseInv /\ MarkerInv /\ BlameInv

-----------------------------------------------------------------------------
(***************************************************************************)
(* Types, phases, and the refinement of Updater.                           *)
(***************************************************************************)

\* What a step of the updater does to the call in progress.
LEMMA StepOfCall ==
  ASSUME TypeOK, Step
  PROVE  /\ op.pc \in Steps /\ op'.pc \in Busy
         /\ op'.art = op.art /\ op'.old = op.old /\ op'.new = op.new
<1>0. {"find", "backup", "backupCopy", "install", "restart", "verify", "rollback",
       "rollbackCopy", "rollbackRestart"} \subseteq Steps
  BY DEF Steps
<1> USE CallFields, <1>0 DEF At, Busy
<1>1. CASE FindStagedBinary
  BY <1>1 DEF FindStagedBinary
<1>2. CASE BackupBinary
  BY <1>2 DEF BackupBinary
<1>3. CASE BackupCopy
  BY <1>3 DEF BackupCopy
<1>4. CASE InstallFile
  BY <1>4 DEF InstallFile
<1>5. CASE RestartService
  BY <1>5 DEF RestartService
<1>6. CASE WaitForActive
  BY <1>6 DEF WaitForActive
<1>7. CASE Rollback
  BY <1>7 DEF Rollback
<1>8. CASE RollbackCopy
  BY <1>8 DEF RollbackCopy
<1>9. CASE RollbackRestart
  BY <1>9 DEF RollbackRestart
<1> QED
  BY <1>1, <1>2, <1>3, <1>4, <1>5, <1>6, <1>7, <1>8, <1>9 DEF Step

\* A new call, and the idle updater, as fields.
LEMMA NewCall ==
  /\ "idle" \notin Busy /\ Idle.pc = "idle"
  /\ \A v : Run(v) => op'.pc = "find" /\ op'.pc \in Busy /\ op'.art = "bin" /\ op'.new = v
                     /\ op'.old = file["bin"] /\ op'.err = FALSE
  /\ \A c : ApplyConfig(c) => op'.pc \in Busy /\ op'.art = "cfg" /\ op'.err = FALSE
  BY DEF Busy, Steps, Idle, Run, ApplyConfig

\* Every step of the agent is a step of the updater's specification, or none of its.
LEMMA StepRefines ==
  ASSUME AgentTypeOK, PhaseInv, [AgentNext]_vars
  PROVE  [Next]_uvars
<1> USE DEF uvars, Next
<1>1. CASE FetchLatest
  BY <1>1 DEF FetchLatest, FaultElsewhere
<1>2. CASE DownloadStart
  BY <1>2 DEF DownloadStart, FaultElsewhere
<1>3. CASE DownloadEnd
  BY <1>3 DEF DownloadEnd, FaultElsewhere
<1>4. CASE RunUpdate
  BY <1>4 DEF RunUpdate, PhaseInv, AgentAt, Installing
<1>5. CASE UpdateReturns
  BY <1>5 DEF UpdateReturns, FaultElsewhere
<1>6. CASE WriteMarkerStart
  BY <1>6 DEF WriteMarkerStart, FaultElsewhere
<1>7. CASE WriteMarkerEnd
  BY <1>7 DEF WriteMarkerEnd, FaultElsewhere
<1>8. CASE MarkBadVersion
  BY <1>8 DEF MarkBadVersion, FaultElsewhere
<1>9. CASE PostReport
  BY <1>9 DEF PostReport, FaultElsewhere
<1>10. CASE SkipConfig
  BY <1>10 DEF SkipConfig, FaultElsewhere
<1>11. CASE RunApplyConfig
  BY <1>11 DEF RunApplyConfig, AgentTypeOK
<1>12. CASE ApplyReturns
  BY <1>12 DEF ApplyReturns, FaultElsewhere
<1>13. CASE AgentCrash
  BY <1>13 DEF AgentCrash, FaultElsewhere
<1>14. CASE UpdaterStep \/ Service
  BY <1>14 DEF UpdaterStep, Service
<1>15. ASSUME NEW v \in Versions, Publish(v) PROVE [Next]_uvars
  BY <1>15 DEF Publish
<1>16. ASSUME NEW c \in Configs, SetConfig(c) PROVE [Next]_uvars
  BY <1>16 DEF SetConfig
<1>17. CASE UNCHANGED vars
  BY <1>17 DEF vars
<1> QED
  BY <1>1, <1>2, <1>3, <1>4, <1>5, <1>6, <1>7, <1>8, <1>9, <1>10, <1>11, <1>12, <1>13,
     <1>14, <1>15, <1>16, <1>17 DEF AgentNext, CheckBinary, CheckConfig

\* The agent's own variables keep their types, and the call in progress is the one
\* its place in the loop calls for.
LEMMA PhaseStep ==
  ASSUME AgentTypeOK, PhaseInv, [AgentNext]_vars
  PROVE  AgentTypeOK' /\ PhaseInv'
<1>0. TypeOK'
  BY StepRefines, TypeStep DEF AgentTypeOK
<1> USE <1>0, NewCall DEF AgentTypeOK, PhaseInv, AgentAt, Installing, Collect, disk, fetched, server, Events
<1>1. CASE FetchLatest
  <2>1. UNCHANGED <<file, prev, svc, op, crashes, disk, event, server>> /\ pc = "wait"
    BY <1>1 DEF FetchLatest
  <2>2. CASE \E known \in {bad, {}} : misread' = (known # bad) /\ latest \notin known
               /\ latest # Missing /\ pc' = "download" /\ want' = latest
    <3>1. PICK known \in {bad, {}} : misread' = (known # bad) /\ latest \notin known
            /\ latest # Missing /\ pc' = "download" /\ want' = latest
      BY <2>2
    <3>2. misread' \in BOOLEAN
      BY <3>1
    <3>3. want' \in bad' => misread'
      BY <2>1, <3>1
    <3> QED BY <2>1, <3>1, <3>2, <3>3
  <2>3. CASE pc' = "config" /\ want' = want /\ misread' \in BOOLEAN
    BY <2>1, <2>3
  <2> QED BY <1>1, <2>2, <2>3 DEF FetchLatest
<1>2. CASE DownloadStart
  BY <1>2 DEF DownloadStart
<1>3. CASE DownloadEnd
  BY <1>3 DEF DownloadEnd
<1>4. CASE RunUpdate
  BY <1>4 DEF RunUpdate
<1>5. CASE UpdateReturns
  BY <1>5 DEF UpdateReturns
<1>6. CASE WriteMarkerStart
  BY <1>6 DEF WriteMarkerStart
<1>7. CASE WriteMarkerEnd
  BY <1>7 DEF WriteMarkerEnd
<1>8. CASE MarkBadVersion
  BY <1>8 DEF MarkBadVersion
<1>9. CASE PostReport
  BY <1>9 DEF PostReport, Fault
<1>10. CASE SkipConfig
  BY <1>10 DEF SkipConfig
<1>11. CASE RunApplyConfig
  BY <1>11 DEF RunApplyConfig
<1>12. CASE ApplyReturns
  BY <1>12 DEF ApplyReturns
<1>13. CASE AgentCrash
  BY <1>13 DEF AgentCrash, Crash
<1>14. CASE UpdaterStep
  BY <1>14, StepOfCall DEF UpdaterStep, avars, Busy
<1>15. CASE Service
  BY <1>15 DEF Service, avars, ServiceExits, SystemdRestarts
<1>16. ASSUME NEW v \in Versions, Publish(v) PROVE AgentTypeOK' /\ PhaseInv'
  BY <1>16 DEF Publish, uvars
<1>17. ASSUME NEW c \in Configs, SetConfig(c) PROVE AgentTypeOK' /\ PhaseInv'
  BY <1>17 DEF SetConfig, uvars
<1>18. CASE UNCHANGED vars
  BY <1>18 DEF vars, uvars, avars
<1> QED
  BY <1>1, <1>2, <1>3, <1>4, <1>5, <1>6, <1>7, <1>8, <1>9, <1>10, <1>11, <1>12, <1>13,
     <1>14, <1>15, <1>16, <1>17, <1>18 DEF AgentNext, CheckBinary, CheckConfig

\* The phases hold initially.
LEMMA InitPhase == AgentInit => AgentTypeOK /\ PhaseInv
<1> SUFFICES ASSUME AgentInit PROVE AgentTypeOK /\ PhaseInv
  OBVIOUS
<1>1. TypeOK
  BY InitInv DEF AgentInit, UpdaterInv
<1> QED
  BY <1>1, NewCall DEF AgentInit, Init, AgentTypeOK, PhaseInv, Installing, Events

\* The agent uses the updater as it is specified, so every theorem about Updater's
\* Spec holds of the agent.
THEOREM AgentUsesUpdater == AgentSpec => UsesUpdaterAsSpecified
<1>1. AgentSpec => [](AgentTypeOK /\ PhaseInv)
  BY InitPhase, PhaseStep, PTL DEF AgentSpec
<1>2. AgentInit => Init
  BY DEF AgentInit
<1>3. AgentTypeOK /\ PhaseInv /\ [AgentNext]_vars => [Next]_uvars
  BY StepRefines
<1> QED
  BY <1>1, <1>2, <1>3, PTL DEF AgentSpec, Spec, UsesUpdaterAsSpecified

-----------------------------------------------------------------------------
(***************************************************************************)
(* The marker and the bad list.                                            *)
(***************************************************************************)

\* Only the updater's steps on the binary change the binary; an agent step that
\* starts, ends or does without a call changes no file.
LEMMA BinaryChanges ==
  ASSUME AgentTypeOK, Step, op.art = "cfg"
  PROVE  file'["bin"] = file["bin"]
<1>1. CASE FindStagedBinary
  BY <1>1 DEF FindStagedBinary, AgentTypeOK, TypeOK, Artifact
<1>2. CASE BackupBinary
  BY <1>2 DEF BackupBinary, AgentTypeOK, TypeOK, Artifact
<1>3. CASE BackupCopy
  BY <1>3 DEF BackupCopy, AgentTypeOK, TypeOK, Artifact
<1>4. CASE InstallFile
  BY <1>4 DEF InstallFile, AgentTypeOK, TypeOK, Artifact
<1>5. CASE RestartService
  BY <1>5 DEF RestartService, AgentTypeOK, TypeOK, Artifact
<1>6. CASE WaitForActive
  BY <1>6 DEF WaitForActive, AgentTypeOK, TypeOK, Artifact
<1>7. CASE Rollback
  BY <1>7 DEF Rollback, AgentTypeOK, TypeOK, Artifact
<1>8. CASE RollbackCopy
  BY <1>8 DEF RollbackCopy, AgentTypeOK, TypeOK, Artifact
<1>9. CASE RollbackRestart
  BY <1>9 DEF RollbackRestart, AgentTypeOK, TypeOK, Artifact
<1> QED
  BY <1>1, <1>2, <1>3, <1>4, <1>5, <1>6, <1>7, <1>8, <1>9 DEF Step

\* A clean state follows only clean states.
LEMMA CleanBefore ==
  ASSUME AgentTypeOK, Clean'
  PROVE  ~Crash /\ (Step => Clean)
<1> USE FaultDirties DEF AgentTypeOK, Clean
<1>1. ASSUME Crash PROVE FALSE
  BY <1>1, DeviceAssumption DEF Crash, TypeOK
<1>2. ASSUME Step PROVE (faults' = faults \/ Fault) /\ crashes' = crashes
  BY <1>2 DEF Step, FindStagedBinary, BackupBinary, BackupCopy, InstallFile, RestartService,
     WaitForActive, Rollback, RollbackCopy, RollbackRestart
<1> QED
  BY <1>1, <1>2

\* Nor is it forgotten that a pair has flapped.
LEMMA FlapsBefore ==
  ASSUME TypeOK, Step \/ ServiceExits \/ SystemdRestarts, NoFlaps'
  PROVE  NoFlaps
<1> USE StartFields DEF NoFlaps
<1>1. CASE InstallFile
  BY <1>1 DEF InstallFile, TypeOK, Process
<1>2. CASE ServiceExits \/ SystemdRestarts \/ RestartService \/ RollbackRestart
  BY <1>2 DEF ServiceExits, SystemdRestarts, RestartService, RollbackRestart
<1>3. CASE FindStagedBinary \/ BackupBinary \/ BackupCopy \/ WaitForActive \/ Rollback \/ RollbackCopy
  BY <1>3 DEF FindStagedBinary, BackupBinary, BackupCopy, WaitForActive, Rollback, RollbackCopy
<1> QED
  BY <1>1, <1>2, <1>3 DEF Step

\* The marker names the binary outside an update.
LEMMA MarkerStep ==
  ASSUME AgentTypeOK, PhaseInv, UpdaterInv, MarkerInv, [AgentNext]_vars
  PROVE  MarkerInv'
<1> USE NewCall, FaultDirties DEF AgentTypeOK, PhaseInv, AgentAt, MarkerInv, NoFlaps, Clean, disk, fetched, server
<1>1. CASE FetchLatest
  BY <1>1 DEF FetchLatest
<1>2. CASE DownloadStart
  BY <1>2 DEF DownloadStart
<1>3. CASE DownloadEnd
  BY <1>3 DEF DownloadEnd
<1>4. CASE RunUpdate
  BY <1>4 DEF RunUpdate, Run
<1>5. CASE UpdateReturns
  BY <1>5 DEF UpdateReturns, Collect, UpdaterInv, BackupInv, FailedCallRestores, At
<1>6. CASE WriteMarkerStart
  BY <1>6 DEF WriteMarkerStart
<1>7. CASE WriteMarkerEnd
  BY <1>7 DEF WriteMarkerEnd
<1>8. CASE MarkBadVersion
  BY <1>8 DEF MarkBadVersion
<1>9. CASE PostReport
  BY <1>9 DEF PostReport
<1>10. CASE SkipConfig
  BY <1>10 DEF SkipConfig
<1>11. CASE RunApplyConfig
  BY <1>11 DEF RunApplyConfig, ApplyConfig
<1>12. CASE ApplyReturns
  BY <1>12 DEF ApplyReturns, Collect
<1>13. CASE AgentCrash
  BY <1>13, CleanBefore DEF AgentCrash
<1>14. CASE UpdaterStep
  <2>1. CASE pc = "updating"
    BY <1>14, <2>1, StepOfCall, CleanBefore, FlapsBefore DEF UpdaterStep, avars
  <2>2. CASE pc = "applying"
    BY <1>14, <2>2, StepOfCall, BinaryChanges, CleanBefore, FlapsBefore DEF UpdaterStep, avars
  <2>3. CASE pc \notin {"updating", "applying"}
    BY <1>14, <2>3, StepOfCall DEF UpdaterStep, Steps
  <2> QED
    BY <2>1, <2>2, <2>3
<1>15. CASE Service
  BY <1>15, FlapsBefore DEF Service, avars, ServiceExits, SystemdRestarts
<1>16. ASSUME NEW v \in Versions, Publish(v) PROVE MarkerInv'
  BY <1>16 DEF Publish, uvars
<1>17. ASSUME NEW c \in Configs, SetConfig(c) PROVE MarkerInv'
  BY <1>17 DEF SetConfig, uvars
<1>18. CASE UNCHANGED vars
  BY <1>18 DEF vars, uvars, avars
<1> QED
  BY <1>1, <1>2, <1>3, <1>4, <1>5, <1>6, <1>7, <1>8, <1>9, <1>10, <1>11, <1>12, <1>13,
     <1>14, <1>15, <1>16, <1>17, <1>18 DEF AgentNext, CheckBinary, CheckConfig

\* A version is given up only after it failed to work with the installed config.
LEMMA BlameStep ==
  ASSUME AgentTypeOK, PhaseInv, UpdaterInv, BlameInv, [AgentNext]_vars
  PROVE  BlameInv'
<1> USE NewCall, FaultDirties DEF AgentTypeOK, PhaseInv, AgentAt, BlameInv, Fails, NoFlaps, Clean, disk, fetched, server
<1>1. CASE FetchLatest
  BY <1>1 DEF FetchLatest
<1>2. CASE DownloadStart
  BY <1>2 DEF DownloadStart
<1>3. CASE DownloadEnd
  BY <1>3 DEF DownloadEnd
<1>4. CASE RunUpdate
  BY <1>4 DEF RunUpdate, Run
<1>5. CASE UpdateReturns
  BY <1>5 DEF UpdateReturns, Collect
<1>6. CASE WriteMarkerStart
  BY <1>6 DEF WriteMarkerStart
<1>7. CASE WriteMarkerEnd
  BY <1>7 DEF WriteMarkerEnd
<1>8. CASE MarkBadVersion
  BY <1>8 DEF MarkBadVersion
<1>9. CASE PostReport
  BY <1>9 DEF PostReport
<1>10. CASE SkipConfig
  BY <1>10 DEF SkipConfig
<1>11. CASE RunApplyConfig
  BY <1>11 DEF RunApplyConfig, ApplyConfig
<1>12. CASE ApplyReturns
  BY <1>12 DEF ApplyReturns, Collect
<1>13. CASE AgentCrash
  BY <1>13, CleanBefore DEF AgentCrash
<1>14. CASE UpdaterStep
  <2> SUFFICES ASSUME NoFlaps, Clean', Deployed \in Works, pc = "updating",
                      op'.pc \in {"rollback", "rollbackCopy", "rollbackRestart"} \/ op'.err
               PROVE  Fails(want)
    BY <1>14, StepOfCall, CleanBefore, FlapsBefore DEF UpdaterStep, avars
  <2>1. Clean /\ ~Fault
    BY <1>14, CleanBefore DEF UpdaterStep
  <2>2. op.pc \in Steps /\ op.art = "bin" /\ op.new = want /\ want \in Versions
    BY <1>14, StepOfCall DEF UpdaterStep, Installing
  <2>3. CASE op.pc \in {"rollback", "rollbackCopy", "rollbackRestart"} \/ op.err
    BY <2>1, <2>2, <2>3
  <2>4. CASE op.pc \notin {"rollback", "rollbackCopy", "rollbackRestart"} /\ ~op.err
    <3>1. op.pc = "verify" /\ ~svc.up
      BY <1>14, <2>1, <2>2, <2>4, CallFields, DeviceAssumption DEF UpdaterStep, Step, At, Steps,
         FindStagedBinary, BackupBinary, BackupCopy, InstallFile, RestartService, WaitForActive,
         Rollback, RollbackCopy, RollbackRestart
    <3>2. Pair \notin Works /\ Pair = <<want, file["cfg"]>>
      BY <2>1, <2>2, <3>1 DEF UpdaterInv, ServiceInv, BackupInv, At, Pair
    <3>3. file["cfg"] \in Configs
      BY <2>1, <2>2, DeviceAssumption DEF UpdaterInv, WorkingInv, OldPair
    <3> QED
      BY <3>2, <3>3
  <2> QED
    BY <2>3, <2>4
<1>15. CASE Service
  BY <1>15, FlapsBefore DEF Service, avars, ServiceExits, SystemdRestarts
<1>16. ASSUME NEW v \in Versions, Publish(v) PROVE BlameInv'
  BY <1>16 DEF Publish, uvars
<1>17. ASSUME NEW c \in Configs, SetConfig(c) PROVE BlameInv'
  BY <1>17 DEF SetConfig, uvars
<1>18. CASE UNCHANGED vars
  BY <1>18 DEF vars, uvars, avars
<1> QED
  BY <1>1, <1>2, <1>3, <1>4, <1>5, <1>6, <1>7, <1>8, <1>9, <1>10, <1>11, <1>12, <1>13,
     <1>14, <1>15, <1>16, <1>17, <1>18 DEF AgentNext, CheckBinary, CheckConfig

-----------------------------------------------------------------------------
(***************************************************************************)
(* The theorems.                                                           *)
(***************************************************************************)

\* The updater's invariant, carried over by the refinement.
LEMMA AgentKeepsUpdaterInv == AgentSpec => []UpdaterInv
  BY AgentUsesUpdater, UpdaterInvariant, PTL DEF UsesUpdaterAsSpecified

\* The agent's inductive invariant holds in every reachable state.
THEOREM AgentInvariant == AgentSpec => []AgentInv
<1>1. AgentInit => AgentInv
  <2> SUFFICES ASSUME AgentInit PROVE AgentInv
    OBVIOUS
  <2>1. MarkerInv
    BY DEF AgentInit, MarkerInv
  <2>2. BlameInv
    BY DEF AgentInit, BlameInv
  <2> QED
    BY <2>1, <2>2, InitPhase DEF AgentInv
<1>2. AgentInv /\ UpdaterInv /\ [AgentNext]_vars => AgentInv'
  BY PhaseStep, MarkerStep, BlameStep DEF AgentInv
<1> QED
  BY <1>1, <1>2, AgentKeepsUpdaterInv, PTL DEF AgentSpec

\* Type correctness of the agent's state.
THEOREM AgentTypeCorrect == AgentSpec => []AgentTypeOK
<1>1. AgentInv => AgentTypeOK
  BY DEF AgentInv
<1> QED
  BY <1>1, AgentInvariant, PTL

\* The device stays on a pair that works through every release and config the
\* server publishes.
THEOREM AgentPreservesDisplay == AgentSpec => []DisplayPreserved
  BY AgentUsesUpdater, DisplayIsPreserved, PTL DEF UsesUpdaterAsSpecified

\* The marker names the binary on the disk at the start of every cycle.
THEOREM MarkerIsCorrect == AgentSpec => []MarkerIsTrue
<1>1. AgentInv => MarkerIsTrue
  BY DEF AgentInv, MarkerInv, MarkerIsTrue
<1> QED
  BY <1>1, AgentInvariant, PTL

\* No version that works with every config is ever put on the bad list.
THEOREM BlacklistIsJust == AgentSpec => []BlacklistIsEarned
<1>1. AgentInv => BlacklistIsEarned
  BY DEF AgentInv, BlameInv, Fails, BlacklistIsEarned
<1> QED
  BY <1>1, AgentInvariant, PTL

\* An incomplete download never reaches the updater, and a version on the bad list only when
\* the list could not be read.
THEOREM NeverInstallsBad == AgentSpec => OnlyCompleteFreshReleases
<1>1. ASSUME AgentInv, [AgentNext]_vars, At("idle"), op'.pc = "find"
      PROVE  op'.new \in Versions /\ (op'.new \in bad => misread)
  <2>1. CASE RunUpdate
    BY <1>1, <2>1, NewCall DEF AgentInv, PhaseInv, AgentAt, Installing, RunUpdate
  <2>2. CASE ~RunUpdate
    BY <1>1, <2>2, NewCall, StepOfCall DEF AgentInv, AgentTypeOK, AgentNext, CheckBinary, CheckConfig,
       FetchLatest, DownloadStart, DownloadEnd, UpdateReturns, WriteMarkerStart, WriteMarkerEnd,
       MarkBadVersion, PostReport, SkipConfig, RunApplyConfig, ApplyConfig, ApplyReturns, AgentCrash,
       UpdaterStep, Service, ServiceExits, SystemdRestarts, Crash, Collect, Publish, SetConfig, At,
       Busy, vars, uvars
  <2> QED
    BY <2>1, <2>2
<1> QED
  BY <1>1, AgentInvariant, PTL DEF AgentSpec, OnlyCompleteFreshReleases

=============================================================================
