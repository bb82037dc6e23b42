---------------------------- MODULE DeployProofs ----------------------------
(* Proofs about the deployer, for every number of components, of runs of    *)
(* the deployer, and of commands that fail.                                 *)
EXTENDS Deploy, TLAPS

OldCode == [c \in Component |-> "old"]
HasOldBackup == \E b \in DOMAIN backups : backups[b].code = OldCode

\* The steps that rely on the backup of their run.
Relying == {"clean", "copy", "verify", "migrate", "start", "ready",
            "undo", "restore", "extract"}

\* Each run adds one backup at most, and has one before it relies on it.
BackupsInStep ==
    /\ job.mode = "apply" /\ job.step \in {"stop", "backup"} =>
            Len(backups) < spent.jobs /\ job.backup = 0
    /\ job.step = "backup" => job.mode = "apply"
    /\ job.mode = "rollback" \/ job.step \in Relying => job.backup # 0

(* OldVersionKept alone is not inductive: the steps that overwrite code     *)
(* rely on a backup, and a backup made of a mixture does not help.  So as   *)
(* soon as there is a backup, one of them is of the old code.               *)
Inv ==
    /\ TypeOK
    /\ BackupsInStep
    /\ AllOld \/ HasOldBackup
    /\ backups # << >> => HasOldBackup

-----------------------------------------------------------------------------
LEMMA ComponentFacts ==
    /\ Size \in Nat /\ Size >= 1
    /\ \A i \in 1..Size : COMPONENTS[i] \in Component
    /\ Core \in Component
<1>1. COMPONENTS \in Seq(Component) /\ COMPONENTS # << >>
  BY DeployAssumption DEF Component
<1>2. QED
  BY <1>1 DEF Size, Core

\* What the three ways to go on leave of the record of a run.
LEMMA GotoEffect ==
  ASSUME job \in Job, NEW s \in Step
  PROVE  /\ Goto(s) \in Job /\ Goto(s).step = s
         /\ Goto(s).mode = job.mode /\ Goto(s).backup = job.backup
BY DEF Job, Goto

LEMMA VisitEffect ==
  ASSUME job \in Job, NEW s \in Step, NEW i \in 1..Size
  PROVE  /\ Visit(s, i) \in Job /\ Visit(s, i).step = s
         /\ Visit(s, i).mode = job.mode /\ Visit(s, i).backup = job.backup
BY DEF Job, Visit

LEMMA ExitEffect ==
  ASSUME job \in Job, NEW o \in Outcome
  PROVE  /\ Exit(o) \in Job /\ Exit(o).step = "done"
         /\ Exit(o).mode = job.mode /\ Exit(o).backup = job.backup
BY DEF Job, Exit, Step

LEMMA RaiseEffect ==
  ASSUME job \in Job
  PROVE  /\ Raise \in Job /\ Raise.step \in {"halt", "resume", "done"}
         /\ Raise.mode = job.mode /\ Raise.backup = job.backup
<1>1. "halt" \in Step /\ "resume" \in Step /\ "failed" \in Outcome
  BY DEF Step, Outcome
<1>2. QED
  BY <1>1, GotoEffect, ExitEffect DEF Raise

LEMMA FaultEffect ==
  ASSUME TypeOK, Fault
  PROVE  /\ spent' \in [faults : 0..MaxFaults, jobs : 0..MaxJobs]
         /\ spent'.jobs = spent.jobs
<1>1. spent \in [faults : 0..MaxFaults, jobs : 0..MaxJobs]
  BY DEF TypeOK
<1>2. spent.faults < MaxFaults /\ spent' = [spent EXCEPT !.faults = @ + 1]
  BY DEF Fault
<1>3. spent.faults + 1 \in 0..MaxFaults
  BY <1>1, <1>2, DeployAssumption
<1>. QED
  BY <1>1, <1>2, <1>3

-----------------------------------------------------------------------------
\* The steps that touch neither code nor backups keep the invariant when
\* they keep the types and go on to a step that does not rely on more.
Quiet ==
    /\ UNCHANGED <<code, backups, site>>
    /\ db' \in Rev /\ running' \subseteq Component
    /\ spent' \in [faults : 0..MaxFaults, jobs : 0..MaxJobs]
    /\ spent'.jobs = spent.jobs
    /\ job' \in Job /\ job'.mode = job.mode /\ job'.backup = job.backup
    /\ job'.step # "stop"
    /\ job'.step = "backup" => job.step = "stop" /\ job.mode = "apply"
    /\ job'.step \in Relying => job.backup # 0

LEMMA QuietStep ==
  ASSUME Inv, Quiet PROVE Inv'
<1>1. TypeOK'
  BY DEF Inv, TypeOK, Quiet
<1>2. BackupsInStep'
  BY DEF Inv, BackupsInStep, Quiet
<1>3. AllOld' = AllOld /\ HasOldBackup' = HasOldBackup
  BY DEF Quiet, AllOld, HasOldBackup
<1>4. QED
  BY <1>1, <1>2, <1>3 DEF Inv, Quiet

\* The steps that overwrite the code of a component have a backup to rely on.
Overwrite ==
    /\ UNCHANGED <<db, running, backups, site, spent>>
    /\ code' \in [Component -> Code]
    /\ job.step \in Relying
    /\ job' \in Job /\ job'.mode = job.mode /\ job'.backup = job.backup
    /\ job'.step \notin {"stop", "backup"}

LEMMA OverwriteStep ==
  ASSUME Inv, Overwrite PROVE Inv'
<1>1. TypeOK'
  BY DEF Inv, TypeOK, Overwrite
<1>2. job.backup # 0
  BY DEF Inv, BackupsInStep, Overwrite
<1>3. BackupsInStep'
  BY <1>2 DEF Inv, BackupsInStep, Overwrite
<1>4. backups # << >>
  BY <1>2 DEF Inv, TypeOK, Job
<1>5. HasOldBackup' = HasOldBackup
  BY DEF Overwrite, HasOldBackup
<1>6. QED
  BY <1>1, <1>3, <1>4, <1>5 DEF Inv, Overwrite

LEMMA LaunchStep ==
  ASSUME Inv, NEW mode \in {"apply", "rollback"}, NEW managed \in BOOLEAN,
         NEW b \in 0..Len(backups), mode = "rollback" => b # 0,
         mode = "apply" => b = 0,
         Launch(mode, managed, b)
  PROVE  Inv'
<1> USE DeployAssumption DEF Inv
<1>0. Len(backups) \in Nat /\ Len(backups) <= MaxJobs
  BY DEF TypeOK
<1>1. /\ job' \in Job /\ job'.backup = b
      /\ job'.mode = mode /\ job'.step = "stop"
  BY <1>0, ComponentFacts DEF TypeOK, Launch, Job, Step, Outcome
<1>2. /\ spent' \in [faults : 0..MaxFaults, jobs : 0..MaxJobs]
      /\ spent'.jobs = spent.jobs + 1
  <2>1. spent \in [faults : 0..MaxFaults, jobs : 0..MaxJobs]
    BY DEF TypeOK
  <2>2. spent.jobs < MaxJobs /\ spent' = [spent EXCEPT !.jobs = @ + 1]
    BY DEF Launch
  <2>3. spent.jobs + 1 \in 0..MaxJobs
    BY <2>1, <2>2, DeployAssumption
  <2>. HIDE DEF Inv
  <2>. QED
    BY <2>1, <2>2, <2>3
<1>3. TypeOK'
  BY <1>0, <1>1, <1>2 DEF TypeOK, Launch
<1>4. BackupsInStep'
  BY <1>0, <1>1, <1>2 DEF TypeOK, BackupsInStep, Relying, Launch
<1>5. AllOld' = AllOld /\ HasOldBackup' = HasOldBackup /\ backups' = backups
  BY DEF Launch, AllOld, HasOldBackup
<1>6. QED
  BY <1>3, <1>4, <1>5

LEMMA CreateBackupStep ==
  ASSUME Inv, CreateBackup PROVE Inv'
<1> DEFINE B == [code |-> code, rev |-> db, active |-> job.active]
           J == [job EXCEPT !.step = "clean", !.at = 1,
                            !.backup = Len(backups) + 1]
<1>0. job \in Job /\ job.step = "backup" /\ UNCHANGED <<code, db, running, site, spent>>
  BY DEF Inv, TypeOK, CreateBackup
<1>1. CASE backups' = Append(backups, B) /\ job' = J
  <2>1. B \in Backup /\ B.code = code
    BY <1>0 DEF Inv, TypeOK, Backup, Job
  <2> HIDE DEF B
  <2>2. /\ backups' \in Seq(Backup) /\ Len(backups') = Len(backups) + 1
        /\ \A i \in DOMAIN backups : backups'[i] = backups[i]
        /\ backups'[Len(backups')] = B
        /\ DOMAIN backups' = 1..Len(backups')
        /\ DOMAIN backups = 1..Len(backups) /\ Len(backups) \in Nat
    BY <1>1, <2>1 DEF Inv, TypeOK
  <2>3. job.mode = "apply" /\ Len(backups) < spent.jobs
    <3>1. job.mode = "apply"
      BY <1>0 DEF Inv, BackupsInStep
    <3>2. QED
      BY <1>0, <3>1 DEF Inv, BackupsInStep
  <2>4. /\ J \in Job /\ J.step = "clean" /\ J.mode = "apply"
        /\ J.backup = Len(backups) + 1
    <3>1. Len(backups) + 1 \in 0..MaxJobs
      BY <2>2, <2>3, DeployAssumption DEF Inv, TypeOK
    <3>2. "clean" \in Step /\ 1 \in 1..Size
      BY ComponentFacts DEF Step, Tried
    <3>3. QED
      BY <1>0, <2>3, <3>1, <3>2 DEF Job
  <2> HIDE DEF J
  <2>5. TypeOK'
    BY <1>0, <1>1, <2>2, <2>3, <2>4 DEF Inv, TypeOK
  <2>6. BackupsInStep'
    BY <1>1, <2>2, <2>4 DEF BackupsInStep
  <2>7. HasOldBackup'
    <3>1. OldCode' = OldCode
      BY DEF OldCode
    <3>2. CASE AllOld
      <4>1. Len(backups') \in DOMAIN backups'
        BY <2>2
      <4>2. backups'[Len(backups')].code = OldCode
        BY <2>1, <2>2, <3>2 DEF AllOld, OldCode
      <4>3. QED
        BY <3>1, <4>1, <4>2 DEF HasOldBackup
    <3>3. CASE HasOldBackup
      <4>1. PICK i \in DOMAIN backups : backups[i].code = OldCode
        BY <3>3 DEF HasOldBackup
      <4>2. i \in DOMAIN backups' /\ backups'[i].code = OldCode
        BY <2>2, <4>1
      <4>3. QED
        BY <3>1, <4>2 DEF HasOldBackup
    <3>4. QED
      BY <3>2, <3>3 DEF Inv
  <2>8. QED
    BY <2>5, <2>6, <2>7 DEF Inv
<1>2. CASE job' = Raise /\ UNCHANGED backups
  <2>1. Quiet
    BY <1>0, <1>2, RaiseEffect DEF Inv, TypeOK, Quiet, Relying
  <2>2. QED
    BY <2>1, QuietStep
<1>3. QED
  BY <1>1, <1>2 DEF CreateBackup

-----------------------------------------------------------------------------
LEMMA ServicesAreTyped ==
  ASSUME Inv
  PROVE  /\ \A S : running \ S \subseteq Component
         /\ running \cup job.active \subseteq Component
         /\ \A S : running \cup (S \cap job.active) \subseteq Component
BY DEF Inv, TypeOK, Job

LEMMA StartedAreTyped ==
  ASSUME Inv, job.step \in {"start", "restart"}
  PROVE  /\ running \cup ToStart \subseteq Component
         /\ \A S : running \cup (S \cap ToStart) \subseteq Component
<1>1. job \in Job /\ running \subseteq Component /\ backups \in Seq(Backup)
      /\ job.backup <= Len(backups)
  BY DEF Inv, TypeOK
<1>2. ToStart \subseteq Component
  <2>1. CASE ~job.managed
    BY <2>1 DEF ToStart
  <2>2. CASE job.managed /\ job.mode = "apply"
    BY <1>1, <2>2 DEF ToStart, Job
  <2>3. CASE job.managed /\ job.mode # "apply"
    <3>1. job.backup \in 1..Len(backups)
      BY <1>1, <2>3 DEF Inv, BackupsInStep, Job
    <3>2. backups[job.backup] \in Backup
      BY <1>1, <3>1
    <3>3. QED
      BY <2>3, <3>2 DEF ToStart, Backup
  <2>4. QED
    BY <2>1, <2>2, <2>3
<1>3. QED
  BY <1>1, <1>2

\* The backup a run relies on is there.
LEMMA BackupIsThere ==
  ASSUME Inv, job.step \in Relying
  PROVE  backups[job.backup] \in Backup
<1>1. backups \in Seq(Backup) /\ job.backup \in 1..Len(backups)
  BY DEF Inv, TypeOK, Job, BackupsInStep
<1>2. QED
  BY <1>1

LEMMA NextStep == Inv /\ [Next]_vars => Inv'
<1> SUFFICES ASSUME Inv, [Next]_vars PROVE Inv'
  OBVIOUS
<1>t. /\ job \in Job /\ db \in Rev /\ running \subseteq Component
      /\ code \in [Component -> Code]
      /\ spent \in [faults : 0..MaxFaults, jobs : 0..MaxJobs]
      /\ Len(backups) \in Nat /\ DOMAIN backups = 1..Len(backups)
  BY DEF Inv, TypeOK
<1>s. /\ {"backup", "clean", "copy", "verify", "migrate", "start", "ready",
          "stop", "halt", "undo", "restore", "extract", "restart"} \subseteq Step
      /\ {"applied", "rolledBack", "restored", "failed", "crashed"}
            \subseteq Outcome
  BY DEF Step, Tried, Outcome
<1>b. job.mode = "rollback" \/ job.step \in Relying => job.backup # 0
  BY DEF Inv, BackupsInStep
<1>m. job.mode \in {"apply", "rollback"}
  BY <1>t DEF Job
<1>1. CASE Apply
  <2>1. PICK managed \in BOOLEAN : Launch("apply", managed, 0)
    BY <1>1 DEF Apply
  <2>2. QED
    BY <1>t, <2>1, LaunchStep
<1>2. CASE Rollback
  <2>1. PICK managed \in BOOLEAN, b \in DOMAIN backups :
            Launch("rollback", managed, b)
    BY <1>2 DEF Rollback
  <2>2. b \in 0..Len(backups) /\ b # 0
    BY <1>t, <2>1
  <2>3. QED
    BY <2>1, <2>2, LaunchStep
<1>3. CASE StopServices
  <2>1. Quiet
    <3> DEFINE s == IF job.mode = "apply" THEN "backup" ELSE "undo"
    <3>1. CASE running' = running \ job.active /\ job' = Goto(s) /\ UNCHANGED spent
      <4>1. /\ s \in Step /\ s # "stop"
            /\ s \in Relying => job.mode = "rollback"
            /\ s = "backup" => job.mode = "apply"
        BY <1>s, <1>m DEF Relying
      <4> HIDE DEF s
      <4>2. QED
        BY <1>3, <1>t, <1>b, <3>1, <4>1, GotoEffect DEF StopServices, Quiet
    <3>2. CASE Fault /\ job' = Raise /\ \E n \in 1..(Size - 1) :
                  running' = running \ (First(StopOrder, n) \cap job.active)
      <4>1. running' \subseteq Component
        BY <1>t, <3>2
      <4>2. QED
        BY <1>3, <1>t, <3>2, <4>1, FaultEffect, RaiseEffect
        DEF Inv, StopServices, Quiet, Relying
    <3>3. QED
      BY <1>3, <3>1, <3>2 DEF StopServices
  <2>2. QED
    BY <2>1, QuietStep
<1>4. CASE CreateBackup
  BY <1>4, CreateBackupStep
<1>5. CASE CleanCode
  <2>1. Overwrite
    <3> DEFINE s == IF job.step = "clean" THEN "copy" ELSE "extract"
    <3>1. s \in Step /\ s \notin {"stop", "backup"}
      BY <1>s
    <3>2. job' = Goto(s)
      BY <1>5 DEF CleanCode
    <3> HIDE DEF s
    <3>3. code' \in [Component -> Code]
      BY <1>5, <1>t DEF CleanCode, Code
    <3>4. job.step \in Relying
      BY <1>5 DEF CleanCode, Relying
    <3>5. QED
      BY <1>5, <1>t, <3>1, <3>2, <3>3, <3>4, GotoEffect DEF CleanCode, Overwrite
  <2>2. QED
    BY <2>1, OverwriteStep
<1>6. CASE CopySource
  <2>1. Overwrite
    <3>1. code' \in [Component -> Code] /\ job.step \in Relying
      BY <1>6, <1>t DEF CopySource, Code, Relying
    <3>2. job.at # Size => job.at + 1 \in 1..Size
      BY <1>t, ComponentFacts DEF Job
    <3>3. job' = Goto("verify") \/ (job.at # Size /\ job' = Visit("clean", job.at + 1))
      BY <1>6 DEF CopySource
    <3>4. /\ job' \in Job /\ job'.mode = job.mode /\ job'.backup = job.backup
          /\ job'.step \notin {"stop", "backup"}
      BY <1>t, <1>s, <3>2, <3>3, GotoEffect, VisitEffect
    <3>5. QED
      BY <1>6, <3>1, <3>4 DEF CopySource, Overwrite
  <2>2. QED
    BY <2>1, OverwriteStep
<1>7. CASE VerifyRuntimeImports
  <2> DEFINE s == IF job.mode = "apply" THEN "migrate" ELSE "start"
  <2>1. s \in Step /\ s \notin {"stop", "backup"}
    BY <1>s
  <2>2. job' = Raise \/ job' = Goto(s)
    BY <1>7 DEF VerifyRuntimeImports
  <2> HIDE DEF s
  <2>3. job.backup # 0
    BY <1>7, <1>b DEF VerifyRuntimeImports, Relying
  <2>4. Quiet
    BY <1>7, <1>t, <2>1, <2>2, <2>3, RaiseEffect, GotoEffect
    DEF VerifyRuntimeImports, Quiet
  <2>5. QED
    BY <2>4, QuietStep
<1>8. CASE Migrate
  <2>1. job.backup # 0
    BY <1>8, <1>b DEF Migrate, Relying
  <2>2. \/ db' = "new" /\ job' = Goto("start")
        \/ UNCHANGED db /\ job' = Raise
    BY <1>8 DEF Migrate
  <2>3. Quiet
    BY <1>8, <1>t, <1>s, <2>1, <2>2, RaiseEffect, GotoEffect
    DEF Migrate, Quiet, Rev
  <2>4. QED
    BY <2>3, QuietStep
<1>9. CASE StartServices
  <2>1. job.step \in {"start", "restart"} /\ running' \subseteq Component
    BY <1>9, StartedAreTyped DEF StartServices
  <2>2. job.step = "start" => job.backup # 0
    BY <1>b DEF Relying
  <2>3. \/ UNCHANGED spent /\ job.step = "start" /\ job' = Goto("ready")
        \/ UNCHANGED spent /\ \E o \in {"restored", "failed"} : job' = Exit(o)
        \/ Fault /\ job' = Raise
    BY <1>9 DEF StartServices
  <2>4. /\ spent' \in [faults : 0..MaxFaults, jobs : 0..MaxJobs]
        /\ spent'.jobs = spent.jobs
    BY <1>t, <2>3, FaultEffect DEF Inv
  <2>5. /\ job' \in Job /\ job'.mode = job.mode /\ job'.backup = job.backup
        /\ \/ job'.step = "ready" /\ job.step = "start"
           \/ job'.step \in {"halt", "resume", "done"}
    BY <1>t, <1>s, <2>3, RaiseEffect, GotoEffect, ExitEffect
  <2>6. Quiet
    BY <1>9, <1>t, <2>1, <2>2, <2>4, <2>5 DEF StartServices, Quiet, Relying
  <2>7. QED
    BY <2>6, QuietStep
<1>10. CASE Ready
  <2>1. \E o \in {"applied", "rolledBack"} : job' = Exit(o)
    BY <1>10 DEF Ready
  <2>2. Quiet
    BY <1>10, <1>t, <1>s, <2>1, ExitEffect DEF Ready, Quiet, Relying
  <2>3. QED
    BY <2>2, QuietStep
<1>11. CASE Halt
  <2>1. \/ job.backup = 0 /\ job' = Goto("restart")
        \/ job.backup # 0 /\ job' = Goto("undo")
    BY <1>11 DEF Halt
  <2>2. /\ spent' \in [faults : 0..MaxFaults, jobs : 0..MaxJobs]
        /\ spent'.jobs = spent.jobs
    BY <1>11, <1>t, FaultEffect DEF Halt, Inv
  <2>3. running' \subseteq Component
    BY <1>11, <1>t DEF Halt
  <2>4. Quiet
    BY <1>11, <1>t, <1>s, <2>1, <2>2, <2>3, GotoEffect DEF Halt, Quiet, Relying
  <2>5. QED
    BY <2>4, QuietStep
<1>12. CASE DowngradeDatabase
  <2>1. backups[job.backup] \in Backup /\ job.backup # 0
    BY <1>12, <1>b, BackupIsThere DEF DowngradeDatabase, Relying
  <2>2. \/ db' \in {db, backups[job.backup].rev} /\ job' = Visit("restore", 1)
        \/ UNCHANGED db /\ job' = Raise
    BY <1>12 DEF DowngradeDatabase
  <2>3. db' \in Rev
    BY <1>t, <2>1, <2>2 DEF Backup
  <2>4. 1 \in 1..Size
    BY ComponentFacts
  <2>5. /\ job' \in Job /\ job'.mode = job.mode /\ job'.backup = job.backup
        /\ job'.step \in {"restore", "halt", "resume", "done"}
    BY <1>t, <1>s, <2>2, <2>4, VisitEffect, RaiseEffect
  <2>6. Quiet
    BY <1>12, <1>t, <2>1, <2>3, <2>5 DEF DowngradeDatabase, Quiet
  <2>7. QED
    BY <2>6, QuietStep
<1>13. CASE SafeExtract
  <2>1. backups[job.backup] \in Backup /\ job.step \in Relying
    BY <1>13, BackupIsThere DEF SafeExtract, Relying
  <2>2. job.at \in 1..Size /\ COMPONENTS[job.at] \in Component
    BY <1>t, ComponentFacts DEF Job
  <2>3. code' \in [Component -> Code]
    BY <1>13, <1>t, <2>1, <2>2 DEF SafeExtract, Backup
  <2>4. \/ job.at < Size /\ job' = Visit("restore", job.at + 1)
        \/ \E s \in {"restart", "verify"} : job' = Goto(s)
    BY <1>13 DEF SafeExtract
  <2>5. job.at < Size => job.at + 1 \in 1..Size
    BY <2>2, ComponentFacts
  <2>6. /\ job' \in Job /\ job'.mode = job.mode /\ job'.backup = job.backup
        /\ job'.step \notin {"stop", "backup"}
    BY <1>t, <1>s, <2>4, <2>5, VisitEffect, GotoEffect
  <2>7. Overwrite
    BY <1>13, <2>1, <2>3, <2>6 DEF SafeExtract, Overwrite
  <2>8. QED
    BY <2>7, OverwriteStep
<1>14. CASE Resume
  <2>1. running' \subseteq Component /\ job' = Exit("failed")
    BY <1>14, ServicesAreTyped DEF Resume
  <2>2. /\ spent' \in [faults : 0..MaxFaults, jobs : 0..MaxJobs]
        /\ spent'.jobs = spent.jobs
    BY <1>14, <1>t, FaultEffect DEF Resume, Inv
  <2>3. Quiet
    BY <1>14, <1>t, <1>s, <2>1, <2>2, ExitEffect DEF Resume, Quiet, Relying
  <2>4. QED
    BY <2>3, QuietStep
<1>15. CASE CommandFails
  <2>1. Quiet
    BY <1>15, <1>t, FaultEffect, RaiseEffect DEF Inv, CommandFails, Quiet, Relying
  <2>2. QED
    BY <2>1, QuietStep
<1>16. CASE Crash
  <2>1. Quiet
    BY <1>16, <1>t, <1>s, FaultEffect, ExitEffect DEF Inv, Crash, Quiet, Relying
  <2>2. QED
    BY <2>1, QuietStep
<1>17. CASE UNCHANGED vars
  BY <1>17 DEF vars, Inv, TypeOK, BackupsInStep, AllOld, HasOldBackup
<1>18. QED
  BY <1>1, <1>2, <1>3, <1>4, <1>5, <1>6, <1>7, <1>8, <1>9, <1>10, <1>11,
     <1>12, <1>13, <1>14, <1>15, <1>16, <1>17 DEF Next

LEMMA InitInv == Init => Inv
<1> SUFFICES ASSUME Init PROVE Inv
  OBVIOUS
<1>1. job \in Job /\ job.backup = 0 /\ job.mode = "apply" /\ job.step = "done"
  BY ComponentFacts, DeployAssumption
  DEF Init, Job, Step, Outcome, Code, Rev, Site
<1>2. TypeOK
  BY <1>1, DeployAssumption DEF Init, TypeOK, Code, Rev, Site
<1>3. BackupsInStep
  BY <1>1 DEF BackupsInStep, Relying
<1>4. QED
  BY <1>2, <1>3 DEF Init, Inv, AllOld

-----------------------------------------------------------------------------
\* Every reachable state is well typed, and the deployer restores only from
\* a backup that exists (full_replace.py:336-357).
THEOREM TypeCorrect == Spec => []TypeOK
<1>1. Spec => []Inv
  BY InitInv, NextStep, PTL DEF Spec
<1>2. Inv => TypeOK
  BY DEF Inv
<1>3. QED
  BY <1>1, <1>2, PTL

\* However many components, failures, kills and runs: the code from before
\* the first apply is in place or whole in a backup (full_replace.py:309-333).
THEOREM OldVersionIsKept == Spec => []OldVersionKept
<1>1. Spec => []Inv
  BY InitInv, NextStep, PTL DEF Spec
<1>2. Inv => OldVersionKept
  BY DEF Inv, OldVersionKept, HasOldBackup, OldCode
<1>3. QED
  BY <1>1, <1>2, PTL

-----------------------------------------------------------------------------
(* What a run of the deployer has achieved by each of its steps.            *)

Used == backups[job.backup]

Before(i) == COMPONENTS[i] # COMPONENTS[job.at]

\* The steps of an apply only.
ApplySteps == {"backup", "clean", "copy", "migrate", "halt", "restart"}

\* The backup that an apply has made is of what it found; until it has made
\* one, everything is as it found it.
BackupIsTrue ==
    job.mode = "apply" /\ job.step # "done" =>
        IF job.backup = 0
        THEN code = job.before.code /\ db = job.before.db
        ELSE /\ Used.code = job.before.code /\ Used.rev = job.before.db
             /\ Used.active = job.active

\* The components before the current one are replaced, or brought back.
CodeInStep ==
    /\ job.step = "clean" =>
        \A i \in 1..(job.at - 1) : code[COMPONENTS[i]] = "new"
    /\ job.step = "copy" =>
        \A i \in 1..(job.at - 1) : Before(i) => code[COMPONENTS[i]] = "new"
    /\ job.step = "restore" =>
        \A i \in 1..(job.at - 1) : code[COMPONENTS[i]] = Used.code[COMPONENTS[i]]
    /\ job.step = "extract" =>
        \A i \in 1..(job.at - 1) :
            Before(i) => code[COMPONENTS[i]] = Used.code[COMPONENTS[i]]
    /\ job.mode = "apply" /\ job.step \in {"verify", "migrate", "start", "ready"} =>
        AllNew
    /\ job.mode = "rollback" /\ job.step \in {"verify", "start", "ready"} =>
        code = Used.code
    /\ job.step = "restart" => code = job.before.code

RevisionInStep ==
    /\ job.mode = "apply" /\ job.step \in {"start", "ready"} => db = "new"
    /\ job.mode = "rollback" /\ job.step \in {"verify", "start", "ready"} =>
        RevisionKept(Used.rev)
    /\ job.step \in {"restore", "extract"} => RevisionKept(Used.rev)
    /\ job.step = "restart" => RevisionKept(job.before.db)

(* EndsWhole is about the end of a run; this is what each step adds to it,  *)
(* so that it holds at the end.                                             *)
Whole ==
    /\ job.step \in ApplySteps => job.mode = "apply"
    /\ ~job.managed => job.active = {}
    /\ BackupIsTrue
    /\ CodeInStep
    /\ RevisionInStep
    /\ EndsWhole

\* A run is the same run through all of its steps.
SameRun ==
    /\ job'.mode = job.mode /\ job'.backup = job.backup
    /\ job'.active = job.active /\ job'.managed = job.managed
    /\ job'.before = job.before

LEMMA GotoRuns ==
  ASSUME job \in Job, NEW s \in Step, job' = Goto(s)
  PROVE  SameRun /\ job'.step = s /\ job'.at = job.at /\ job'.outcome = job.outcome
BY DEF Job, Goto, SameRun

LEMMA VisitRuns ==
  ASSUME job \in Job, NEW s \in Step, NEW i \in 1..Size, job' = Visit(s, i)
  PROVE  SameRun /\ job'.step = s /\ job'.at = i
BY DEF Job, Visit, SameRun

LEMMA ExitRuns ==
  ASSUME job \in Job, NEW o \in Outcome, job' = Exit(o)
  PROVE  SameRun /\ job'.step = "done" /\ job'.outcome = o
BY DEF Job, Exit, SameRun

\* A step that fails promises nothing more, and loses nothing.
LEMMA FailingStep ==
  ASSUME Inv, Whole, UNCHANGED <<code, db, backups>>,
         job' = Raise \/ job' = Exit("failed") \/ job' = Exit("crashed")
  PROVE  Whole'
<1>1. {"halt", "resume"} \subseteq Step /\ {"failed", "crashed"} \subseteq Outcome
      /\ job \in Job /\ job.mode \in {"apply", "rollback"}
  BY DEF Inv, TypeOK, Job, Step, Outcome
<1>2. \/ job' = Goto("halt") /\ job.mode = "apply" /\ job.step # "done"
      \/ job' = Goto("resume") /\ job.mode = "rollback"
      \/ job' = Exit("failed") \/ job' = Exit("crashed")
  BY DEF Raise, Tried
<1>3. CASE job' = Goto("halt") /\ job.mode = "apply" /\ job.step # "done"
  BY <1>1, <1>3, GotoRuns
  DEF Whole, SameRun, ApplySteps, BackupIsTrue, CodeInStep, RevisionInStep, EndsWhole, Ended, Used
<1>4. CASE job' = Goto("resume") /\ job.mode = "rollback"
  BY <1>1, <1>4, GotoRuns
  DEF Whole, SameRun, ApplySteps, BackupIsTrue, CodeInStep, RevisionInStep, EndsWhole, Ended, Used
<1>5. CASE job' = Exit("failed") \/ job' = Exit("crashed")
  <2>1. SameRun /\ job'.step = "done" /\ job'.outcome \in {"failed", "crashed"}
    BY <1>1, <1>5, ExitRuns
  <2>2. QED
    BY <2>1
    DEF Whole, SameRun, ApplySteps, BackupIsTrue, CodeInStep, RevisionInStep, EndsWhole, Ended
<1>6. QED
  BY <1>2, <1>3, <1>4, <1>5

LEMMA LaunchWhole ==
  ASSUME Inv, Whole, NEW mode \in {"apply", "rollback"}, NEW managed \in BOOLEAN,
         NEW b \in 0..Len(backups), mode = "apply" => b = 0, Launch(mode, managed, b)
  PROVE  Whole'
<1>1. /\ job'.mode = mode /\ job'.step = "stop" /\ job'.backup = b
      /\ job'.managed = managed /\ job'.active = (IF managed THEN running ELSE {})
      /\ job'.before.code = code /\ job'.before.db = db
      /\ UNCHANGED <<code, db>>
  BY DEF Launch
<1>2. QED
  BY <1>1 DEF Whole, ApplySteps, BackupIsTrue, CodeInStep, RevisionInStep, EndsWhole, Ended

LEMMA CreateBackupWhole ==
  ASSUME Inv, Whole, CreateBackup
  PROVE  Whole'
<1> DEFINE N == [code |-> code, rev |-> db, active |-> job.active]
<1>0. /\ job \in Job /\ job.step = "backup" /\ job.mode = "apply" /\ job.backup = 0
      /\ backups \in Seq(Backup) /\ UNCHANGED <<code, db>>
  BY DEF Inv, TypeOK, BackupsInStep, CreateBackup
<1>1. CASE job' = Raise /\ UNCHANGED backups
  BY <1>0, <1>1, FailingStep
<1>2. CASE /\ backups' = Append(backups, N)
           /\ job' = [job EXCEPT !.step = "clean", !.at = 1, !.backup = Len(backups) + 1]
  <2>1. /\ job'.mode = "apply" /\ job'.step = "clean" /\ job'.at = 1
        /\ job'.backup = Len(backups) + 1 /\ job'.backup # 0
        /\ job'.managed = job.managed /\ job'.active = job.active
        /\ job'.before = job.before
    BY <1>0, <1>2 DEF Job
  <2>2. backups'[Len(backups) + 1] = N
    <3>1. N \in Backup
      BY <1>0 DEF Inv, TypeOK, Job, Backup
    <3> HIDE DEF N
    <3>2. QED
      BY <1>0, <1>2, <3>1
  <2>3. code = job.before.code /\ db = job.before.db
    BY <1>0 DEF Whole, BackupIsTrue
  <2>4. /\ Used'.code = code /\ Used'.rev = db /\ Used'.active = job.active
    BY <2>1, <2>2 DEF Used
  <2>5. BackupIsTrue'
    BY <1>0, <2>1, <2>3, <2>4 DEF BackupIsTrue
  <2>6. QED
    BY <2>1, <2>5 DEF Whole, ApplySteps, CodeInStep, RevisionInStep, EndsWhole, Ended
<1>3. QED
  BY <1>1, <1>2 DEF CreateBackup

\* Overwriting the code of one component leaves that of the others alone.
LEMMA CleanWhole ==
  ASSUME Inv, Whole, CleanCode
  PROVE  Whole'
<1>0. /\ job \in Job /\ job.step \in {"clean", "restore"}
      /\ code \in [Component -> Code] /\ job.at \in 1..Size
      /\ code' = [code EXCEPT ![COMPONENTS[job.at]] = "partial"]
      /\ UNCHANGED <<db, backups, running>> /\ {"copy", "extract"} \subseteq Step
      /\ job.backup # 0
  BY DEF Inv, TypeOK, Job, CleanCode, Step, Tried, BackupsInStep, Relying
<1>1. \A i \in 1..(job.at - 1) :
         /\ COMPONENTS[i] \in Component
         /\ COMPONENTS[i] # COMPONENTS[job.at] => code'[COMPONENTS[i]] = code[COMPONENTS[i]]
  BY <1>0, ComponentFacts
<1>2. CASE job.step = "clean"
  <2>1. SameRun /\ job'.step = "copy" /\ job'.at = job.at
    BY <1>0, <1>2, GotoRuns DEF CleanCode
  <2>2. QED
    BY <1>0, <1>1, <1>2, <2>1
    DEF Whole, SameRun, ApplySteps, BackupIsTrue, CodeInStep, RevisionInStep, EndsWhole, Ended, Used, Before
<1>3. CASE job.step = "restore"
  <2>1. SameRun /\ job'.step = "extract" /\ job'.at = job.at
    BY <1>0, <1>3, GotoRuns DEF CleanCode
  <2>2. QED
    BY <1>0, <1>1, <1>3, <2>1
    DEF Whole, SameRun, ApplySteps, BackupIsTrue, CodeInStep, RevisionInStep, EndsWhole, Ended, Used, Before,
        RevisionKept
<1>4. QED
  BY <1>0, <1>2, <1>3

LEMMA EveryComponent ==
  ASSUME NEW c \in Component
  PROVE  \E i \in 1..Size : COMPONENTS[i] = c
<1>1. COMPONENTS \in Seq(Component)
  BY DeployAssumption DEF Component
<1>2. DOMAIN COMPONENTS = 1..Size
  BY <1>1 DEF Size
<1>3. QED
  BY <1>2 DEF Component, Range

LEMMA CopyWhole ==
  ASSUME Inv, Whole, CopySource
  PROVE  Whole'
<1>0. /\ job \in Job /\ job.step = "copy" /\ job.mode = "apply"
      /\ code \in [Component -> Code] /\ job.at \in 1..Size
      /\ code' = [code EXCEPT ![COMPONENTS[job.at]] = "new"]
      /\ UNCHANGED <<db, backups, running>> /\ {"verify", "clean"} \subseteq Step
      /\ job.backup # 0
  BY DEF Inv, TypeOK, Job, CopySource, Step, Tried, BackupsInStep, Relying, Whole, ApplySteps
<1>1. \A i \in 1..job.at : code'[COMPONENTS[i]] = "new"
  <2> SUFFICES ASSUME NEW i \in 1..job.at PROVE code'[COMPONENTS[i]] = "new"
    OBVIOUS
  <2>1. COMPONENTS[i] \in Component /\ COMPONENTS[job.at] \in Component
    BY <1>0, ComponentFacts
  <2>2. CASE COMPONENTS[i] = COMPONENTS[job.at]
    BY <1>0, <2>1, <2>2
  <2>3. CASE COMPONENTS[i] # COMPONENTS[job.at]
    <3>1. i \in 1..(job.at - 1)
      BY <1>0, <2>3
    <3>2. code[COMPONENTS[i]] = "new"
      BY <1>0, <2>3, <3>1 DEF Whole, CodeInStep, Before
    <3>3. QED
      BY <1>0, <2>1, <2>3, <3>2
  <2>4. QED
    BY <2>2, <2>3
<1>2. CASE job.at = Size
  <2>1. SameRun /\ job'.step = "verify"
    BY <1>0, <1>2, GotoRuns DEF CopySource
  <2>2. AllNew'
    <3>1. \A c \in Component : code'[c] = "new"
      BY <1>1, <1>2, EveryComponent
    <3>2. QED
      BY <1>0, <3>1 DEF AllNew
  <2>3. QED
    BY <1>0, <2>1, <2>2
    DEF Whole, SameRun, ApplySteps, BackupIsTrue, CodeInStep, RevisionInStep, EndsWhole, Ended, Used
<1>3. CASE job.at # Size
  <2>0. job.at + 1 \in 1..Size
    BY <1>0, <1>3, ComponentFacts
  <2>1. SameRun /\ job'.step = "clean" /\ job'.at = job.at + 1
    BY <1>0, <1>3, <2>0, VisitRuns DEF CopySource
  <2>2. \A i \in 1..(job'.at - 1) : code'[COMPONENTS[i]] = "new"
    BY <1>0, <1>1, <2>1
  <2>3. QED
    BY <1>0, <2>1, <2>2
    DEF Whole, SameRun, ApplySteps, BackupIsTrue, CodeInStep, RevisionInStep, EndsWhole, Ended, Used
<1>4. QED
  BY <1>2, <1>3

LEMMA ExtractWhole ==
  ASSUME Inv, Whole, SafeExtract
  PROVE  Whole'
<1>0. /\ job \in Job /\ job.step = "extract"
      /\ code \in [Component -> Code] /\ job.at \in 1..Size
      /\ code' = [code EXCEPT ![COMPONENTS[job.at]] = Used.code[COMPONENTS[job.at]]]
      /\ UNCHANGED <<db, backups, running>> /\ {"verify", "restart", "restore"} \subseteq Step
      /\ job.backup # 0 /\ RevisionKept(Used.rev) /\ job.mode \in {"apply", "rollback"}
  BY DEF Inv, TypeOK, Job, SafeExtract, Step, Tried, BackupsInStep, Relying, Whole, RevisionInStep, Used
<1>u. Used \in Backup
  BY <1>0, BackupIsThere DEF Used, Relying
<1>1. \A i \in 1..job.at : code'[COMPONENTS[i]] = Used.code[COMPONENTS[i]]
  <2> SUFFICES ASSUME NEW i \in 1..job.at
               PROVE  code'[COMPONENTS[i]] = Used.code[COMPONENTS[i]]
    OBVIOUS
  <2>1. COMPONENTS[i] \in Component /\ COMPONENTS[job.at] \in Component
    BY <1>0, ComponentFacts
  <2>2. CASE COMPONENTS[i] = COMPONENTS[job.at]
    BY <1>0, <2>1, <2>2
  <2>3. CASE COMPONENTS[i] # COMPONENTS[job.at]
    <3>1. i \in 1..(job.at - 1)
      BY <1>0, <2>3
    <3>2. code[COMPONENTS[i]] = Used.code[COMPONENTS[i]]
      BY <1>0, <2>3, <3>1 DEF Whole, CodeInStep, Before
    <3>3. QED
      BY <1>0, <2>1, <2>3, <3>2
  <2>4. QED
    BY <2>2, <2>3
<1>2. CASE job.at = Size
  <2>0. job' = Goto(IF job.mode = "apply" THEN "restart" ELSE "verify")
    BY <1>0, <1>2 DEF SafeExtract
  <2>1. SameRun /\ job'.step = (IF job.mode = "apply" THEN "restart" ELSE "verify")
    BY <1>0, <2>0, GotoRuns
  <2>2. code' = Used.code
    <3>1. \A c \in Component : code'[c] = Used.code[c]
      BY <1>1, <1>2, EveryComponent
    <3>2. Used.code \in [Component -> Code] /\ code' \in [Component -> Code]
      BY <1>0, <1>u, ComponentFacts DEF Backup
    <3>3. QED
      BY <3>1, <3>2
  <2>3. CASE job.mode = "apply"
    BY <1>0, <2>1, <2>2, <2>3
    DEF Whole, SameRun, ApplySteps, BackupIsTrue, CodeInStep, RevisionInStep, EndsWhole, Ended, Used,
        RevisionKept
  <2>4. CASE job.mode = "rollback"
    BY <1>0, <2>1, <2>2, <2>4
    DEF Whole, SameRun, ApplySteps, BackupIsTrue, CodeInStep, RevisionInStep, EndsWhole, Ended, Used,
        RevisionKept
  <2>5. QED
    BY <1>0, <2>3, <2>4
<1>3. CASE job.at < Size
  <2>0. job.at + 1 \in 1..Size
    BY <1>0, <1>3, ComponentFacts
  <2>1. SameRun /\ job'.step = "restore" /\ job'.at = job.at + 1
    BY <1>0, <1>3, <2>0, VisitRuns DEF SafeExtract
  <2>2. \A i \in 1..(job'.at - 1) : code'[COMPONENTS[i]] = Used.code[COMPONENTS[i]]
    BY <1>0, <1>1, <2>1
  <2>3. QED
    BY <1>0, <2>1, <2>2
    DEF Whole, SameRun, ApplySteps, BackupIsTrue, CodeInStep, RevisionInStep, EndsWhole, Ended, Used,
        RevisionKept
<1>4. QED
  BY <1>0, <1>2, <1>3, ComponentFacts

LEMMA WholeStep == Inv /\ Whole /\ [Next]_vars => Whole'
<1> SUFFICES ASSUME Inv, Whole, [Next]_vars PROVE Whole'
  OBVIOUS
<1>t. /\ job \in Job /\ job.mode \in {"apply", "rollback"}
      /\ DOMAIN backups = 1..Len(backups) /\ Len(backups) \in Nat
  BY DEF Inv, TypeOK, Job
<1>s. /\ {"backup", "migrate", "start", "ready", "undo", "restore", "restart"} \subseteq Step
      /\ {"applied", "rolledBack", "restored", "failed", "crashed"} \subseteq Outcome
      /\ 1 \in 1..Size
  BY ComponentFacts DEF Step, Tried, Outcome
<1>b. /\ job.mode = "rollback" \/ job.step \in Relying => job.backup # 0
      /\ job.mode = "apply" /\ job.step = "stop" => job.backup = 0
      /\ job.step \in ApplySteps => job.mode = "apply"
  BY DEF Inv, BackupsInStep, Whole
<1>1. CASE Apply
  BY <1>1, <1>t, LaunchWhole DEF Apply
<1>2. CASE Rollback
  <2>1. PICK managed \in BOOLEAN, b \in 0..Len(backups) : Launch("rollback", managed, b)
    BY <1>2, <1>t DEF Rollback
  <2>2. QED
    BY <2>1, LaunchWhole
<1>3. CASE StopServices
  <2>0. job.step = "stop" /\ UNCHANGED <<code, db, backups>>
    BY <1>3 DEF StopServices
  <2>1. CASE job' = Raise
    BY <2>0, <2>1, FailingStep
  <2>2. CASE job' = Goto(IF job.mode = "apply" THEN "backup" ELSE "undo")
    <3>1. SameRun /\ job'.step = (IF job.mode = "apply" THEN "backup" ELSE "undo")
      BY <1>t, <1>s, <2>2, GotoRuns
    <3>2. QED
      BY <1>t, <1>b, <2>0, <3>1
      DEF Whole, SameRun, ApplySteps, BackupIsTrue, CodeInStep, RevisionInStep, EndsWhole, Ended, Used,
        RevisionKept
  <2>3. QED
    BY <1>3, <2>1, <2>2 DEF StopServices
<1>4. CASE CreateBackup
  BY <1>4, CreateBackupWhole
<1>5. CASE CleanCode
  BY <1>5, CleanWhole
<1>6. CASE CopySource
  BY <1>6, CopyWhole
<1>7. CASE VerifyRuntimeImports
  <2>0. job.step = "verify" /\ UNCHANGED <<code, db, backups>>
    BY <1>7 DEF VerifyRuntimeImports
  <2>1. CASE job' = Raise
    BY <2>0, <2>1, FailingStep
  <2>2. CASE job' = Goto(IF job.mode = "apply" THEN "migrate" ELSE "start")
    <3>1. SameRun /\ job'.step = (IF job.mode = "apply" THEN "migrate" ELSE "start")
      BY <1>t, <1>s, <2>2, GotoRuns
    <3>2. QED
      BY <1>t, <1>b, <2>0, <3>1
      DEF Whole, SameRun, ApplySteps, BackupIsTrue, CodeInStep, RevisionInStep, EndsWhole, Ended, Used,
        RevisionKept, AllNew, Relying
  <2>3. QED
    BY <1>7, <2>1, <2>2 DEF VerifyRuntimeImports
<1>8. CASE Migrate
  <2>0. job.step = "migrate" /\ UNCHANGED <<code, backups>> /\ job.mode = "apply" /\ job.backup # 0
    BY <1>8, <1>b DEF Migrate, ApplySteps, Relying
  <2>1. CASE job' = Raise /\ UNCHANGED db
    BY <2>0, <2>1, FailingStep
  <2>2. CASE db' = "new" /\ job' = Goto("start")
    <3>1. SameRun /\ job'.step = "start"
      BY <1>t, <1>s, <2>2, GotoRuns
    <3>2. QED
      BY <2>0, <2>2, <3>1
      DEF Whole, SameRun, ApplySteps, BackupIsTrue, CodeInStep, RevisionInStep, EndsWhole, Ended, Used,
        RevisionKept, AllNew
  <2>3. QED
    BY <1>8, <2>1, <2>2 DEF Migrate
<1>9. CASE StartServices
  <2>0. job.step \in {"start", "restart"} /\ UNCHANGED <<code, db, backups>>
    BY <1>9 DEF StartServices
  <2>1. CASE job' = Raise
    BY <2>0, <2>1, FailingStep
  <2>2. CASE job.step = "start" /\ job' = Goto("ready")
    <3>1. SameRun /\ job'.step = "ready"
      BY <1>t, <1>s, <2>2, GotoRuns
    <3>2. QED
      BY <1>t, <1>b, <2>0, <2>2, <3>1
      DEF Whole, SameRun, ApplySteps, BackupIsTrue, CodeInStep, RevisionInStep, EndsWhole, Ended, Used,
        RevisionKept, AllNew, Relying
  <2>3. CASE job.step = "restart" /\ ~job.managed /\ job' = Exit("failed")
    BY <2>0, <2>3, FailingStep
  <2>4. CASE /\ job.step = "restart" /\ job.managed /\ job' = Exit("restored")
             /\ running' = running \cup ToStart
    <3>1. SameRun /\ job'.step = "done" /\ job'.outcome = "restored"
      BY <1>t, <1>s, <2>4, ExitRuns
    <3>2. job.active \subseteq running'
      BY <1>b, <2>4 DEF ToStart, ApplySteps
    <3>3. QED
      BY <2>0, <2>4, <3>1, <3>2
      DEF Whole, SameRun, ApplySteps, BackupIsTrue, CodeInStep, RevisionInStep, EndsWhole, Ended, Used,
        RevisionKept
  <2>5. QED
    BY <1>9, <2>1, <2>2, <2>3, <2>4 DEF StartServices
<1>10. CASE Ready
  <2>0. /\ job.step = "ready" /\ UNCHANGED <<code, db, running, backups>> /\ ToStart \subseteq running
        /\ job' = Exit(IF job.mode = "apply" THEN "applied" ELSE "rolledBack")
    BY <1>10 DEF Ready
  <2>1. SameRun /\ job'.step = "done"
        /\ job'.outcome = (IF job.mode = "apply" THEN "applied" ELSE "rolledBack")
    BY <1>t, <1>s, <2>0, ExitRuns
  <2>2. CASE job.mode = "apply"
    <3>1. job.active \subseteq running
      BY <2>0, <2>2 DEF ToStart, Whole
    <3>2. QED
      BY <2>0, <2>1, <2>2, <3>1
      DEF Whole, SameRun, ApplySteps, BackupIsTrue, CodeInStep, RevisionInStep, EndsWhole, Ended, Used,
        RevisionKept, AllNew
  <2>3. CASE job.mode = "rollback"
    <3>1. job.managed => Used.active \subseteq running
      BY <2>0, <2>3 DEF ToStart, Used
    <3>2. QED
      BY <2>0, <2>1, <2>3, <3>1
      DEF Whole, SameRun, ApplySteps, BackupIsTrue, CodeInStep, RevisionInStep, EndsWhole, Ended, Used,
        RevisionKept
  <2>4. QED
    BY <1>t, <2>2, <2>3
<1>11. CASE Halt
  <2>0. job.step = "halt" /\ job.mode = "apply" /\ UNCHANGED <<code, db, backups>>
    BY <1>11, <1>b DEF Halt, ApplySteps
  <2>1. SameRun /\ job'.step = (IF job.backup = 0 THEN "restart" ELSE "undo")
    BY <1>11, <1>t, <1>s, GotoRuns DEF Halt
  <2>2. QED
    BY <2>0, <2>1
    DEF Whole, SameRun, ApplySteps, BackupIsTrue, CodeInStep, RevisionInStep, EndsWhole, Ended, Used,
        RevisionKept
<1>12. CASE DowngradeDatabase
  <2>0. job.step = "undo" /\ UNCHANGED <<code, backups>> /\ job.backup # 0
    BY <1>12, <1>b DEF DowngradeDatabase, Relying
  <2>1. CASE job' = Raise /\ UNCHANGED db
    BY <2>0, <2>1, FailingStep
  <2>2. CASE db' = (IF Used.rev = "none" THEN db ELSE Used.rev) /\ job' = Visit("restore", 1)
    <3>1. SameRun /\ job'.step = "restore" /\ job'.at = 1
      BY <1>t, <1>s, <2>2, VisitRuns
    <3>2. QED
      BY <2>0, <2>2, <3>1
      DEF Whole, SameRun, ApplySteps, BackupIsTrue, CodeInStep, RevisionInStep, EndsWhole, Ended, Used,
        RevisionKept
  <2>3. QED
    BY <1>12, <2>1, <2>2 DEF DowngradeDatabase, Used
<1>13. CASE SafeExtract
  BY <1>13, ExtractWhole
<1>14. CASE Resume
  BY <1>14, FailingStep DEF Resume
<1>15. CASE CommandFails
  BY <1>15, FailingStep DEF CommandFails
<1>16. CASE Crash
  BY <1>16, FailingStep DEF Crash
<1>17. CASE UNCHANGED vars
  BY <1>17
  DEF Whole, SameRun, ApplySteps, BackupIsTrue, CodeInStep, RevisionInStep, EndsWhole, Ended, Used,
        RevisionKept, vars, AllNew, Before
<1>18. QED
  BY <1>1, <1>2, <1>3, <1>4, <1>5, <1>6, <1>7, <1>8, <1>9, <1>10, <1>11,
     <1>12, <1>13, <1>14, <1>15, <1>16, <1>17 DEF Next

LEMMA InitWhole == Init => Whole
BY DEF Init, Whole, ApplySteps, BackupIsTrue, CodeInStep, RevisionInStep, EndsWhole, Ended

LEMMA AlwaysWhole == Spec => [](Inv /\ Whole)
<1>1. Init => Inv /\ Whole
  BY InitInv, InitWhole
<1>2. Inv /\ Whole /\ [Next]_vars => Inv' /\ Whole'
  BY NextStep, WholeStep
<1>3. QED
  BY <1>1, <1>2, PTL DEF Spec

\* What the deployer reports at the end of a run is so, however many
\* components there are and whatever was left by the runs before it that
\* failed or were killed (full_replace.py:533, 588, 593).
THEOREM ReportsAreTrue == Spec => []EndsWhole
<1>1. Whole => EndsWhole
  BY DEF Whole
<1>2. QED
  BY <1>1, AlwaysWhole, PTL

\* An apply starts services on the whole new release with its database, or
\* on what it found, never on a mixture (full_replace.py:559-590).
THEOREM StartsAreWhole == Spec => StartsOnWholeCode
<1>1. ASSUME Inv, Whole, [Next]_vars
      PROVE  [job.mode = "apply" /\ job.step \in {"start", "restart"}
                /\ ~ running' \subseteq running =>
                    \/ AllNew /\ db = "new"
                    \/ code = job.before.code /\ RevisionKept(job.before.db)]_vars
  BY <1>1 DEF Whole, CodeInStep, RevisionInStep
<1>2. QED
  BY <1>1, AlwaysWhole, PTL DEF Spec, StartsOnWholeCode
=============================================================================
