------------------------------- MODULE Deploy -------------------------------
(* The deployer, upgrade/full_replace.py.  "--apply" stops the services,    *)
(* backs up the code of every component and the revision of the database,   *)
(* replaces the code, migrates the database and starts the services again;  *)
(* when a step fails it goes back by itself: downgrade, restore, restart.   *)
(* "--rollback" goes back to a backup that an earlier apply has written.    *)
(* Each command may fail and the process may be killed anywhere.            *)
(*                                                                          *)
(* A component's code is "old", "new" or "partial", its directory in the    *)
(* middle of clean_code, copy_source or safe_extract.  The virtual          *)
(* environments and .env files are kept, so a new release may turn out not  *)
(* to work with them.  One service stands for the units of a component.     *)
EXTENDS Integers, Sequences, SequencesExt

CONSTANTS
    COMPONENTS,    \* the components, in the order of the source's tuple
    MaxFaults,     \* bound: commands that fail, processes that are killed
    MaxJobs        \* bound: runs of the deployer

ASSUME DeployAssumption ==
    /\ COMPONENTS \in Seq(Range(COMPONENTS)) /\ COMPONENTS # << >>
    /\ MaxFaults \in Nat
    /\ MaxJobs \in Nat

VARIABLES
    code,      \* the code of each component
    db,        \* the revision of the conversation database
    running,   \* the components whose services are active
    backups,   \* the backups that have a rollback.json, oldest first
    job,       \* the run of the deployer, or the last one when it is "done"
    site,      \* what the old release knows and what ails the new one
    spent      \* the bounded counters: faults and jobs

vars == <<code, db, running, backups, job, site, spent>>

Component == Range(COMPONENTS)
Core == COMPONENTS[1]
Size == Len(COMPONENTS)
Code == {"old", "new", "partial"}
Rev == {"none", "old", "new"}
Rank == [none |-> 0, old |-> 1, new |-> 2]

\* The conversation API and its workers stop first and start last.
StopOrder == <<Core>> \o Reverse(Tail(COMPONENTS))
StartOrder == Reverse(StopOrder)
First(order, n) == {order[i] : i \in 1..n}

Backup == [code : [Component -> Code], rev : Rev, active : SUBSET Component]

\* The try block of an apply; that of a rollback is all but the first stop.
Tried == {"backup", "clean", "copy", "verify", "migrate", "start", "ready"}
Step == Tried \cup {"stop", "halt", "undo", "restore", "extract",
                    "restart", "resume", "done"}
Outcome == {"none", "applied", "rolledBack", "restored", "failed", "crashed"}

Job == [mode : {"apply", "rollback"}, step : Step, at : 1..Size,
        backup : 0..MaxJobs, active : SUBSET Component, managed : BOOLEAN,
        before : [code : [Component -> Code], db : Rev], outcome : Outcome]

Site == [head : {"old", "new"}, defect : {"none", "imports", "settings"}]

\* Every variable holds a value of its type; a run adds one backup at most,
\* and no index leaves its sequence.
TypeOK ==
    /\ code \in [Component -> Code]
    /\ db \in Rev
    /\ running \subseteq Component
    /\ backups \in Seq(Backup) /\ Len(backups) <= spent.jobs
    /\ job \in Job /\ job.backup <= Len(backups)
    /\ site \in Site
    /\ spent \in [faults : 0..MaxFaults, jobs : 0..MaxJobs]

-----------------------------------------------------------------------------
Init ==
    /\ code = [c \in Component |-> "old"]
    /\ site \in Site
    /\ db \in {"none", site.head}
    /\ running \in SUBSET Component
    /\ backups = << >>
    /\ job = [mode |-> "apply", step |-> "done", at |-> 1, backup |-> 0,
              active |-> {}, managed |-> TRUE,
              before |-> [code |-> code, db |-> db], outcome |-> "none"]
    /\ spent = [faults |-> 0, jobs |-> 0]

\* Something goes wrong that neither the release nor the deployer causes.
Fault ==
    /\ spent.faults < MaxFaults
    /\ spent' = [spent EXCEPT !.faults = @ + 1]

Goto(s) == [job EXCEPT !.step = s]
Visit(s, i) == [job EXCEPT !.step = s, !.at = i]
Exit(outcome) == [job EXCEPT !.step = "done", !.outcome = outcome]

\* Where an exception at the current step leads.
Raise ==
    IF job.mode = "apply" /\ job.step \in Tried THEN Goto("halt")
    ELSE IF job.mode = "rollback" /\ job.step \notin {"stop", "resume"}
         THEN Goto("resume")
         ELSE Exit("failed")

\* Whether "python -m alembic" works: it needs the component's own code, its
\* settings, and a database revision that this code knows.
AlembicWorks ==
    CASE code[Core] = "new"     -> {site.defect # "settings"}
      [] code[Core] = "old"     -> {Rank[db] <= Rank[site.head]}
      [] code[Core] = "partial" -> BOOLEAN

\* Whether the imports of verify_runtime_imports succeed.
ImportsWork ==
    IF site.defect # "none" /\ \E c \in Component : code[c] = "new"
    THEN {FALSE}
    ELSE IF \E c \in Component : code[c] = "partial" THEN BOOLEAN ELSE {TRUE}

-----------------------------------------------------------------------------
(* The operator starts the deployer when no other one is running.           *)
Launch(mode, managed, b) ==
    /\ job.step = "done"
    /\ spent.jobs < MaxJobs
    /\ job' = [mode |-> mode, step |-> "stop", at |-> 1, backup |-> b,
               active |-> IF managed THEN running ELSE {},
               managed |-> managed,
               before |-> [code |-> code, db |-> db], outcome |-> "none"]
    /\ spent' = [spent EXCEPT !.jobs = @ + 1]
    /\ UNCHANGED <<code, db, running, backups, site>>

Apply == \E managed \in BOOLEAN : Launch("apply", managed, 0)

Rollback ==
    \E managed \in BOOLEAN, b \in DOMAIN backups :
        Launch("rollback", managed, b)

-----------------------------------------------------------------------------
(* The steps.  A command that fails part of the way is an alternative of    *)
(* its step; one that fails before it does anything is CommandFails.        *)
StopServices ==
    /\ job.step = "stop"
    /\ \/ /\ running' = running \ job.active
          /\ job' = Goto(IF job.mode = "apply" THEN "backup" ELSE "undo")
          /\ UNCHANGED spent
       \/ /\ Fault
          /\ \E n \in 1..(Size - 1) :
                running' = running \ (First(StopOrder, n) \cap job.active)
          /\ job' = Raise
    /\ UNCHANGED <<code, db, backups, site>>

\* A variant: every backup is written to the same place.
CreateBackupInPlace ==
    /\ job.step = "backup"
    /\ \E works \in AlembicWorks :
          IF works
          THEN /\ backups' = <<[code |-> code, rev |-> db,
                                active |-> job.active]>>
               /\ job' = [job EXCEPT !.step = "clean", !.at = 1,
                                     !.backup = 1]
          ELSE job' = Raise /\ UNCHANGED backups
    /\ UNCHANGED <<code, db, running, site, spent>>

CreateBackup ==
    /\ job.step = "backup"
    /\ \E works \in AlembicWorks :
          IF works
          THEN /\ backups' = Append(backups, [code |-> code, rev |-> db,
                                              active |-> job.active])
               /\ job' = [job EXCEPT !.step = "clean", !.at = 1,
                                     !.backup = Len(backups) + 1]
          ELSE job' = Raise /\ UNCHANGED backups
    /\ UNCHANGED <<code, db, running, site, spent>>

CleanCode ==
    /\ job.step \in {"clean", "restore"}
    /\ code' = [code EXCEPT ![COMPONENTS[job.at]] = "partial"]
    /\ job' = Goto(IF job.step = "clean" THEN "copy" ELSE "extract")
    /\ UNCHANGED <<db, running, backups, site, spent>>

CopySource ==
    /\ job.step = "copy"
    /\ code' = [code EXCEPT ![COMPONENTS[job.at]] = "new"]
    /\ job' = IF job.at = Size THEN Goto("verify")
                               ELSE Visit("clean", job.at + 1)
    /\ UNCHANGED <<db, running, backups, site, spent>>

\* A variant: the services are started without the migration.
VerifyRuntimeImportsOnly ==
    /\ job.step = "verify"
    /\ \E works \in ImportsWork :
          job' = IF ~works THEN Raise ELSE Goto("start")
    /\ UNCHANGED <<code, db, running, backups, site, spent>>

VerifyRuntimeImports ==
    /\ job.step = "verify"
    /\ \E works \in ImportsWork :
          job' = IF ~works THEN Raise
                 ELSE Goto(IF job.mode = "apply" THEN "migrate" ELSE "start")
    /\ UNCHANGED <<code, db, running, backups, site, spent>>

Migrate ==
    /\ job.step = "migrate"
    /\ \E works \in AlembicWorks :
          IF works THEN db' = "new" /\ job' = Goto("start")
                   ELSE UNCHANGED db /\ job' = Raise
    /\ UNCHANGED <<code, running, backups, site, spent>>

\* What an apply starts, then or after its restore, was active before it; a
\* rollback starts what was active when the backup was made.
ToStart ==
    IF ~job.managed THEN {}
    ELSE IF job.mode = "apply" THEN job.active ELSE backups[job.backup].active

StartServices ==
    /\ job.step \in {"start", "restart"}
    /\ \/ /\ running' = running \cup ToStart
          /\ job' = IF job.step = "start" THEN Goto("ready")
                    ELSE Exit(IF job.managed THEN "restored" ELSE "failed")
          /\ UNCHANGED spent
       \/ /\ Fault
          /\ \E n \in 1..Size :
                running' = running \cup (First(StartOrder, n) \cap ToStart)
          /\ job' = Raise
    /\ UNCHANGED <<code, db, backups, site>>

Ready ==
    /\ job.step = "ready"
    /\ ToStart \subseteq running
    /\ job' = Exit(IF job.mode = "apply" THEN "applied" ELSE "rolledBack")
    /\ UNCHANGED <<code, db, running, backups, site, spent>>

-----------------------------------------------------------------------------
(* Going back: the handler of an apply, and the body of a rollback.         *)
\* The handler stops what runs by now, as far as it can, and goes on.
Halt ==
    /\ job.step = "halt"
    /\ LET active == IF job.managed THEN running ELSE {}
       IN  \/ running' = running \ active /\ UNCHANGED spent
           \/ /\ Fault
              /\ \E n \in 0..(Size - 1) :
                    running' = running \ (First(StopOrder, n) \cap active)
    /\ job' = Goto(IF job.backup = 0 THEN "restart" ELSE "undo")
    /\ UNCHANGED <<code, db, backups, site>>

\* A variant: the code is restored and the database stays as it is.
DowngradeDatabaseNot ==
    /\ job.step = "undo"
    /\ job' = Visit("restore", 1)
    /\ UNCHANGED <<code, db, running, backups, site, spent>>

\* Without a recorded revision nothing is downgraded; alembic cannot
\* downgrade to a revision above the database's.
DowngradeDatabase ==
    /\ job.step = "undo"
    /\ LET revision == backups[job.backup].rev IN
       \E works \in AlembicWorks :
          IF revision = "none" \/ (works /\ Rank[revision] <= Rank[db])
          THEN /\ db' = IF revision = "none" THEN db ELSE revision
               /\ job' = Visit("restore", 1)
          ELSE UNCHANGED db /\ job' = Raise
    /\ UNCHANGED <<code, running, backups, site, spent>>

\* A variant: the loop goes one too far.
SafeExtractLong ==
    /\ job.step = "extract"
    /\ code' = [code EXCEPT ![COMPONENTS[job.at]] =
                                backups[job.backup].code[COMPONENTS[job.at]]]
    /\ job' = IF job.at <= Size THEN Visit("restore", job.at + 1)
              ELSE Goto(IF job.mode = "apply" THEN "restart" ELSE "verify")
    /\ UNCHANGED <<db, running, backups, site, spent>>

SafeExtract ==
    /\ job.step = "extract"
    /\ code' = [code EXCEPT ![COMPONENTS[job.at]] =
                                backups[job.backup].code[COMPONENTS[job.at]]]
    /\ job' = IF job.at < Size THEN Visit("restore", job.at + 1)
              ELSE Goto(IF job.mode = "apply" THEN "restart" ELSE "verify")
    /\ UNCHANGED <<db, running, backups, site, spent>>

\* A rollback that fails starts again what was active when it began.
Resume ==
    /\ job.step = "resume"
    /\ \/ running' = running \cup job.active /\ UNCHANGED spent
       \/ /\ Fault
          /\ \E n \in 0..Size :
                running' = running \cup (First(StartOrder, n) \cap job.active)
    /\ job' = Exit("failed")
    /\ UNCHANGED <<code, db, backups, site>>

CommandFails ==
    /\ job.step \notin {"halt", "resume", "done"}
    /\ Fault
    /\ job' = Raise
    /\ UNCHANGED <<code, db, running, backups, site>>

Crash ==
    /\ job.step # "done"
    /\ Fault
    /\ job' = Exit("crashed")
    /\ UNCHANGED <<code, db, running, backups, site>>

Next ==
    \/ Apply \/ Rollback
    \/ StopServices \/ CreateBackup \/ CleanCode \/ CopySource
    \/ VerifyRuntimeImports \/ Migrate \/ StartServices \/ Ready
    \/ Halt \/ DowngradeDatabase \/ SafeExtract \/ Resume
    \/ CommandFails \/ Crash

Spec == Init /\ [][Next]_vars

-----------------------------------------------------------------------------
(* Properties.                                                              *)
AllOld == code = [c \in Component |-> "old"]
AllNew == code = [c \in Component |-> "new"]

Ended(outcome) == job.step = "done" /\ job.outcome = outcome

\* The database is where it was before the job; without a recorded revision
\* the deployer leaves it where it is.
RevisionKept(revision) == revision \in {"none", db}

\* What the deployer reports at its end is true, whatever earlier runs that
\* failed or were killed have left behind.  An apply that says it is done
\* (full_replace.py:593) has replaced every component, migrated the database
\* and started what was active.  A rollback that says so (533) has brought
\* back the code, the revision and the services of its backup, even when the
\* backup was made of a mixture.  An apply that says it has gone back by
\* itself (588) has left code, revision and services as it found them.
EndsWhole ==
    /\ Ended("applied") => AllNew /\ db = "new" /\ job.active \subseteq running
    /\ Ended("rolledBack") =>
        /\ code = backups[job.backup].code
        /\ RevisionKept(backups[job.backup].rev)
        /\ job.managed => backups[job.backup].active \subseteq running
    /\ Ended("restored") =>
        /\ code = job.before.code
        /\ RevisionKept(job.before.db)
        /\ job.active \subseteq running

\* The code that was there before the first apply is never lost: it is in
\* place, or whole in a backup, through failures, kills, second applies over
\* a mixture and rollbacks.
OldVersionKept ==
    \/ AllOld
    \/ \E b \in DOMAIN backups :
            backups[b].code = [c \in Component |-> "old"]

\* An apply starts services only on the complete new release with the
\* migrated database, or on the code and the revision that it found: never
\* on a mixture of its own making (full_replace.py:559-590).
StartsOnWholeCode ==
    [][job.mode = "apply" /\ job.step \in {"start", "restart"}
            /\ ~ running' \subseteq running =>
        \/ AllNew /\ db = "new"
        \/ code = job.before.code /\ RevisionKept(job.before.db)]_vars

\* "The deployment failed, restoring all the code of before it"
\* (full_replace.py:567): an apply that fails, while no command fails and
\* nothing is killed, leaves the code as it was.
FailureRestores ==
    job.mode = "apply" /\ Ended("failed") /\ spent.faults = 0 =>
        code = job.before.code

=============================================================================
