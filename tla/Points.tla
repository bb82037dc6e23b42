-------------------------------- MODULE Points --------------------------------
(***************************************************************************)
(* The diagnosis of an equipment by all its points, as a workflow of four  *)
(* tools: the catalogue of points, their data (one read for the equipment, *)
(* then one for each point that it did not bring), their speeds and their  *)
(* diagnoses, each fanned out under a semaphore, by                        *)
(* PhmWorkflowToolHandlers; with the retries of ResilientToolExecutor.     *)
(* A speed is the point from whose waveform it was found.                  *)
(***************************************************************************)
EXTENDS Naturals, FiniteSets

CONSTANTS Point,
          Long, Short,  \* trend_hours and fallback_trend_hours
          MaxReads,     \* max_parallel
          MaxSpeeds,    \* the lesser of max_parallel and feature_max_parallel
          MaxAsks,      \* feature_queue_retry_attempts
          MaxTries,     \* executions of one tool: agent_default_max_retries + 1
          NoSpeed

ASSUME PointsAssumption ==
    /\ Long \in Nat /\ Short \in Nat /\ Short > 0 /\ Short < Long
    /\ MaxReads \in Nat \ {0} /\ MaxSpeeds \in Nat \ {0} /\ MaxSpeeds <= MaxReads
    /\ MaxAsks \in Nat /\ MaxTries \in Nat \ {0}
    /\ NoSpeed \notin Point /\ {"none", "failed"} \cap (Point \cup {NoSpeed}) = {}

VARIABLES
    tool,      \* the step of the workflow that is executed, or how it ended
    tries,     \* its executions so far
    bundle,    \* what get_device_data brought: the trends' hours, the waveforms
    task,      \* what the step's coroutine of each point is doing
    data,      \* the row of each point in the data batch
    speed,     \* the row of each point in the speed batch
    diagnosis, \* the row of each point in the diagnosis batch
    told       \* effective_trend_hours of the data batch

pointVars == <<tool, tries, bundle, task, data, speed, diagnosis, told>>

NoBundle == [hours |-> 0, waves |-> {}]
NoRow == [state |-> "none", hours |-> 0, error |-> "none"]
NoRows(none) == [p \in Point |-> none]
Workless == [p \in Point |-> [pc |-> "none", left |-> 0]]

PointsInit ==
    /\ tool = "data" /\ tries = 1   \* the catalogue is Point
    /\ bundle = NoBundle /\ task = Workless /\ told = 0
    /\ data = NoRows(NoRow) /\ speed = NoRows("none") /\ diagnosis = NoRows("none")

-----------------------------------------------------------------------------
(* _bounded: a coroutine for each item, so many of them at work            *)

FanOut(S, left) == [p \in Point |-> IF p \in S THEN [pc |-> "queued", left |-> left] ELSE Workless[p]]
AtWork == {p \in Point : task[p].pc = "working"}
Gathered == \A p \in Point : task[p].pc = "none"

Work(p, limit) ==
    /\ task[p].pc = "queued" /\ Cardinality(AtWork) < limit
    /\ task' = [task EXCEPT ![p] = [pc |-> "working", left |-> task[p].left]]

Over(p) == task' = [task EXCEPT ![p] = Workless[p]]

-----------------------------------------------------------------------------
(* point_data_batch *)

Ok(hours) == [state |-> "ok", hours |-> hours, error |-> "none"]
Failed(error) == [state |-> "failed", hours |-> 0, error |-> error]

\* A variant that reads points on their own only when there is no bundle.
UncoveredNone(b) == IF b = NoBundle THEN Point ELSE {}

\* The points whose snapshot is not in the bundle.
Uncovered(b) == Point \ b.waves

\* get_device_data keeps the waveforms when it, or its client, falls back to
\* the shorter trends; any waveform may be missing from what it returns.  A
\* point without the identifiers a read takes is not read.
ReadBundle ==
    /\ tool = "data" /\ tool' = "reading"
    /\ bundle' \in {NoBundle} \cup [hours : {Long, Short}, waves : SUBSET Point]
    /\ \E unnamed \in SUBSET Uncovered(bundle') :
         /\ data' = [p \in Point |-> CASE p \in unnamed -> Failed("arguments")
                                       [] p \in bundle'.waves -> Ok(Long)
                                       [] OTHER -> NoRow]
         /\ task' = FanOut(Uncovered(bundle') \ unnamed, 1)
    /\ UNCHANGED <<tries, speed, diagnosis, told>>

\* load: a shorter trend is asked for after a timeout or when the answer was
\* too large; a service that is away is not asked again, nor one whose answer
\* broke off or had no waveform.
Load(p) ==
    /\ tool = "reading" /\ task[p].pc = "working"
    /\ LET hours == IF task[p].left = 1 THEN Long ELSE Short IN
       \/ Over(p) /\ data' = [data EXCEPT ![p] = Ok(hours)]
       \/ /\ task[p].left > 0 /\ UNCHANGED data   \* timeout, large
          /\ task' = [task EXCEPT ![p] = [pc |-> "working", left |-> 0]]
       \/ \E error \in {"away", "other"} \cup IF task[p].left > 0 THEN {} ELSE {"timeout", "large"} :
            Over(p) /\ data' = [data EXCEPT ![p] = Failed(error)]
    /\ UNCHANGED <<tool, tries, bundle, speed, diagnosis, told>>

Items == {p \in Point : data[p].state = "ok"}
Failures == {p \in Point : data[p].state = "failed"}
Least(S) == CHOOSE n \in S : \A m \in S : n <= m

\* A variant: only the windows the rows were asked with.
EffectiveAsked == Least({data[p].hours : p \in Items})

\* The least of the windows the items were asked with and the bundle's.
EffectiveHours ==
    Least({data[p].hours : p \in Items} \cup ({bundle.hours} \ {0}))

NextTool(next, S, left) == tool' = next /\ tries' = 1 /\ task' = FanOut(S, left)

\* A batch starts over, with nothing of what it had; or it has failed.
Retried(retryable) ==
    IF retryable /\ tries < MaxTries
    THEN tries' = tries + 1 /\ tool' = (IF tool = "reading" THEN "data" ELSE tool)
    ELSE UNCHANGED tries /\ tool' = "failed"

EndData ==
    /\ tool = "reading" /\ Gathered
    /\ IF Items # {}
       THEN /\ NextTool("speeds", Items, MaxAsks) /\ told' = EffectiveHours
            /\ UNCHANGED <<bundle, data>>
       ELSE /\ Retried(\E p \in Failures : data[p].error \in {"timeout", "away"})
            /\ data' = NoRows(NoRow) /\ bundle' = NoBundle /\ task' = Workless
            /\ UNCHANGED told
    /\ UNCHANGED <<speed, diagnosis>>

\* asyncio.wait_for cancels the batch and all that it gathers.
DataTimesOut ==
    /\ tool \in {"data", "reading"}
    /\ Retried(TRUE)
    /\ data' = NoRows(NoRow) /\ bundle' = NoBundle /\ task' = Workless
    /\ UNCHANGED <<speed, diagnosis, told>>

-----------------------------------------------------------------------------
(* point_rpm_batch: whatever comes of it, the diagnosis goes on            *)

\* A full queue at the feature service is waited for, within the semaphore.
Extract(p) ==
    /\ tool = "speeds" /\ task[p].pc = "working"
    /\ \/ Over(p) /\ \E what \in {p, NoSpeed} : speed' = [speed EXCEPT ![p] = what]
       \/ Over(p) /\ speed' = [speed EXCEPT ![p] = "failed"]
       \/ /\ task[p].left > 0 /\ UNCHANGED speed
          /\ task' = [task EXCEPT ![p] = [pc |-> "working", left |-> task[p].left - 1]]
    /\ UNCHANGED <<tool, tries, bundle, data, diagnosis, told>>

EndSpeeds ==
    /\ tool = "speeds" /\ Gathered
    /\ NextTool("diagnoses", Items, 0)
    /\ UNCHANGED <<bundle, data, speed, diagnosis, told>>

\* The last try over, the step has failed and has no rows: a soft dependency.
SpeedsTimeOut ==
    /\ tool = "speeds" /\ speed' = NoRows("none")
    /\ IF tries < MaxTries THEN tries' = tries + 1 /\ task' = FanOut(Items, MaxAsks) /\ UNCHANGED tool
       ELSE NextTool("diagnoses", Items, 0)
    /\ UNCHANGED <<bundle, data, diagnosis, told>>

-----------------------------------------------------------------------------
(* point_diagnosis_batch *)

\* The speed handed over with the point's data: that of its own row, if any.
SpeedOf(p) == IF speed[p] \in Point THEN speed[p] ELSE NoSpeed

Diagnose(p) ==
    /\ tool = "diagnoses" /\ task[p].pc = "working" /\ Over(p)
    /\ \E what \in {SpeedOf(p), "failed"} : diagnosis' = [diagnosis EXCEPT ![p] = what]
    /\ UNCHANGED <<tool, tries, bundle, data, speed, told>>

EndDiagnoses ==
    /\ tool = "diagnoses" /\ Gathered
    /\ tool' = IF \E p \in Items : diagnosis[p] # "failed" THEN "reported" ELSE "failed"
    /\ UNCHANGED <<tries, bundle, task, data, speed, diagnosis, told>>

DiagnosesTimeOut ==
    /\ tool = "diagnoses" /\ diagnosis' = NoRows("none")
    /\ Retried(TRUE) /\ task' = (IF tool' = "failed" THEN Workless ELSE FanOut(Items, 0))
    /\ UNCHANGED <<bundle, data, speed, told>>

StartWork(p) ==
    /\ Work(p, IF tool = "speeds" THEN MaxSpeeds ELSE MaxReads)
    /\ UNCHANGED <<tool, tries, bundle, data, speed, diagnosis, told>>

PointsNext ==
    \/ \E p \in Point : StartWork(p) \/ Load(p) \/ Extract(p) \/ Diagnose(p)
    \/ ReadBundle \/ EndData \/ DataTimesOut
    \/ EndSpeeds \/ SpeedsTimeOut \/ EndDiagnoses \/ DiagnosesTimeOut

PointsSpec == PointsInit /\ [][PointsNext]_pointVars

-----------------------------------------------------------------------------
\* The hours of trend there really are behind a point's row.
Covered(p) == IF p \in bundle.waves THEN bundle.hours ELSE data[p].hours

PointsTypeOK ==
    /\ tool \in {"data", "reading", "speeds", "diagnoses", "reported", "failed"}
    /\ tries \in 1 .. MaxTries
    /\ bundle \in [hours : {0, Long, Short}, waves : SUBSET Point]
    /\ Cardinality(AtWork) <= MaxReads /\ (tool = "speeds" => Cardinality(AtWork) <= MaxSpeeds)
    /\ \A p \in Point : /\ data[p].state \in {"none", "ok", "failed"}
                        /\ speed[p] \in Point \cup {NoSpeed, "none", "failed"}
                        /\ diagnosis[p] \in Point \cup {NoSpeed, "none", "failed"}

(***************************************************************************)
(* A diagnosis that is reported leaves no point of the catalogue out: it   *)
(* has a diagnosis, or its failure is told, or that its data could not be  *)
(* read; a diagnosis with a speed was made with the speed found in that    *)
(* point's waveform; and the trends of every point diagnosed cover the     *)
(* hours that are stated (point_data_batch to point_diagnosis_batch).      *)
(***************************************************************************)
PointsReported ==
    tool = "reported" =>
        /\ \A p \in Point : (p \in Items) # (p \in Failures)
        /\ \A p \in Point : diagnosis[p] = "none" <=> p \in Failures
        /\ \A p \in Items : /\ diagnosis[p] \in {p, NoSpeed, "failed"}
                            /\ diagnosis[p] = p => speed[p] = p
                            /\ told <= Covered(p)
=============================================================================
