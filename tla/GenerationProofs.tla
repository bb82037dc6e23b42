-------------------------- MODULE GenerationProofs --------------------------
(***************************************************************************)
(* Theorems about Generation: whatever the tasks, the worker slots, the    *)
(* bounds and the kinds of fault. Each invariant is shown inductive        *)
(* relative to the type invariant: the first four with one step per action *)
(* of Next, the last two, which say how a task's one delivery passes from  *)
(* its outbox row through the stream to a slot, with the actions grouped   *)
(* by what they do to it.                                                  *)
(***************************************************************************)
EXTENDS Generation, TLAPS

\* A fault is counted and its kind recorded.
LEMMA FaultIsTyped ==
  ASSUME NEW kind, Fault(kind), faults \in [count : Nat, kinds : SUBSET FaultKinds]
  PROVE  faults' \in [count : Nat, kinds : SUBSET FaultKinds]
BY GenerationAssumption DEF Fault

(***************************************************************************)
(* The state stays well typed, and a slot that is not idle has a task, so  *)
(* every status[worker[w].task] below is the status of a task.             *)
(***************************************************************************)
THEOREM TypeCorrect == Spec => []TypeOK
<1>1. Init => TypeOK
  <2> SUFFICES ASSUME Init PROVE TypeOK
    OBVIOUS
  <2>1. worker \in [Worker -> [pc : {"idle"}, task : {NoTask},
                              context : [lease : Nat, attempt : Nat]]]
    BY DEF Init, Idle, NoContext, NoLease
  <2>2. choosing \in [Task -> [pc : {"idle"}, lease : Nat]]
    BY DEF Init, NotChoosing, NoLease
  <2>. QED
    BY <2>1, <2>2 DEF Init, TypeOK, At, NoLease, NoContext, Branch, TaskStatus, MessageStatus
<1>2. TypeOK /\ [Next]_vars => TypeOK'
  <2> SUFFICES ASSUME TypeOK, [Next]_vars PROVE TypeOK'
    OBVIOUS
  <2>1. ASSUME NEW t \in Task, SubmitAcquire(t) PROVE TypeOK'
    BY <2>1 DEF TypeOK, SubmitAcquire, redis, database, callers, Ended,
       Active, Waiting, TaskStatus, MessageStatus, NoLease, AcquireLease,
       At
  <2>2. ASSUME NEW t \in Task, Send(t) PROVE TypeOK'
    BY <2>2 DEF TypeOK, Send, redis, database, callers, Ended, Active,
       Waiting, TaskStatus, MessageStatus, NoLease, CreateTask, SetTask,
       At
  <2>3. ASSUME NEW t \in Task, Fork(t) PROVE TypeOK'
    BY <2>3 DEF TypeOK, Fork, redis, database, callers, Ended, Active,
       Waiting, TaskStatus, MessageStatus, NoLease, CreateTask, SetTask,
       BranchOff, Branch, At
  <2>4. ASSUME NEW t \in Task, SubmitRefused(t) PROVE TypeOK'
    BY <2>4 DEF TypeOK, SubmitRefused, redis, database, callers, Ended,
       Active, Waiting, TaskStatus, MessageStatus, NoLease, Freed, At
  <2>5. ASSUME NEW t \in Task, SubmitCrash(t) PROVE TypeOK'
    BY <2>5, FaultIsTyped DEF TypeOK, SubmitCrash, redis, database, callers, Ended,
       Active, Waiting, TaskStatus, MessageStatus, NoLease, At
  <2>6. ASSUME NEW t \in Task, NEW a \in outbox[t], Publish(t, a) PROVE TypeOK'
    BY <2>6 DEF TypeOK, Publish, redis, database, callers, Ended, Active,
       Waiting, TaskStatus, MessageStatus, NoLease, At
  <2>7. ASSUME NEW t \in Task, NEW a \in outbox[t], PublishUnmarked(t, a) PROVE TypeOK'
    BY <2>7, FaultIsTyped DEF TypeOK, PublishUnmarked, redis, database, callers, Ended,
       Active, Waiting, TaskStatus, MessageStatus, NoLease, At
  <2>8. ASSUME NEW t \in Task, NEW a \in outbox[t], GiveUp(t, a) PROVE TypeOK'
    BY <2>8, FaultIsTyped DEF TypeOK, GiveUp, redis, database, callers, Ended, Active,
       Waiting, TaskStatus, MessageStatus, NoLease, At
  <2>9. ASSUME NEW t \in Task, FailGivenUp(t) PROVE TypeOK'
    <3>1. CASE status[t] \in Ended
      BY <2>9, <3>1 DEF TypeOK, FailGivenUp, redis, database, callers, At
    <3>2. CASE status[t] \notin Ended
      <4>1. SetTask(t, "FAILED", "FAILED")
        BY <2>9, <3>2 DEF FailGivenUp
      <4>. QED
        BY <2>9, <4>1 DEF TypeOK, FailGivenUp, SetTask, redis, callers, At, Ended, TaskStatus,
           MessageStatus
    <3>. QED
      BY <3>1, <3>2
  <2>10. ASSUME RelayCrash PROVE TypeOK'
    <3>1. faults' \in [count : Nat, kinds : SUBSET FaultKinds]
      BY <2>10 DEF RelayCrash, TypeOK, FaultKinds
    <3>. QED
      BY <2>10, <3>1 DEF TypeOK, RelayCrash, redis, database, At
  <2>11. ASSUME NEW t \in Task, ClaimUnacked(t) PROVE TypeOK'
    BY <2>11 DEF TypeOK, ClaimUnacked, redis, database, callers, Ended,
       Active, Waiting, TaskStatus, MessageStatus, NoLease, At
  <2>12. ASSUME NEW t \in Task, ClaimWaiting(t) PROVE TypeOK'
    BY <2>12, FaultIsTyped DEF TypeOK, ClaimWaiting, redis, database, callers, Ended,
       Active, Waiting, TaskStatus, MessageStatus, NoLease, At
  <2>13. ASSUME NEW w \in Worker, NEW t \in Task, Take(w, t) PROVE TypeOK'
    BY <2>13 DEF TypeOK, Take, redis, database, callers, Ended, Active,
       Waiting, TaskStatus, MessageStatus, NoLease, At, NoContext
  <2>14. ASSUME NEW w \in Worker, FailExpired(w) PROVE TypeOK'
    BY <2>14 DEF TypeOK, FailExpired, redis, database, callers, Ended,
       Active, Waiting, TaskStatus, MessageStatus, NoLease, At, SetTask,
       Idle, NoContext
  <2>15. ASSUME NEW w \in Worker, LoadStart(w) PROVE TypeOK'
    BY <2>15 DEF TypeOK, LoadStart, redis, database, callers, Ended,
       Active, Waiting, TaskStatus, MessageStatus, NoLease, At, Goto
  <2>16. ASSUME NEW w \in Worker, LoadStopped(w) PROVE TypeOK'
    BY <2>16 DEF TypeOK, LoadStopped, redis, database, callers, Ended,
       Active, Waiting, TaskStatus, MessageStatus, NoLease, At, Goto,
       SetTask
  <2>17. ASSUME NEW w \in Worker, LoadIgnored(w) PROVE TypeOK'
    BY <2>17 DEF TypeOK, LoadIgnored, redis, database, callers, Ended,
       Active, Waiting, TaskStatus, MessageStatus, NoLease, At, Idle,
       NoContext
  <2>18. ASSUME NEW w \in Worker, Begin(w) PROVE TypeOK'
    <3>1. CASE worker[w].task \in cancelled
      <4>1. SetTask(worker[w].task, "STOPPED", "STOPPED") /\ Goto(w, "announcing")
        BY <2>18, <3>1 DEF Begin
      <4>. QED
        BY <2>18, <4>1 DEF TypeOK, Begin, SetTask, Goto, redis, callers, At, Ended, TaskStatus,
           MessageStatus
    <3>2. CASE worker[w].task \notin cancelled
      <4>1. UNCHANGED <<status, message>> /\ Goto(w, "running")
        BY <2>18, <3>2 DEF Begin
      <4>. QED
        BY <2>18, <4>1 DEF TypeOK, Begin, Goto, redis, callers, At
    <3>. QED
      BY <3>1, <3>2
  <2>19. ASSUME NEW w \in Worker, Progress(w) PROVE TypeOK'
    <3>1. CASE SetTask(worker[w].task, "STREAMING", "STREAMING")
      BY <2>19, <3>1 DEF TypeOK, Progress, SetTask, redis, callers, At, Active, TaskStatus,
         MessageStatus
    <3>2. CASE status' = [status EXCEPT ![worker[w].task] = "EXECUTING"] /\ UNCHANGED message
      BY <2>19, <3>2 DEF TypeOK, Progress, redis, callers, At, Active, TaskStatus
    <3>. QED
      BY <2>19, <3>1, <3>2 DEF Progress
  <2>20. ASSUME NEW w \in Worker, FinishAnswered(w) PROVE TypeOK'
    BY <2>20 DEF TypeOK, FinishAnswered, redis, database, callers, Ended,
       Active, Waiting, TaskStatus, MessageStatus, NoLease, At, Goto,
       PersistFinal, SetTask, Branch
  <2>21. ASSUME NEW w \in Worker, FinishStopped(w) PROVE TypeOK'
    BY <2>21 DEF TypeOK, FinishStopped, redis, database, callers, Ended,
       Active, Waiting, TaskStatus, MessageStatus, NoLease, At, Goto,
       PersistFinal, SetTask, Branch
  <2>22. ASSUME NEW w \in Worker, FinishFailed(w) PROVE TypeOK'
    BY <2>22 DEF TypeOK, FinishFailed, redis, database, callers, Ended,
       Active, Waiting, TaskStatus, MessageStatus, NoLease, At, Goto,
       PersistFinal, SetTask, Branch
  <2>23. ASSUME NEW w \in Worker, WaitForSelection(w) PROVE TypeOK'
    BY <2>23 DEF TypeOK, WaitForSelection, redis, database, callers,
       Ended, Active, Waiting, TaskStatus, MessageStatus, NoLease, At,
       Goto, SetTask
  <2>24. ASSUME NEW w \in Worker, WaitForDiagnosis(w) PROVE TypeOK'
    <3>1. CASE status[worker[w].task] \in {"STOP_REQUESTED", "STOPPED"}
      <4>1. /\ SetTask(worker[w].task, "STOPPED", "STOPPED")
            /\ Goto(w, "announcing") /\ UNCHANGED diagnosis
        BY <2>24, <3>1 DEF WaitForDiagnosis
      <4>. QED
        BY <2>24, <4>1 DEF TypeOK, WaitForDiagnosis, SetTask, Goto, redis, callers, At, Ended,
           TaskStatus, MessageStatus
    <3>2. CASE status[worker[w].task] \notin {"STOP_REQUESTED", "STOPPED"}
      <4>1. /\ SetTask(worker[w].task, "COMPLETED", "COMPLETED")
            /\ Goto(w, "confirming")
            /\ diagnosis' = [diagnosis EXCEPT ![worker[w].task] = "PENDING"]
        BY <2>24, <3>2 DEF WaitForDiagnosis
      <4>. QED
        BY <2>24, <4>1 DEF TypeOK, WaitForDiagnosis, SetTask, Goto, redis, callers, At, Ended,
           TaskStatus, MessageStatus
    <3>. QED
      BY <3>1, <3>2
  <2>25. ASSUME NEW w \in Worker, ReleaseEarly(w) PROVE TypeOK'
    BY <2>25 DEF TypeOK, ReleaseEarly, redis, database, callers, Ended,
       Active, Waiting, TaskStatus, MessageStatus, NoLease, At, Goto,
       Freed
  <2>26. ASSUME NEW w \in Worker, Announce(w) PROVE TypeOK'
    BY <2>26 DEF TypeOK, Announce, redis, database, callers, Ended,
       Active, Waiting, TaskStatus, MessageStatus, NoLease, At, Goto
  <2>27. ASSUME NEW w \in Worker, AnnounceError(w) PROVE TypeOK'
    BY <2>27, FaultIsTyped DEF TypeOK, AnnounceError, redis, database, callers, Ended,
       Active, Waiting, TaskStatus, MessageStatus, NoLease, At, Goto
  <2>28. ASSUME NEW w \in Worker, RunError(w) PROVE TypeOK'
    BY <2>28 DEF TypeOK, RunError, redis, database, callers, Ended,
       Active, Waiting, TaskStatus, MessageStatus, NoLease, At, Goto
  <2>29. ASSUME NEW w \in Worker, FailTask(w) PROVE TypeOK'
    BY <2>29 DEF TypeOK, FailTask, redis, database, callers, Ended,
       Active, Waiting, TaskStatus, MessageStatus, NoLease, At, Goto,
       SetTask
  <2>30. ASSUME NEW w \in Worker, ReleaseRun(w) PROVE TypeOK'
    BY <2>30 DEF TypeOK, ReleaseRun, redis, database, callers, Ended,
       Active, Waiting, TaskStatus, MessageStatus, NoLease, At, Freed,
       Idle, NoContext
  <2>31. ASSUME NEW w \in Worker, WorkerCrash(w) PROVE TypeOK'
    BY <2>31, FaultIsTyped DEF TypeOK, WorkerCrash, redis, database, callers, Ended,
       Active, Waiting, TaskStatus, MessageStatus, NoLease, At,
       Idle, NoContext
  <2>32. ASSUME NEW w \in Worker, WorkerShutdown(w) PROVE TypeOK'
    BY <2>32, FaultIsTyped DEF TypeOK, WorkerShutdown, redis, database, callers, Ended,
       Active, Waiting, TaskStatus, MessageStatus, NoLease, At,
       Freed, Idle, NoContext
  <2>33. ASSUME NEW t \in Task, StopWaiting(t) PROVE TypeOK'
    BY <2>33 DEF TypeOK, StopWaiting, redis, database, callers, Ended,
       Active, Waiting, TaskStatus, MessageStatus, NoLease, SetTask, At
  <2>34. ASSUME NEW t \in Task, StopRequest(t) PROVE TypeOK'
    BY <2>34 DEF TypeOK, StopRequest, redis, database, callers, Ended,
       Active, Waiting, TaskStatus, MessageStatus, NoLease, At
  <2>35. ASSUME NEW t \in Task, StopFlag(t) PROVE TypeOK'
    BY <2>35 DEF TypeOK, StopFlag, redis, database, callers, Ended,
       Active, Waiting, TaskStatus, MessageStatus, NoLease, At
  <2>36. ASSUME NEW t \in Task, StopRelease(t) PROVE TypeOK'
    BY <2>36 DEF TypeOK, StopRelease, redis, database, callers, Ended,
       Active, Waiting, TaskStatus, MessageStatus, NoLease, Freed, At
  <2>37. ASSUME NEW t \in Task, StopCrash(t) PROVE TypeOK'
    BY <2>37, FaultIsTyped DEF TypeOK, StopCrash, redis, database, callers, Ended,
       Active, Waiting, TaskStatus, MessageStatus, NoLease, At
  <2>38. ASSUME NEW t \in Task, ChooseAcquire(t) PROVE TypeOK'
    BY <2>38 DEF TypeOK, ChooseAcquire, redis, database, callers, Ended,
       Active, Waiting, TaskStatus, MessageStatus, NoLease, AcquireLease,
       At
  <2>39. ASSUME NEW t \in Task, SelectEntity(t) PROVE TypeOK'
    BY <2>39 DEF TypeOK, SelectEntity, redis, database, callers, Ended,
       Active, Waiting, TaskStatus, MessageStatus, NoLease, ChoicePc,
       Requeue, SetTask, ResumeContext, At
  <2>40. ASSUME NEW t \in Task, SelectAnnounced(t) PROVE TypeOK'
    BY <2>40, FaultIsTyped DEF TypeOK, SelectAnnounced, redis, database, callers, Ended,
       Active, Waiting, TaskStatus, MessageStatus, NoLease, Freed,
       NotChoosing, At
  <2>41. ASSUME NEW t \in Task, SelectDiagnosis(t) PROVE TypeOK'
    BY <2>41 DEF TypeOK, SelectDiagnosis, redis, database, callers, Ended,
       Active, Waiting, TaskStatus, MessageStatus, NoLease, Requeue,
       SetTask, ResumeContext, NotChoosing, At
  <2>42. ASSUME NEW t \in Task, CancelDiagnosis(t) PROVE TypeOK'
    BY <2>42 DEF TypeOK, CancelDiagnosis, redis, database, callers, Ended,
       Active, Waiting, TaskStatus, MessageStatus, NoLease, ChoicePc,
       SetTask, At
  <2>43. ASSUME NEW t \in Task, ChoiceRefused(t) PROVE TypeOK'
    BY <2>43 DEF TypeOK, ChoiceRefused, redis, database, callers, Ended,
       Active, Waiting, TaskStatus, MessageStatus, NoLease, Freed,
       NotChoosing, At
  <2>44. ASSUME NEW t \in Task, ChoiceRolledBack(t) PROVE TypeOK'
    BY <2>44, FaultIsTyped DEF TypeOK, ChoiceRolledBack, redis, database, callers,
       Ended, Active, Waiting, TaskStatus, MessageStatus, NoLease,
       ChoicePc, ResumeContext, At
  <2>45. ASSUME NEW t \in Task, ChoiceCrash(t) PROVE TypeOK'
    BY <2>45, FaultIsTyped DEF TypeOK, ChoiceCrash, redis, database, callers, Ended,
       Active, Waiting, TaskStatus, MessageStatus, NoLease,
       NotChoosing, At
  <2>46. ASSUME NEW t \in Task, ExpireDiagnosis(t) PROVE TypeOK'
    BY <2>46 DEF TypeOK, ExpireDiagnosis, redis, database, callers, Ended,
       Active, Waiting, TaskStatus, MessageStatus, NoLease, At
  <2>47. ASSUME DeleteStart PROVE TypeOK'
    BY <2>47 DEF TypeOK, DeleteStart, redis, database, callers, Ended,
       Active, Waiting, TaskStatus, MessageStatus, NoLease, At
  <2>48. ASSUME DeleteCommit PROVE TypeOK'
    BY <2>48 DEF TypeOK, DeleteCommit, redis, database, callers, Ended,
       Active, Waiting, TaskStatus, MessageStatus, NoLease, At
  <2>49. ASSUME NEW t \in Task, FlagDeleted(t) PROVE TypeOK'
    BY <2>49 DEF TypeOK, FlagDeleted, redis, database, callers, Ended,
       Active, Waiting, TaskStatus, MessageStatus, NoLease, At
  <2>50. ASSUME DeleteCrash PROVE TypeOK'
    BY <2>50, FaultIsTyped DEF TypeOK, DeleteCrash, redis, database, callers, Ended,
       Active, Waiting, TaskStatus, MessageStatus, NoLease, Locked,
       At
  <2>51. ASSUME NEW b \in Branch, ActivateBranch(b) PROVE TypeOK'
    BY <2>51 DEF TypeOK, ActivateBranch, redis, database, callers, Ended,
       Active, Waiting, TaskStatus, MessageStatus, NoLease, Branch, At
  <2>52. ASSUME ExpireLease PROVE TypeOK'
    BY <2>52, FaultIsTyped DEF TypeOK, ExpireLease, redis, database, callers, Ended,
       Active, Waiting, TaskStatus, MessageStatus, NoLease, At
  <2>53. ASSUME NEW t \in Task, ExpireContext(t) PROVE TypeOK'
    BY <2>53, FaultIsTyped DEF TypeOK, ExpireContext, redis, database, callers, Ended,
       Active, Waiting, TaskStatus, MessageStatus, NoLease,
       NoContext, At
  <2>54. CASE UNCHANGED vars
    BY <2>54 DEF TypeOK, At, vars, redis, database, callers
  <2>. QED
    BY <2>1, <2>2, <2>3, <2>4, <2>5, <2>6, <2>7, <2>8, <2>9, <2>10, <2>11,
       <2>12, <2>13, <2>14, <2>15, <2>16, <2>17, <2>18, <2>19, <2>20,
       <2>21, <2>22, <2>23, <2>24, <2>25, <2>26, <2>27, <2>28, <2>29,
       <2>30, <2>31, <2>32, <2>33, <2>34, <2>35, <2>36, <2>37, <2>38,
       <2>39, <2>40, <2>41, <2>42, <2>43, <2>44, <2>45, <2>46, <2>47,
       <2>48, <2>49, <2>50, <2>51, <2>52, <2>53, <2>54 DEF Next,
       Submissions, Relay, Process, Stops, Choices
<1>. QED
  BY <1>1, <1>2, PTL DEF Spec

(***************************************************************************)
(* At most one slot executes a task.  By itself this is not inductive: a   *)
(* second slot starts whenever the status is QUEUED, so the status must be *)
(* known to be one no requeue, from an API call or a choice, starts from   *)
(* as long as the first slot executes.                                     *)
(***************************************************************************)
ExecutingStatus ==
    \A w \in Worker : Executing(w) =>
        status[worker[w].task] \in {"PREPARING", "EXECUTING", "STREAMING", "STOP_REQUESTED",
                                    "STOPPED", "FAILED"}
RunInv == OneRunPerTask /\ ExecutingStatus

\* However often tasks are delivered and whatever fails, no two slots execute one task.
THEOREM RunsAreExclusive == Spec => []OneRunPerTask
<1>1. Init => RunInv
  BY DEF Init, RunInv, OneRunPerTask, ExecutingStatus, Executing, At, Idle
<1>2. TypeOK /\ RunInv /\ [Next]_vars => RunInv'
  <2> SUFFICES ASSUME TypeOK, RunInv, [Next]_vars PROVE RunInv'
    OBVIOUS
  <2>1. ASSUME NEW t \in Task, SubmitAcquire(t) PROVE RunInv'
    BY <2>1 DEF SubmitAcquire, TypeOK, RunInv, OneRunPerTask,
       ExecutingStatus, Executing, At, database
  <2>2. ASSUME NEW t \in Task, Send(t) PROVE RunInv'
    BY <2>2 DEF Send, TypeOK, RunInv, OneRunPerTask, ExecutingStatus,
       Executing, At, CreateTask, SetTask, PendingSelection,
       PendingDiagnosis
  <2>3. ASSUME NEW t \in Task, Fork(t) PROVE RunInv'
    BY <2>3 DEF Fork, TypeOK, RunInv, OneRunPerTask, ExecutingStatus,
       Executing, At, CreateTask, SetTask, BranchOff
  <2>4. ASSUME NEW t \in Task, SubmitRefused(t) PROVE RunInv'
    BY <2>4 DEF SubmitRefused, TypeOK, RunInv, OneRunPerTask,
       ExecutingStatus, Executing, At, database
  <2>5. ASSUME NEW t \in Task, SubmitCrash(t) PROVE RunInv'
    BY <2>5 DEF SubmitCrash, TypeOK, RunInv, OneRunPerTask,
       ExecutingStatus, Executing, At, database
  <2>6. ASSUME NEW t \in Task, NEW a \in outbox[t], Publish(t, a) PROVE RunInv'
    BY <2>6 DEF Publish, TypeOK, RunInv, OneRunPerTask, ExecutingStatus,
       Executing, At
  <2>7. ASSUME NEW t \in Task, NEW a \in outbox[t], PublishUnmarked(t, a) PROVE RunInv'
    BY <2>7 DEF PublishUnmarked, TypeOK, RunInv, OneRunPerTask,
       ExecutingStatus, Executing, At, database
  <2>8. ASSUME NEW t \in Task, NEW a \in outbox[t], GiveUp(t, a) PROVE RunInv'
    BY <2>8 DEF GiveUp, TypeOK, RunInv, OneRunPerTask, ExecutingStatus,
       Executing, At
  <2>9. ASSUME NEW t \in Task, FailGivenUp(t) PROVE RunInv'
    BY <2>9 DEF FailGivenUp, TypeOK, RunInv, OneRunPerTask,
       ExecutingStatus, Executing, At, SetTask, Active, Waiting, Ended
  <2>10. ASSUME RelayCrash PROVE RunInv'
    BY <2>10 DEF RelayCrash, TypeOK, RunInv, OneRunPerTask,
       ExecutingStatus, Executing, At, database
  <2>11. ASSUME NEW t \in Task, ClaimUnacked(t) PROVE RunInv'
    BY <2>11 DEF ClaimUnacked, TypeOK, RunInv, OneRunPerTask,
       ExecutingStatus, Executing, At, database
  <2>12. ASSUME NEW t \in Task, ClaimWaiting(t) PROVE RunInv'
    BY <2>12 DEF ClaimWaiting, TypeOK, RunInv, OneRunPerTask,
       ExecutingStatus, Executing, At, database
  <2>13. ASSUME NEW w \in Worker, NEW t \in Task, Take(w, t) PROVE RunInv'
    BY <2>13 DEF Take, TypeOK, RunInv, OneRunPerTask, ExecutingStatus,
       Executing, At, database
  <2>14. ASSUME NEW w \in Worker, FailExpired(w) PROVE RunInv'
    BY <2>14 DEF FailExpired, TypeOK, RunInv, OneRunPerTask,
       ExecutingStatus, Executing, At, SetTask, Idle
  <2>15. ASSUME NEW w \in Worker, LoadStart(w) PROVE RunInv'
    <3>1. \A x \in Worker : x # w => worker'[x] = worker[x]
      BY <2>15 DEF LoadStart, TypeOK, Goto
    <3>2. worker'[w].task = worker[w].task /\ worker'[w].pc = "started"
      BY <2>15 DEF LoadStart, TypeOK, Goto
    <3>3. \A x \in Worker : Executing(x) => worker[x].task # worker[w].task
      BY <2>15 DEF LoadStart, RunInv, ExecutingStatus
    <3>4. OneRunPerTask'
      BY <3>1, <3>2, <3>3 DEF RunInv, OneRunPerTask, Executing, At
    <3>5. /\ status'[worker[w].task] = "PREPARING"
          /\ \A t \in Task : t # worker[w].task => status'[t] = status[t]
      BY <2>15 DEF LoadStart, TypeOK, At
    <3>6. ASSUME NEW x \in Worker, Executing(x)', x # w
          PROVE  worker'[x].task = worker[x].task /\ status'[worker[x].task] = status[worker[x].task]
                 /\ Executing(x)
      <4>1. Executing(x) /\ worker'[x] = worker[x]
        BY <3>1, <3>6 DEF Executing, At
      <4>2. worker[x].task \in Task /\ worker[x].task # worker[w].task
        BY <4>1, <3>3 DEF TypeOK, Executing, At
      <4>. QED
        BY <4>1, <4>2, <3>5
    <3>7. ExecutingStatus'
      BY <3>2, <3>5, <3>6 DEF RunInv, ExecutingStatus
    <3>. QED
      BY <3>4, <3>7 DEF RunInv
  <2>16. ASSUME NEW w \in Worker, LoadStopped(w) PROVE RunInv'
    BY <2>16 DEF LoadStopped, TypeOK, RunInv, OneRunPerTask,
       ExecutingStatus, Executing, At, SetTask, Goto
  <2>17. ASSUME NEW w \in Worker, LoadIgnored(w) PROVE RunInv'
    BY <2>17 DEF LoadIgnored, TypeOK, RunInv, OneRunPerTask,
       ExecutingStatus, Executing, At, Idle, database
  <2>18. ASSUME NEW w \in Worker, Begin(w) PROVE RunInv'
    <3>. worker[w].task \in Task /\ worker[w].pc = "started"
      BY <2>18 DEF Begin, TypeOK, At
    <3>1. CASE worker[w].task \in cancelled
      <4>1. SetTask(worker[w].task, "STOPPED", "STOPPED") /\ Goto(w, "announcing")
        BY <2>18, <3>1 DEF Begin
      <4>. QED
        BY <2>18, <3>1, <4>1 DEF TypeOK, RunInv, OneRunPerTask,
           ExecutingStatus, Executing, At, SetTask, Goto
    <3>2. CASE worker[w].task \notin cancelled
      <4>1. UNCHANGED <<status, message>> /\ Goto(w, "running")
        BY <2>18, <3>2 DEF Begin
      <4>. QED
        BY <2>18, <3>2, <4>1 DEF TypeOK, RunInv, OneRunPerTask,
           ExecutingStatus, Executing, At, SetTask, Goto
    <3>. QED
      BY <3>1, <3>2
  <2>19. ASSUME NEW w \in Worker, Progress(w) PROVE RunInv'
    <3>1. /\ status'[worker[w].task] \in {"STREAMING", "EXECUTING"}
          /\ \A u \in Task : u # worker[w].task => status'[u] = status[u]
      BY <2>19 DEF Progress, TypeOK, At, SetTask
    <3>2. worker' = worker
      BY <2>19 DEF Progress
    <3>. QED
      BY <3>1, <3>2 DEF TypeOK, RunInv, OneRunPerTask, ExecutingStatus, Executing, At
  <2>20. ASSUME NEW w \in Worker, FinishAnswered(w) PROVE RunInv'
    BY <2>20 DEF FinishAnswered, TypeOK, RunInv, OneRunPerTask,
       ExecutingStatus, Executing, At, Goto, PersistFinal, SetTask
  <2>21. ASSUME NEW w \in Worker, FinishStopped(w) PROVE RunInv'
    BY <2>21 DEF FinishStopped, TypeOK, RunInv, OneRunPerTask,
       ExecutingStatus, Executing, At, Goto, PersistFinal, SetTask
  <2>22. ASSUME NEW w \in Worker, FinishFailed(w) PROVE RunInv'
    BY <2>22 DEF FinishFailed, TypeOK, RunInv, OneRunPerTask,
       ExecutingStatus, Executing, At, Goto, PersistFinal, SetTask
  <2>23. ASSUME NEW w \in Worker, WaitForSelection(w) PROVE RunInv'
    BY <2>23 DEF WaitForSelection, TypeOK, RunInv, OneRunPerTask,
       ExecutingStatus, Executing, At, SetTask, Goto
  <2>24. ASSUME NEW w \in Worker, WaitForDiagnosis(w) PROVE RunInv'
    <3>. worker[w].task \in Task /\ worker[w].pc = "running"
      BY <2>24 DEF WaitForDiagnosis, TypeOK, At
    <3>1. CASE status[worker[w].task] \in {"STOP_REQUESTED", "STOPPED"}
      <4>1. SetTask(worker[w].task, "STOPPED", "STOPPED") /\ Goto(w, "announcing")
        BY <2>24, <3>1 DEF WaitForDiagnosis
      <4>. QED
        BY <2>24, <3>1, <4>1 DEF TypeOK, RunInv, OneRunPerTask,
           ExecutingStatus, Executing, At, SetTask, Goto
    <3>2. CASE status[worker[w].task] \notin {"STOP_REQUESTED", "STOPPED"}
      <4>1. SetTask(worker[w].task, "COMPLETED", "COMPLETED") /\ Goto(w, "confirming")
        BY <2>24, <3>2 DEF WaitForDiagnosis
      <4>. QED
        BY <2>24, <3>2, <4>1 DEF TypeOK, RunInv, OneRunPerTask,
           ExecutingStatus, Executing, At, SetTask, Goto
    <3>. QED
      BY <3>1, <3>2
  <2>25. ASSUME NEW w \in Worker, ReleaseEarly(w) PROVE RunInv'
    BY <2>25 DEF ReleaseEarly, TypeOK, RunInv, OneRunPerTask,
       ExecutingStatus, Executing, At, Goto, database
  <2>26. ASSUME NEW w \in Worker, Announce(w) PROVE RunInv'
    BY <2>26 DEF Announce, TypeOK, RunInv, OneRunPerTask, ExecutingStatus,
       Executing, At, Goto, database
  <2>27. ASSUME NEW w \in Worker, AnnounceError(w) PROVE RunInv'
    BY <2>27 DEF AnnounceError, TypeOK, RunInv, OneRunPerTask,
       ExecutingStatus, Executing, At, Goto, database
  <2>28. ASSUME NEW w \in Worker, RunError(w) PROVE RunInv'
    BY <2>28 DEF RunError, TypeOK, RunInv, OneRunPerTask, ExecutingStatus,
       Executing, At, Goto, database
  <2>29. ASSUME NEW w \in Worker, FailTask(w) PROVE RunInv'
    BY <2>29 DEF FailTask, TypeOK, RunInv, OneRunPerTask, ExecutingStatus,
       Executing, At, SetTask, Goto
  <2>30. ASSUME NEW w \in Worker, ReleaseRun(w) PROVE RunInv'
    BY <2>30 DEF ReleaseRun, TypeOK, RunInv, OneRunPerTask,
       ExecutingStatus, Executing, At, Idle, database
  <2>31. ASSUME NEW w \in Worker, WorkerCrash(w) PROVE RunInv'
    BY <2>31 DEF WorkerCrash, TypeOK, RunInv, OneRunPerTask,
       ExecutingStatus, Executing, At, Idle, database
  <2>32. ASSUME NEW w \in Worker, WorkerShutdown(w) PROVE RunInv'
    BY <2>32 DEF WorkerShutdown, TypeOK, RunInv, OneRunPerTask,
       ExecutingStatus, Executing, At, Idle, database
  <2>33. ASSUME NEW t \in Task, StopWaiting(t) PROVE RunInv'
    BY <2>33 DEF StopWaiting, TypeOK, RunInv, OneRunPerTask,
       ExecutingStatus, Executing, At, SetTask, Active, Waiting, Ended
  <2>34. ASSUME NEW t \in Task, StopRequest(t) PROVE RunInv'
    BY <2>34 DEF StopRequest, TypeOK, RunInv, OneRunPerTask,
       ExecutingStatus, Executing, At, Active, Waiting, Ended
  <2>35. ASSUME NEW t \in Task, StopFlag(t) PROVE RunInv'
    BY <2>35 DEF StopFlag, TypeOK, RunInv, OneRunPerTask, ExecutingStatus,
       Executing, At, database
  <2>36. ASSUME NEW t \in Task, StopRelease(t) PROVE RunInv'
    BY <2>36 DEF StopRelease, TypeOK, RunInv, OneRunPerTask,
       ExecutingStatus, Executing, At, database
  <2>37. ASSUME NEW t \in Task, StopCrash(t) PROVE RunInv'
    BY <2>37 DEF StopCrash, TypeOK, RunInv, OneRunPerTask,
       ExecutingStatus, Executing, At, database
  <2>38. ASSUME NEW t \in Task, ChooseAcquire(t) PROVE RunInv'
    BY <2>38 DEF ChooseAcquire, TypeOK, RunInv, OneRunPerTask,
       ExecutingStatus, Executing, At, PendingSelection, PendingDiagnosis,
       database
  <2>39. ASSUME NEW t \in Task, SelectEntity(t) PROVE RunInv'
    BY <2>39 DEF SelectEntity, TypeOK, RunInv, OneRunPerTask,
       ExecutingStatus, Executing, At, Requeue, SetTask, PendingSelection
  <2>40. ASSUME NEW t \in Task, SelectAnnounced(t) PROVE RunInv'
    BY <2>40 DEF SelectAnnounced, TypeOK, RunInv, OneRunPerTask,
       ExecutingStatus, Executing, At, database
  <2>41. ASSUME NEW t \in Task, SelectDiagnosis(t) PROVE RunInv'
    BY <2>41 DEF SelectDiagnosis, TypeOK, RunInv, OneRunPerTask,
       ExecutingStatus, Executing, At, Requeue, SetTask,
       ChoosableDiagnosis, PendingDiagnosis
  <2>42. ASSUME NEW t \in Task, CancelDiagnosis(t) PROVE RunInv'
    BY <2>42 DEF CancelDiagnosis, TypeOK, RunInv, OneRunPerTask,
       ExecutingStatus, Executing, At, SetTask, ChoosableDiagnosis,
       PendingDiagnosis
  <2>43. ASSUME NEW t \in Task, ChoiceRefused(t) PROVE RunInv'
    BY <2>43 DEF ChoiceRefused, TypeOK, RunInv, OneRunPerTask,
       ExecutingStatus, Executing, At, database
  <2>44. ASSUME NEW t \in Task, ChoiceRolledBack(t) PROVE RunInv'
    BY <2>44 DEF ChoiceRolledBack, TypeOK, RunInv, OneRunPerTask,
       ExecutingStatus, Executing, At, PendingSelection,
       ChoosableDiagnosis, PendingDiagnosis, database
  <2>45. ASSUME NEW t \in Task, ChoiceCrash(t) PROVE RunInv'
    BY <2>45 DEF ChoiceCrash, TypeOK, RunInv, OneRunPerTask,
       ExecutingStatus, Executing, At, database
  <2>46. ASSUME NEW t \in Task, ExpireDiagnosis(t) PROVE RunInv'
    BY <2>46 DEF ExpireDiagnosis, TypeOK, RunInv, OneRunPerTask,
       ExecutingStatus, Executing, At, PendingDiagnosis
  <2>47. ASSUME DeleteStart PROVE RunInv'
    BY <2>47 DEF DeleteStart, TypeOK, RunInv, OneRunPerTask,
       ExecutingStatus, Executing, At, Active, Waiting, Ended
  <2>48. ASSUME DeleteCommit PROVE RunInv'
    BY <2>48 DEF DeleteCommit, TypeOK, RunInv, OneRunPerTask,
       ExecutingStatus, Executing, At, Active, Waiting, Ended
  <2>49. ASSUME NEW t \in Task, FlagDeleted(t) PROVE RunInv'
    BY <2>49 DEF FlagDeleted, TypeOK, RunInv, OneRunPerTask,
       ExecutingStatus, Executing, At, database
  <2>50. ASSUME DeleteCrash PROVE RunInv'
    BY <2>50 DEF DeleteCrash, TypeOK, RunInv, OneRunPerTask,
       ExecutingStatus, Executing, At
  <2>51. ASSUME NEW b \in Branch, ActivateBranch(b) PROVE RunInv'
    BY <2>51 DEF ActivateBranch, TypeOK, RunInv, OneRunPerTask,
       ExecutingStatus, Executing, At
  <2>52. ASSUME ExpireLease PROVE RunInv'
    BY <2>52 DEF ExpireLease, TypeOK, RunInv, OneRunPerTask,
       ExecutingStatus, Executing, At, database
  <2>53. ASSUME NEW t \in Task, ExpireContext(t) PROVE RunInv'
    BY <2>53 DEF ExpireContext, TypeOK, RunInv, OneRunPerTask,
       ExecutingStatus, Executing, At, database
  <2>54. CASE UNCHANGED vars
    BY <2>54 DEF RunInv, OneRunPerTask, ExecutingStatus, Executing, At,
       vars, database
  <2>. QED
    BY <2>1, <2>2, <2>3, <2>4, <2>5, <2>6, <2>7, <2>8, <2>9, <2>10, <2>11,
       <2>12, <2>13, <2>14, <2>15, <2>16, <2>17, <2>18, <2>19, <2>20,
       <2>21, <2>22, <2>23, <2>24, <2>25, <2>26, <2>27, <2>28, <2>29,
       <2>30, <2>31, <2>32, <2>33, <2>34, <2>35, <2>36, <2>37, <2>38,
       <2>39, <2>40, <2>41, <2>42, <2>43, <2>44, <2>45, <2>46, <2>47,
       <2>48, <2>49, <2>50, <2>51, <2>52, <2>53, <2>54 DEF Next,
       Submissions, Relay, Process, Stops, Choices
<1>3. RunInv => OneRunPerTask
  BY DEF RunInv
<1>. QED
  BY <1>1, <1>2, <1>3, TypeCorrect, PTL DEF Spec


\* The assistant message agrees with its task, whatever fails.
THEOREM MessagesAgree == Spec => []MessageAgrees
<1>1. Init => MessageAgrees
  BY DEF Init, MessageAgrees, Ended
<1>2. TypeOK /\ MessageAgrees /\ [Next]_vars => MessageAgrees'
  <2> SUFFICES ASSUME TypeOK, MessageAgrees, [Next]_vars PROVE MessageAgrees'
    OBVIOUS
  <2>1. ASSUME NEW t \in Task, SubmitAcquire(t) PROVE MessageAgrees'
    BY <2>1 DEF SubmitAcquire, TypeOK, MessageAgrees, Ended, database
  <2>2. ASSUME NEW t \in Task, Send(t) PROVE MessageAgrees'
    BY <2>2 DEF Send, TypeOK, MessageAgrees, Ended, CreateTask, SetTask,
       PendingSelection, PendingDiagnosis
  <2>3. ASSUME NEW t \in Task, Fork(t) PROVE MessageAgrees'
    BY <2>3 DEF Fork, TypeOK, MessageAgrees, Ended, CreateTask, SetTask,
       BranchOff
  <2>4. ASSUME NEW t \in Task, SubmitRefused(t) PROVE MessageAgrees'
    BY <2>4 DEF SubmitRefused, TypeOK, MessageAgrees, Ended, database
  <2>5. ASSUME NEW t \in Task, SubmitCrash(t) PROVE MessageAgrees'
    BY <2>5 DEF SubmitCrash, TypeOK, MessageAgrees, Ended, database
  <2>6. ASSUME NEW t \in Task, NEW a \in outbox[t], Publish(t, a) PROVE MessageAgrees'
    BY <2>6 DEF Publish, TypeOK, MessageAgrees, Ended
  <2>7. ASSUME NEW t \in Task, NEW a \in outbox[t], PublishUnmarked(t, a) PROVE MessageAgrees'
    BY <2>7 DEF PublishUnmarked, TypeOK, MessageAgrees, Ended, database
  <2>8. ASSUME NEW t \in Task, NEW a \in outbox[t], GiveUp(t, a) PROVE MessageAgrees'
    BY <2>8 DEF GiveUp, TypeOK, MessageAgrees, Ended
  <2>9. ASSUME NEW t \in Task, FailGivenUp(t) PROVE MessageAgrees'
    <3>1. CASE status[t] \in Ended
      <4>1. UNCHANGED <<status, message>>
        BY <2>9, <3>1 DEF FailGivenUp
      <4>. QED
        BY <2>9, <3>1, <4>1 DEF TypeOK, MessageAgrees, Ended, SetTask,
           At
    <3>2. CASE status[t] \notin Ended
      <4>1. SetTask(t, "FAILED", "FAILED")
        BY <2>9, <3>2 DEF FailGivenUp
      <4>. QED
        BY <2>9, <3>2, <4>1 DEF TypeOK, MessageAgrees, Ended, SetTask,
           At
    <3>. QED
      BY <3>1, <3>2
  <2>10. ASSUME RelayCrash PROVE MessageAgrees'
    BY <2>10 DEF RelayCrash, TypeOK, MessageAgrees, Ended, database
  <2>11. ASSUME NEW t \in Task, ClaimUnacked(t) PROVE MessageAgrees'
    BY <2>11 DEF ClaimUnacked, TypeOK, MessageAgrees, Ended, database
  <2>12. ASSUME NEW t \in Task, ClaimWaiting(t) PROVE MessageAgrees'
    BY <2>12 DEF ClaimWaiting, TypeOK, MessageAgrees, Ended, database
  <2>13. ASSUME NEW w \in Worker, NEW t \in Task, Take(w, t) PROVE MessageAgrees'
    BY <2>13 DEF Take, TypeOK, MessageAgrees, Ended, At, database
  <2>14. ASSUME NEW w \in Worker, FailExpired(w) PROVE MessageAgrees'
    BY <2>14 DEF FailExpired, TypeOK, MessageAgrees, Ended, SetTask, At
  <2>15. ASSUME NEW w \in Worker, LoadStart(w) PROVE MessageAgrees'
    BY <2>15 DEF LoadStart, TypeOK, MessageAgrees, Ended, At
  <2>16. ASSUME NEW w \in Worker, LoadStopped(w) PROVE MessageAgrees'
    BY <2>16 DEF LoadStopped, TypeOK, MessageAgrees, Ended, SetTask, At
  <2>17. ASSUME NEW w \in Worker, LoadIgnored(w) PROVE MessageAgrees'
    BY <2>17 DEF LoadIgnored, TypeOK, MessageAgrees, Ended, At, database
  <2>18. ASSUME NEW w \in Worker, Begin(w) PROVE MessageAgrees'
    <3>1. CASE worker[w].task \in cancelled
      <4>1. SetTask(worker[w].task, "STOPPED", "STOPPED") /\ Goto(w, "announcing")
        BY <2>18, <3>1 DEF Begin
      <4>. QED
        BY <2>18, <3>1, <4>1 DEF Begin, TypeOK, MessageAgrees, Ended,
           SetTask, At
    <3>2. CASE worker[w].task \notin cancelled
      <4>1. UNCHANGED <<status, message>> /\ Goto(w, "running")
        BY <2>18, <3>2 DEF Begin
      <4>. QED
        BY <2>18, <3>2, <4>1 DEF Begin, TypeOK, MessageAgrees, Ended,
           SetTask, At
    <3>. QED
      BY <3>1, <3>2
  <2>19. ASSUME NEW w \in Worker, Progress(w) PROVE MessageAgrees'
    BY <2>19 DEF Progress, TypeOK, MessageAgrees, Ended, SetTask, At
  <2>20. ASSUME NEW w \in Worker, FinishAnswered(w) PROVE MessageAgrees'
    BY <2>20 DEF FinishAnswered, TypeOK, MessageAgrees, Ended, At,
       PersistFinal, SetTask
  <2>21. ASSUME NEW w \in Worker, FinishStopped(w) PROVE MessageAgrees'
    BY <2>21 DEF FinishStopped, TypeOK, MessageAgrees, Ended, At,
       PersistFinal, SetTask
  <2>22. ASSUME NEW w \in Worker, FinishFailed(w) PROVE MessageAgrees'
    BY <2>22 DEF FinishFailed, TypeOK, MessageAgrees, Ended, At,
       PersistFinal, SetTask
  <2>23. ASSUME NEW w \in Worker, WaitForSelection(w) PROVE MessageAgrees'
    BY <2>23 DEF WaitForSelection, TypeOK, MessageAgrees, Ended, SetTask,
       At
  <2>24. ASSUME NEW w \in Worker, WaitForDiagnosis(w) PROVE MessageAgrees'
    <3>1. CASE status[worker[w].task] \in {"STOP_REQUESTED", "STOPPED"}
      BY <2>24, <3>1 DEF WaitForDiagnosis, TypeOK, MessageAgrees, Ended, SetTask, At
    <3>2. CASE status[worker[w].task] \notin {"STOP_REQUESTED", "STOPPED"}
      BY <2>24, <3>2 DEF WaitForDiagnosis, TypeOK, MessageAgrees, Ended, SetTask, At
    <3>. QED
      BY <3>1, <3>2
  <2>25. ASSUME NEW w \in Worker, ReleaseEarly(w) PROVE MessageAgrees'
    BY <2>25 DEF ReleaseEarly, TypeOK, MessageAgrees, Ended, At, database
  <2>26. ASSUME NEW w \in Worker, Announce(w) PROVE MessageAgrees'
    BY <2>26 DEF Announce, TypeOK, MessageAgrees, Ended, At, database
  <2>27. ASSUME NEW w \in Worker, AnnounceError(w) PROVE MessageAgrees'
    BY <2>27 DEF AnnounceError, TypeOK, MessageAgrees, Ended, At, database
  <2>28. ASSUME NEW w \in Worker, RunError(w) PROVE MessageAgrees'
    BY <2>28 DEF RunError, TypeOK, MessageAgrees, Ended, At, database
  <2>29. ASSUME NEW w \in Worker, FailTask(w) PROVE MessageAgrees'
    BY <2>29 DEF FailTask, TypeOK, MessageAgrees, Ended, SetTask, At
  <2>30. ASSUME NEW w \in Worker, ReleaseRun(w) PROVE MessageAgrees'
    BY <2>30 DEF ReleaseRun, TypeOK, MessageAgrees, Ended, At, database
  <2>31. ASSUME NEW w \in Worker, WorkerCrash(w) PROVE MessageAgrees'
    BY <2>31 DEF WorkerCrash, TypeOK, MessageAgrees, Ended, At, database
  <2>32. ASSUME NEW w \in Worker, WorkerShutdown(w) PROVE MessageAgrees'
    BY <2>32 DEF WorkerShutdown, TypeOK, MessageAgrees, Ended, At,
       database
  <2>33. ASSUME NEW t \in Task, StopWaiting(t) PROVE MessageAgrees'
    BY <2>33 DEF StopWaiting, TypeOK, MessageAgrees, Ended, SetTask,
       Active, Waiting
  <2>34. ASSUME NEW t \in Task, StopRequest(t) PROVE MessageAgrees'
    BY <2>34 DEF StopRequest, TypeOK, MessageAgrees, Ended, Active,
       Waiting
  <2>35. ASSUME NEW t \in Task, StopFlag(t) PROVE MessageAgrees'
    BY <2>35 DEF StopFlag, TypeOK, MessageAgrees, Ended, database
  <2>36. ASSUME NEW t \in Task, StopRelease(t) PROVE MessageAgrees'
    BY <2>36 DEF StopRelease, TypeOK, MessageAgrees, Ended, database
  <2>37. ASSUME NEW t \in Task, StopCrash(t) PROVE MessageAgrees'
    BY <2>37 DEF StopCrash, TypeOK, MessageAgrees, Ended, database
  <2>38. ASSUME NEW t \in Task, ChooseAcquire(t) PROVE MessageAgrees'
    BY <2>38 DEF ChooseAcquire, TypeOK, MessageAgrees, Ended,
       PendingSelection, PendingDiagnosis, database
  <2>39. ASSUME NEW t \in Task, SelectEntity(t) PROVE MessageAgrees'
    BY <2>39 DEF SelectEntity, TypeOK, MessageAgrees, Ended, Requeue,
       SetTask, PendingSelection
  <2>40. ASSUME NEW t \in Task, SelectAnnounced(t) PROVE MessageAgrees'
    BY <2>40 DEF SelectAnnounced, TypeOK, MessageAgrees, Ended, database
  <2>41. ASSUME NEW t \in Task, SelectDiagnosis(t) PROVE MessageAgrees'
    BY <2>41 DEF SelectDiagnosis, TypeOK, MessageAgrees, Ended, Requeue,
       SetTask, ChoosableDiagnosis, PendingDiagnosis
  <2>42. ASSUME NEW t \in Task, CancelDiagnosis(t) PROVE MessageAgrees'
    BY <2>42 DEF CancelDiagnosis, TypeOK, MessageAgrees, Ended, SetTask,
       ChoosableDiagnosis, PendingDiagnosis
  <2>43. ASSUME NEW t \in Task, ChoiceRefused(t) PROVE MessageAgrees'
    BY <2>43 DEF ChoiceRefused, TypeOK, MessageAgrees, Ended, database
  <2>44. ASSUME NEW t \in Task, ChoiceRolledBack(t) PROVE MessageAgrees'
    BY <2>44 DEF ChoiceRolledBack, TypeOK, MessageAgrees, Ended,
       PendingSelection, ChoosableDiagnosis, PendingDiagnosis, database
  <2>45. ASSUME NEW t \in Task, ChoiceCrash(t) PROVE MessageAgrees'
    BY <2>45 DEF ChoiceCrash, TypeOK, MessageAgrees, Ended, database
  <2>46. ASSUME NEW t \in Task, ExpireDiagnosis(t) PROVE MessageAgrees'
    BY <2>46 DEF ExpireDiagnosis, TypeOK, MessageAgrees, Ended,
       PendingDiagnosis
  <2>47. ASSUME DeleteStart PROVE MessageAgrees'
    BY <2>47 DEF DeleteStart, TypeOK, MessageAgrees, Ended, Active,
       Waiting
  <2>48. ASSUME DeleteCommit PROVE MessageAgrees'
    BY <2>48 DEF DeleteCommit, TypeOK, MessageAgrees, Ended, Active,
       Waiting
  <2>49. ASSUME NEW t \in Task, FlagDeleted(t) PROVE MessageAgrees'
    BY <2>49 DEF FlagDeleted, TypeOK, MessageAgrees, Ended, database
  <2>50. ASSUME DeleteCrash PROVE MessageAgrees'
    BY <2>50 DEF DeleteCrash, TypeOK, MessageAgrees, Ended
  <2>51. ASSUME NEW b \in Branch, ActivateBranch(b) PROVE MessageAgrees'
    BY <2>51 DEF ActivateBranch, TypeOK, MessageAgrees, Ended
  <2>52. ASSUME ExpireLease PROVE MessageAgrees'
    BY <2>52 DEF ExpireLease, TypeOK, MessageAgrees, Ended, database
  <2>53. ASSUME NEW t \in Task, ExpireContext(t) PROVE MessageAgrees'
    BY <2>53 DEF ExpireContext, TypeOK, MessageAgrees, Ended, database
  <2>54. CASE UNCHANGED vars
    BY <2>54 DEF TypeOK, MessageAgrees, Ended, vars, database
  <2>. QED
    BY <2>1, <2>2, <2>3, <2>4, <2>5, <2>6, <2>7, <2>8, <2>9, <2>10, <2>11,
       <2>12, <2>13, <2>14, <2>15, <2>16, <2>17, <2>18, <2>19, <2>20,
       <2>21, <2>22, <2>23, <2>24, <2>25, <2>26, <2>27, <2>28, <2>29,
       <2>30, <2>31, <2>32, <2>33, <2>34, <2>35, <2>36, <2>37, <2>38,
       <2>39, <2>40, <2>41, <2>42, <2>43, <2>44, <2>45, <2>46, <2>47,
       <2>48, <2>49, <2>50, <2>51, <2>52, <2>53, <2>54 DEF Next,
       Submissions, Relay, Process, Stops, Choices
<1>. QED
  BY <1>1, <1>2, TypeCorrect, PTL DEF Spec


(***************************************************************************)
(* Kinds of fault are only ever added, so a behaviour that has been spared *)
(* some has been spared them all along.                                    *)
(***************************************************************************)
LEMMA FaultsAccumulate == [Next]_vars => faults.kinds \subseteq faults'.kinds
<1> SUFFICES ASSUME [Next]_vars PROVE faults.kinds \subseteq faults'.kinds
  OBVIOUS
<1>1. ASSUME NEW t \in Task, Submissions(t) PROVE faults.kinds \subseteq faults'.kinds
  BY <1>1 DEF Submissions, SubmitAcquire, Send, Fork, SubmitRefused, SubmitCrash, CreateTask, Fault
<1>2. ASSUME NEW t \in Task, Relay(t) PROVE faults.kinds \subseteq faults'.kinds
  BY <1>2 DEF Relay, Publish, PublishUnmarked, GiveUp, FailGivenUp, ClaimUnacked, ClaimWaiting, Fault
<1>3. ASSUME NEW t \in Task, Stops(t) PROVE faults.kinds \subseteq faults'.kinds
  BY <1>3 DEF Stops, StopWaiting, StopRequest, StopFlag, StopRelease, StopCrash, Fault
<1>4. ASSUME NEW t \in Task, Choices(t) PROVE faults.kinds \subseteq faults'.kinds
  BY <1>4 DEF Choices, ChooseAcquire, SelectEntity, SelectAnnounced, SelectDiagnosis,
     CancelDiagnosis, ChoiceRefused, ChoiceRolledBack, ChoiceCrash, ExpireDiagnosis, Requeue, Fault
<1>5. ASSUME NEW w \in Worker, Process(w) PROVE faults.kinds \subseteq faults'.kinds
  BY <1>5 DEF Process, Take, FailExpired, LoadStart, LoadStopped, LoadIgnored, Begin,
     FinishAnswered, FinishStopped, FinishFailed, WaitForSelection, WaitForDiagnosis,
     ReleaseEarly, Announce, RunError, FailTask, ReleaseRun, PersistFinal
<1>6. ASSUME NEW w \in Worker,
             Progress(w) \/ AnnounceError(w) \/ WorkerCrash(w) \/ WorkerShutdown(w)
      PROVE  faults.kinds \subseteq faults'.kinds
  BY <1>6 DEF Progress, AnnounceError, WorkerCrash, WorkerShutdown, Fault
<1>7. CASE RelayCrash \/ DeleteStart \/ DeleteCommit \/ DeleteCrash
  BY <1>7 DEF RelayCrash, DeleteStart, DeleteCommit, DeleteCrash, Fault
<1>8. ASSUME NEW t \in Task, FlagDeleted(t) \/ ExpireContext(t)
      PROVE  faults.kinds \subseteq faults'.kinds
  BY <1>8 DEF FlagDeleted, ExpireContext, Fault
<1>9. CASE ExpireLease \/ \E b \in Branch : ActivateBranch(b)
  BY <1>9 DEF ExpireLease, ActivateBranch, Fault
<1>10. CASE UNCHANGED vars
  BY <1>10 DEF vars
<1>. QED
  BY <1>1, <1>2, <1>3, <1>4, <1>5, <1>6, <1>7, <1>8, <1>9, <1>10 DEF Next

\* What stands for a queued task is disturbed by few actions.
LEMMA DeliverablesKept ==
  ASSUME QueuedAreDeliverable,
         UNCHANGED <<outbox, stream, unacked, givingUp>>,
         \A u \in Task : status'[u] = "QUEUED" => status[u] = "QUEUED",
         \A w \in Worker : At(w, {"loading", "expired"}) => worker'[w] = worker[w]
  PROVE  QueuedAreDeliverable'
BY DEF QueuedAreDeliverable, Deliverable, At, RunsOn

\* Most actions of other parts disturb none of it.
LEMMA NothingDisturbed ==
  ASSUME QueuedAreDeliverable,
         UNCHANGED <<status, outbox, stream, unacked, givingUp, worker>>
  PROVE  QueuedAreDeliverable'
BY DEF QueuedAreDeliverable, Deliverable, At, RunsOn

(***************************************************************************)
(* As long as no worker process shuts down and no relay dies between its   *)
(* last two steps, a QUEUED task is never forgotten.                       *)
(***************************************************************************)
THEOREM QueuedTasksAreDeliverable == Spec => []QueuedIsDeliverable
<1> DEFINE Spared == None({"workerShutdown", "relayCrash"})
<1>1. Init => QueuedIsDeliverable
  BY DEF Init, QueuedIsDeliverable, QueuedAreDeliverable
<1>2. TypeOK /\ QueuedIsDeliverable /\ [Next]_vars => QueuedIsDeliverable'
  <2> SUFFICES ASSUME TypeOK, QueuedIsDeliverable, [Next]_vars, Spared'
               PROVE  QueuedAreDeliverable'
    BY DEF QueuedIsDeliverable
  <2> USE DEF Spared
  <2>0. QueuedAreDeliverable
    BY FaultsAccumulate DEF None, QueuedIsDeliverable
  <2>1. ASSUME NEW t \in Task, SubmitAcquire(t) PROVE QueuedAreDeliverable'
    <3>1. UNCHANGED <<status, outbox, stream, unacked, givingUp, worker>>
      BY <2>1 DEF SubmitAcquire, database
    <3>. QED
      BY <2>0, <3>1, NothingDisturbed
  <2>2. ASSUME NEW t \in Task, Send(t) PROVE QueuedAreDeliverable'
    <3>1. outbox'[t] # {} /\ \A u \in Task : u # t => outbox'[u] = outbox[u]
      BY <2>2 DEF Send, CreateTask, TypeOK
    <3>2. \A u \in Task : u # t => status'[u] = status[u]
      BY <2>2 DEF Send, CreateTask, SetTask, TypeOK
    <3>3. UNCHANGED <<stream, unacked, givingUp, worker>>
      BY <2>2 DEF Send, CreateTask, callers
    <3>. QED
      BY <2>0, <3>1, <3>2, <3>3 DEF QueuedAreDeliverable, Deliverable, At, RunsOn
  <2>3. ASSUME NEW t \in Task, Fork(t) PROVE QueuedAreDeliverable'
    <3>1. outbox'[t] # {} /\ \A u \in Task : u # t => outbox'[u] = outbox[u]
      BY <2>3 DEF Fork, CreateTask, TypeOK
    <3>2. \A u \in Task : u # t => status'[u] = status[u]
      BY <2>3 DEF Fork, CreateTask, SetTask, TypeOK
    <3>3. UNCHANGED <<stream, unacked, givingUp, worker>>
      BY <2>3 DEF Fork, CreateTask, callers
    <3>. QED
      BY <2>0, <3>1, <3>2, <3>3 DEF QueuedAreDeliverable, Deliverable, At, RunsOn
  <2>4. ASSUME NEW t \in Task, SubmitRefused(t) PROVE QueuedAreDeliverable'
    <3>1. UNCHANGED <<status, outbox, stream, unacked, givingUp, worker>>
      BY <2>4 DEF SubmitRefused, database
    <3>. QED
      BY <2>0, <3>1, NothingDisturbed
  <2>5. ASSUME NEW t \in Task, SubmitCrash(t) PROVE QueuedAreDeliverable'
    <3>1. UNCHANGED <<status, outbox, stream, unacked, givingUp, worker>>
      BY <2>5 DEF SubmitCrash, database, redis
    <3>. QED
      BY <2>0, <3>1, NothingDisturbed
  <2>6. ASSUME NEW t \in Task, NEW a \in outbox[t], Publish(t, a) PROVE QueuedAreDeliverable'
    <3>1. stream'[t] > 0
      BY <2>6 DEF Publish, TypeOK
    <3>2. \A u \in Task : u # t => /\ stream'[u] = stream[u]
                                  /\ unacked'[u] = unacked[u]
                                  /\ outbox'[u] = outbox[u]
      BY <2>6 DEF Publish, TypeOK, database
    <3>3. UNCHANGED <<status, givingUp, worker>>
      BY <2>6 DEF Publish, database, callers
    <3>. QED
      BY <2>0, <3>1, <3>2, <3>3 DEF QueuedAreDeliverable, Deliverable, At, RunsOn
  <2>7. ASSUME NEW t \in Task, NEW a \in outbox[t], PublishUnmarked(t, a) PROVE QueuedAreDeliverable'
    <3>1. stream'[t] > 0
      BY <2>7 DEF PublishUnmarked, TypeOK
    <3>2. \A u \in Task : u # t => /\ stream'[u] = stream[u]
                                  /\ unacked'[u] = unacked[u]
                                  /\ outbox'[u] = outbox[u]
      BY <2>7 DEF PublishUnmarked, TypeOK, database
    <3>3. UNCHANGED <<status, givingUp, worker>>
      BY <2>7 DEF PublishUnmarked, database, callers
    <3>. QED
      BY <2>0, <3>1, <3>2, <3>3 DEF QueuedAreDeliverable, Deliverable, At, RunsOn
  <2>8. ASSUME NEW t \in Task, NEW a \in outbox[t], GiveUp(t, a) PROVE QueuedAreDeliverable'
    <3>1. t \in givingUp' /\ \A u \in Task : u # t => outbox'[u] = outbox[u]
      BY <2>8 DEF GiveUp, TypeOK
    <3>2. /\ givingUp \subseteq givingUp'
          /\ UNCHANGED <<status, stream, unacked, worker>>
      BY <2>8 DEF GiveUp, redis, callers
    <3>. QED
      BY <2>0, <3>1, <3>2 DEF QueuedAreDeliverable, Deliverable, At, RunsOn
  <2>9. ASSUME NEW t \in Task, FailGivenUp(t) PROVE QueuedAreDeliverable'
    <3>1. \A u \in Task : status'[u] = "QUEUED" => u # t /\ status[u] = "QUEUED"
      <4>1. CASE status[t] \in Ended
        <5>1. UNCHANGED status
          BY <2>9, <4>1 DEF FailGivenUp
        <5>. QED
          BY <5>1, <4>1 DEF Ended
      <4>2. CASE status[t] \notin Ended
        <5>1. SetTask(t, "FAILED", "FAILED")
          BY <2>9, <4>2 DEF FailGivenUp
        <5>. QED
          BY <5>1 DEF SetTask, TypeOK
      <4>. QED
        BY <4>1, <4>2
    <3>2. givingUp' = givingUp \ {t} /\ UNCHANGED <<outbox, stream, unacked, worker>>
      BY <2>9 DEF FailGivenUp, redis, callers
    <3>. QED
      BY <2>0, <3>1, <3>2 DEF QueuedAreDeliverable, Deliverable, At, RunsOn
  <2>10. ASSUME RelayCrash PROVE QueuedAreDeliverable'
    BY <2>10 DEF RelayCrash, None
  <2>11. ASSUME NEW t \in Task, ClaimUnacked(t) PROVE QueuedAreDeliverable'
    <3>1. stream'[t] > 0
      BY <2>11 DEF ClaimUnacked, TypeOK
    <3>2. \A u \in Task : u # t => /\ stream'[u] = stream[u]
                                  /\ unacked'[u] = unacked[u]
                                  /\ outbox'[u] = outbox[u]
      BY <2>11 DEF ClaimUnacked, TypeOK, database
    <3>3. UNCHANGED <<status, givingUp, worker>>
      BY <2>11 DEF ClaimUnacked, database, callers
    <3>. QED
      BY <2>0, <3>1, <3>2, <3>3 DEF QueuedAreDeliverable, Deliverable, At, RunsOn
  <2>12. ASSUME NEW t \in Task, ClaimWaiting(t) PROVE QueuedAreDeliverable'
    <3>1. stream'[t] > 0
      BY <2>12 DEF ClaimWaiting, TypeOK
    <3>2. \A u \in Task : u # t => /\ stream'[u] = stream[u]
                                  /\ unacked'[u] = unacked[u]
                                  /\ outbox'[u] = outbox[u]
      BY <2>12 DEF ClaimWaiting, TypeOK, database
    <3>3. UNCHANGED <<status, givingUp, worker>>
      BY <2>12 DEF ClaimWaiting, database, callers
    <3>. QED
      BY <2>0, <3>1, <3>2, <3>3 DEF QueuedAreDeliverable, Deliverable, At, RunsOn
  <2>13. ASSUME NEW w \in Worker, NEW t \in Task, Take(w, t) PROVE QueuedAreDeliverable'
    <3>1. At(w, {"loading", "expired"})' /\ RunsOn(w, t)'
      BY <2>13 DEF Take, TypeOK, At, RunsOn
    <3>2. \A x \in Worker : x # w => worker'[x] = worker[x]
      BY <2>13 DEF Take, TypeOK
    <3>3. \A u \in Task : u # t => stream'[u] = stream[u]
      BY <2>13 DEF Take, TypeOK
    <3>4. UNCHANGED <<status, outbox, unacked, givingUp>> /\ worker[w].pc = "idle"
      BY <2>13 DEF Take, database, At, callers
    <3>5. ASSUME NEW u \in Task, status'[u] = "QUEUED", u # t
          PROVE  \/ outbox'[u] # {} \/ u \in givingUp'
                 \/ stream'[u] > 0 \/ unacked'[u] > 0
                 \/ \E x \in Worker : At(x, {"loading", "expired"})' /\ RunsOn(x, u)'
      BY <2>0, <3>2, <3>3, <3>4, <3>5 DEF QueuedAreDeliverable, Deliverable, At, RunsOn
    <3>. QED
      BY <2>0, <3>1, <3>5 DEF QueuedAreDeliverable, Deliverable, At, RunsOn
  <2>14. ASSUME NEW w \in Worker, FailExpired(w) PROVE QueuedAreDeliverable'
    <3>1. /\ status'[worker[w].task] # "QUEUED"
          /\ \A u \in Task : u # worker[w].task => status'[u] = status[u]
      BY <2>14 DEF FailExpired, TypeOK, At, SetTask
    <3>2. \A x \in Worker : x # w => worker'[x] = worker[x]
      BY <2>14 DEF FailExpired, TypeOK, Goto
    <3>3. UNCHANGED <<outbox, stream, unacked, givingUp>>
      BY <2>14 DEF FailExpired, redis, database, callers
    <3>. QED
      BY <2>0, <3>1, <3>2, <3>3 DEF QueuedAreDeliverable, Deliverable, At, RunsOn
  <2>15. ASSUME NEW w \in Worker, LoadStart(w) PROVE QueuedAreDeliverable'
    <3>1. /\ status'[worker[w].task] # "QUEUED"
          /\ \A u \in Task : u # worker[w].task => status'[u] = status[u]
      BY <2>15 DEF LoadStart, TypeOK, At, SetTask
    <3>2. \A x \in Worker : x # w => worker'[x] = worker[x]
      BY <2>15 DEF LoadStart, TypeOK, Goto
    <3>3. UNCHANGED <<outbox, stream, unacked, givingUp>>
      BY <2>15 DEF LoadStart, redis, database, callers
    <3>. QED
      BY <2>0, <3>1, <3>2, <3>3 DEF QueuedAreDeliverable, Deliverable, At, RunsOn
  <2>16. ASSUME NEW w \in Worker, LoadStopped(w) PROVE QueuedAreDeliverable'
    <3>1. /\ status'[worker[w].task] # "QUEUED"
          /\ \A u \in Task : u # worker[w].task => status'[u] = status[u]
      BY <2>16 DEF LoadStopped, TypeOK, At, SetTask
    <3>2. \A x \in Worker : x # w => worker'[x] = worker[x]
      BY <2>16 DEF LoadStopped, TypeOK, Goto
    <3>3. UNCHANGED <<outbox, stream, unacked, givingUp>>
      BY <2>16 DEF LoadStopped, redis, database, callers
    <3>4. ASSUME NEW u \in Task, status'[u] = "QUEUED" PROVE Deliverable(u)'
      <4>1. u # worker[w].task /\ status[u] = "QUEUED"
        BY <3>1, <3>4
      <4>2. Deliverable(u)
        BY <2>0, <4>1 DEF QueuedAreDeliverable
      <4>. QED
        BY <3>2, <3>3, <4>1, <4>2 DEF Deliverable, At, RunsOn
    <3>. QED
      BY <3>4 DEF QueuedAreDeliverable
  <2>17. ASSUME NEW w \in Worker, LoadIgnored(w) PROVE QueuedAreDeliverable'
    <3>1. status[worker[w].task] # "QUEUED" /\ \A x \in Worker : x # w => worker'[x] = worker[x]
      BY <2>17 DEF LoadIgnored, TypeOK
    <3>2. UNCHANGED <<status, outbox, stream, unacked, givingUp>>
      BY <2>17 DEF LoadIgnored, redis, database, callers
    <3>3. ASSUME NEW u \in Task, status'[u] = "QUEUED" PROVE Deliverable(u)'
      <4>1. u # worker[w].task /\ Deliverable(u)
        BY <2>0, <3>1, <3>2, <3>3 DEF QueuedAreDeliverable
      <4>. QED
        BY <3>1, <3>2, <4>1 DEF Deliverable, At, RunsOn
    <3>. QED
      BY <3>3 DEF QueuedAreDeliverable
  <2>18. ASSUME NEW w \in Worker, Begin(w) PROVE QueuedAreDeliverable'
    <3>1. \A u \in Task : status'[u] = "QUEUED" => status[u] = "QUEUED"
      <4>1. CASE worker[w].task \in cancelled
        <5>1. SetTask(worker[w].task, "STOPPED", "STOPPED")
          BY <2>18, <4>1 DEF Begin
        <5>. QED
          BY <5>1 DEF SetTask, TypeOK
      <4>2. CASE worker[w].task \notin cancelled
        <5>1. UNCHANGED status
          BY <2>18, <4>2 DEF Begin
        <5>. QED
          BY <5>1
      <4>. QED
        BY <4>1, <4>2
    <3>2. worker[w].pc = "started" /\ \A x \in Worker : x # w => worker'[x] = worker[x]
      BY <2>18 DEF Begin, TypeOK, Goto, At
    <3>3. UNCHANGED <<outbox, stream, unacked, givingUp>>
      BY <2>18 DEF Begin, redis, callers
    <3>. QED
      BY <2>0, <3>1, <3>2, <3>3 DEF QueuedAreDeliverable, Deliverable, At, RunsOn
  <2>19. ASSUME NEW w \in Worker, Progress(w) PROVE QueuedAreDeliverable'
    <3>1. /\ status'[worker[w].task] # "QUEUED"
          /\ \A u \in Task : u # worker[w].task => status'[u] = status[u]
      BY <2>19 DEF Progress, TypeOK, At, SetTask
    <3>2. \A x \in Worker : x # w => worker'[x] = worker[x]
      BY <2>19 DEF Progress, TypeOK, Goto
    <3>3. UNCHANGED <<outbox, stream, unacked, givingUp>>
      BY <2>19 DEF Progress, redis, database, callers
    <3>. QED
      BY <2>0, <3>1, <3>2, <3>3 DEF QueuedAreDeliverable, Deliverable, At, RunsOn
  <2>20. ASSUME NEW w \in Worker, FinishAnswered(w) PROVE QueuedAreDeliverable'
    <3>1. UNCHANGED <<outbox, stream, unacked, givingUp>>
      BY <2>20 DEF FinishAnswered, PersistFinal, redis, database, callers
    <3>2. \A u \in Task : status'[u] = "QUEUED" => status[u] = "QUEUED"
      BY <2>20 DEF FinishAnswered, PersistFinal, SetTask, TypeOK, database
    <3>3. \A x \in Worker : At(x, {"loading", "expired"}) => worker'[x] = worker[x]
      BY <2>20 DEF FinishAnswered, PersistFinal, At, Goto, TypeOK, callers
    <3>. QED
      BY <2>0, <3>1, <3>2, <3>3, DeliverablesKept
  <2>21. ASSUME NEW w \in Worker, FinishStopped(w) PROVE QueuedAreDeliverable'
    <3>1. UNCHANGED <<outbox, stream, unacked, givingUp>>
      BY <2>21 DEF FinishStopped, PersistFinal, redis, database, callers
    <3>2. \A u \in Task : status'[u] = "QUEUED" => status[u] = "QUEUED"
      BY <2>21 DEF FinishStopped, PersistFinal, SetTask, TypeOK, database
    <3>3. \A x \in Worker : At(x, {"loading", "expired"}) => worker'[x] = worker[x]
      BY <2>21 DEF FinishStopped, PersistFinal, At, Goto, TypeOK, callers
    <3>. QED
      BY <2>0, <3>1, <3>2, <3>3, DeliverablesKept
  <2>22. ASSUME NEW w \in Worker, FinishFailed(w) PROVE QueuedAreDeliverable'
    <3>1. UNCHANGED <<outbox, stream, unacked, givingUp>>
      BY <2>22 DEF FinishFailed, PersistFinal, redis, database, callers
    <3>2. \A u \in Task : status'[u] = "QUEUED" => status[u] = "QUEUED"
      BY <2>22 DEF FinishFailed, PersistFinal, SetTask, TypeOK, database
    <3>3. \A x \in Worker : At(x, {"loading", "expired"}) => worker'[x] = worker[x]
      BY <2>22 DEF FinishFailed, PersistFinal, At, Goto, TypeOK, callers
    <3>. QED
      BY <2>0, <3>1, <3>2, <3>3, DeliverablesKept
  <2>23. ASSUME NEW w \in Worker, WaitForSelection(w) PROVE QueuedAreDeliverable'
    <3>1. UNCHANGED <<outbox, stream, unacked, givingUp>>
      BY <2>23 DEF WaitForSelection, redis, database, callers
    <3>2. \A u \in Task : status'[u] = "QUEUED" => status[u] = "QUEUED"
      BY <2>23 DEF WaitForSelection, SetTask, TypeOK, database
    <3>3. \A x \in Worker : At(x, {"loading", "expired"}) => worker'[x] = worker[x]
      BY <2>23 DEF WaitForSelection, At, Goto, TypeOK, callers
    <3>. QED
      BY <2>0, <3>1, <3>2, <3>3, DeliverablesKept
  <2>24. ASSUME NEW w \in Worker, WaitForDiagnosis(w) PROVE QueuedAreDeliverable'
    <3>1. /\ status'[worker[w].task] # "QUEUED"
          /\ \A u \in Task : u # worker[w].task => status'[u] = status[u]
      <4>1. CASE status[worker[w].task] \in {"STOP_REQUESTED", "STOPPED"}
        <5>1. SetTask(worker[w].task, "STOPPED", "STOPPED") /\ Goto(w, "announcing")
          BY <2>24, <4>1 DEF WaitForDiagnosis
        <5>. QED
          BY <2>24, <4>1, <5>1 DEF WaitForDiagnosis, TypeOK, At, SetTask
      <4>2. CASE status[worker[w].task] \notin {"STOP_REQUESTED", "STOPPED"}
        <5>1. SetTask(worker[w].task, "COMPLETED", "COMPLETED") /\ Goto(w, "confirming")
          BY <2>24, <4>2 DEF WaitForDiagnosis
        <5>. QED
          BY <2>24, <4>2, <5>1 DEF WaitForDiagnosis, TypeOK, At, SetTask
      <4>. QED
        BY <4>1, <4>2
    <3>2. \A x \in Worker : x # w => worker'[x] = worker[x]
      BY <2>24 DEF WaitForDiagnosis, TypeOK, Goto
    <3>3. UNCHANGED <<outbox, stream, unacked, givingUp>>
      BY <2>24 DEF WaitForDiagnosis, redis, database, callers
    <3>. QED
      BY <2>0, <3>1, <3>2, <3>3 DEF QueuedAreDeliverable, Deliverable, At, RunsOn
  <2>25. ASSUME NEW w \in Worker, ReleaseEarly(w) PROVE QueuedAreDeliverable'
    BY <2>0, <2>25 DEF ReleaseEarly, TypeOK, QueuedAreDeliverable, Deliverable, At, RunsOn,
       Goto, database, callers
  <2>26. ASSUME NEW w \in Worker, Announce(w) PROVE QueuedAreDeliverable'
    BY <2>0, <2>26 DEF Announce, TypeOK, QueuedAreDeliverable, Deliverable, At, RunsOn, Goto,
       database, redis, callers
  <2>27. ASSUME NEW w \in Worker, AnnounceError(w) PROVE QueuedAreDeliverable'
    BY <2>0, <2>27 DEF AnnounceError, TypeOK, QueuedAreDeliverable, Deliverable, At, RunsOn,
       Goto, database, redis, callers
  <2>28. ASSUME NEW w \in Worker, RunError(w) PROVE QueuedAreDeliverable'
    BY <2>0, <2>28 DEF RunError, TypeOK, QueuedAreDeliverable, Deliverable, At, RunsOn, Goto,
       database, redis, callers
  <2>29. ASSUME NEW w \in Worker, FailTask(w) PROVE QueuedAreDeliverable'
    <3>1. UNCHANGED <<outbox, stream, unacked, givingUp>>
      BY <2>29 DEF FailTask, redis, database, callers
    <3>2. \A u \in Task : status'[u] = "QUEUED" => status[u] = "QUEUED"
      BY <2>29 DEF FailTask, SetTask, TypeOK, database
    <3>3. \A x \in Worker : At(x, {"loading", "expired"}) => worker'[x] = worker[x]
      BY <2>29 DEF FailTask, At, Goto, TypeOK, callers
    <3>. QED
      BY <2>0, <3>1, <3>2, <3>3, DeliverablesKept
  <2>30. ASSUME NEW w \in Worker, ReleaseRun(w) PROVE QueuedAreDeliverable'
    BY <2>0, <2>30 DEF ReleaseRun, TypeOK, QueuedAreDeliverable, Deliverable, At, RunsOn,
       Idle, database, callers
  <2>31. ASSUME NEW w \in Worker, WorkerCrash(w) PROVE QueuedAreDeliverable'
    <3>1. /\ unacked'[worker[w].task] > 0
          /\ \A u \in Task : u # worker[w].task => unacked'[u] = unacked[u]
      BY <2>31 DEF WorkerCrash, TypeOK
    <3>2. \A x \in Worker : x # w => worker'[x] = worker[x]
      BY <2>31 DEF WorkerCrash, TypeOK
    <3>3. UNCHANGED <<status, outbox, stream, givingUp>>
      BY <2>31 DEF WorkerCrash, database, callers
    <3>4. ASSUME NEW u \in Task, status'[u] = "QUEUED", u # worker[w].task
          PROVE  \/ outbox'[u] # {} \/ u \in givingUp'
                 \/ stream'[u] > 0 \/ unacked'[u] > 0
                 \/ \E x \in Worker : At(x, {"loading", "expired"})' /\ RunsOn(x, u)'
      BY <2>0, <3>1, <3>2, <3>3, <3>4 DEF QueuedAreDeliverable, Deliverable, At, RunsOn
    <3>. QED
      BY <2>0, <3>1, <3>4 DEF QueuedAreDeliverable, Deliverable, At, RunsOn
  <2>32. ASSUME NEW w \in Worker, WorkerShutdown(w) PROVE QueuedAreDeliverable'
    BY <2>32 DEF WorkerShutdown, Fault, None
  <2>33. ASSUME NEW t \in Task, StopWaiting(t) PROVE QueuedAreDeliverable'
    <3>1. \A u \in Task : status'[u] = "QUEUED" => status[u] = "QUEUED"
      BY <2>33 DEF StopWaiting, SetTask, TypeOK
    <3>2. UNCHANGED <<outbox, stream, unacked, givingUp, worker>>
      BY <2>33 DEF StopWaiting, redis, callers
    <3>. QED
      BY <2>0, <3>1, <3>2 DEF QueuedAreDeliverable, Deliverable, At, RunsOn
  <2>34. ASSUME NEW t \in Task, StopRequest(t) PROVE QueuedAreDeliverable'
    <3>1. \A u \in Task : status'[u] = "QUEUED" => status[u] = "QUEUED"
      BY <2>34 DEF StopRequest, TypeOK
    <3>2. UNCHANGED <<outbox, stream, unacked, givingUp, worker>>
      BY <2>34 DEF StopRequest, redis, callers
    <3>. QED
      BY <2>0, <3>1, <3>2 DEF QueuedAreDeliverable, Deliverable, At, RunsOn
  <2>35. ASSUME NEW t \in Task, StopFlag(t) PROVE QueuedAreDeliverable'
    <3>1. UNCHANGED <<outbox, stream, unacked, givingUp>>
      BY <2>35 DEF StopFlag, redis, database, callers
    <3>2. \A u \in Task : status'[u] = "QUEUED" => status[u] = "QUEUED"
      BY <2>35 DEF StopFlag, SetTask, TypeOK, database
    <3>3. \A x \in Worker : At(x, {"loading", "expired"}) => worker'[x] = worker[x]
      BY <2>35 DEF StopFlag, At, Goto, TypeOK, callers
    <3>. QED
      BY <2>0, <3>1, <3>2, <3>3, DeliverablesKept
  <2>36. ASSUME NEW t \in Task, StopRelease(t) PROVE QueuedAreDeliverable'
    <3>1. UNCHANGED <<outbox, stream, unacked, givingUp>>
      BY <2>36 DEF StopRelease, redis, database, callers
    <3>2. \A u \in Task : status'[u] = "QUEUED" => status[u] = "QUEUED"
      BY <2>36 DEF StopRelease, SetTask, TypeOK, database
    <3>3. \A x \in Worker : At(x, {"loading", "expired"}) => worker'[x] = worker[x]
      BY <2>36 DEF StopRelease, At, Goto, TypeOK, callers
    <3>. QED
      BY <2>0, <3>1, <3>2, <3>3, DeliverablesKept
  <2>37. ASSUME NEW t \in Task, StopCrash(t) PROVE QueuedAreDeliverable'
    <3>1. \A u \in Task : status'[u] = "QUEUED" => status[u] = "QUEUED"
      BY <2>37 DEF StopCrash, database
    <3>2. UNCHANGED <<outbox, stream, unacked, givingUp, worker>>
      BY <2>37 DEF StopCrash, redis, database, callers
    <3>. QED
      BY <2>0, <3>1, <3>2 DEF QueuedAreDeliverable, Deliverable, At, RunsOn
  <2>38. ASSUME NEW t \in Task, ChooseAcquire(t) PROVE QueuedAreDeliverable'
    <3>1. UNCHANGED <<status, outbox, stream, unacked, givingUp, worker>>
      BY <2>38 DEF ChooseAcquire, redis, database, callers
    <3>. QED
      BY <2>0, <3>1, NothingDisturbed
  <2>39. ASSUME NEW t \in Task, SelectEntity(t) PROVE QueuedAreDeliverable'
    <3>1. outbox'[t] # {} /\ \A u \in Task : u # t => outbox'[u] = outbox[u]
      BY <2>39 DEF SelectEntity, Requeue, TypeOK
    <3>2. \A u \in Task : u # t => status'[u] = status[u]
      BY <2>39 DEF SelectEntity, Requeue, SetTask, TypeOK
    <3>3. UNCHANGED <<stream, unacked, givingUp, worker>>
      BY <2>39 DEF SelectEntity, Requeue, callers
    <3>4. ASSUME NEW u \in Task, status'[u] = "QUEUED" PROVE Deliverable(u)'
      <4>1. CASE u = t
        BY <3>1, <4>1 DEF Deliverable
      <4>2. CASE u # t
        <5>1. Deliverable(u)
          BY <2>0, <3>2, <3>4, <4>2 DEF QueuedAreDeliverable
        <5>. QED
          BY <3>1, <3>3, <4>2, <5>1 DEF Deliverable, At, RunsOn
      <4>. QED
        BY <4>1, <4>2
    <3>. QED
      BY <3>4 DEF QueuedAreDeliverable
  <2>40. ASSUME NEW t \in Task, SelectAnnounced(t) PROVE QueuedAreDeliverable'
    <3>1. UNCHANGED <<status, outbox, stream, unacked, givingUp, worker>>
      BY <2>40 DEF SelectAnnounced, database
    <3>. QED
      BY <2>0, <3>1, NothingDisturbed
  <2>41. ASSUME NEW t \in Task, SelectDiagnosis(t) PROVE QueuedAreDeliverable'
    <3>1. outbox'[t] # {} /\ \A u \in Task : u # t => outbox'[u] = outbox[u]
      BY <2>41 DEF SelectDiagnosis, Requeue, TypeOK
    <3>2. \A u \in Task : u # t => status'[u] = status[u]
      BY <2>41 DEF SelectDiagnosis, Requeue, SetTask, TypeOK
    <3>3. UNCHANGED <<stream, unacked, givingUp, worker>>
      BY <2>41 DEF SelectDiagnosis, Requeue, callers
    <3>. QED
      BY <2>0, <3>1, <3>2, <3>3 DEF QueuedAreDeliverable, Deliverable, At, RunsOn
  <2>42. ASSUME NEW t \in Task, CancelDiagnosis(t) PROVE QueuedAreDeliverable'
    <3>1. \A u \in Task : status'[u] = "QUEUED" => status[u] = "QUEUED"
      BY <2>42 DEF CancelDiagnosis, SetTask, TypeOK
    <3>2. UNCHANGED <<outbox, stream, unacked, givingUp, worker>>
      BY <2>42 DEF CancelDiagnosis, redis, callers
    <3>. QED
      BY <2>0, <3>1, <3>2 DEF QueuedAreDeliverable, Deliverable, At, RunsOn
  <2>43. ASSUME NEW t \in Task, ChoiceRefused(t) PROVE QueuedAreDeliverable'
    <3>1. UNCHANGED <<outbox, stream, unacked, givingUp>>
      BY <2>43 DEF ChoiceRefused, redis, database, callers
    <3>2. \A u \in Task : status'[u] = "QUEUED" => status[u] = "QUEUED"
      BY <2>43 DEF ChoiceRefused, SetTask, TypeOK, database
    <3>3. \A x \in Worker : At(x, {"loading", "expired"}) => worker'[x] = worker[x]
      BY <2>43 DEF ChoiceRefused, At, Goto, TypeOK, callers
    <3>. QED
      BY <2>0, <3>1, <3>2, <3>3, DeliverablesKept
  <2>44. ASSUME NEW t \in Task, ChoiceRolledBack(t) PROVE QueuedAreDeliverable'
    <3>1. \A u \in Task : status'[u] = "QUEUED" => status[u] = "QUEUED"
      BY <2>44 DEF ChoiceRolledBack, database
    <3>2. UNCHANGED <<outbox, stream, unacked, givingUp, worker>>
      BY <2>44 DEF ChoiceRolledBack, database, callers
    <3>. QED
      BY <2>0, <3>1, <3>2 DEF QueuedAreDeliverable, Deliverable, At, RunsOn
  <2>45. ASSUME NEW t \in Task, ChoiceCrash(t) PROVE QueuedAreDeliverable'
    <3>1. UNCHANGED <<status, outbox, stream, unacked, givingUp, worker>>
      BY <2>45 DEF ChoiceCrash, database, redis
    <3>. QED
      BY <2>0, <3>1, NothingDisturbed
  <2>46. ASSUME NEW t \in Task, ExpireDiagnosis(t) PROVE QueuedAreDeliverable'
    <3>1. UNCHANGED <<status, outbox, stream, unacked, givingUp, worker>>
      BY <2>46 DEF ExpireDiagnosis, redis, callers
    <3>. QED
      BY <2>0, <3>1, NothingDisturbed
  <2>47. ASSUME DeleteStart PROVE QueuedAreDeliverable'
    <3>1. UNCHANGED <<status, outbox, stream, unacked, givingUp, worker>>
      BY <2>47 DEF DeleteStart, redis
    <3>. QED
      BY <2>0, <3>1, NothingDisturbed
  <2>48. ASSUME DeleteCommit PROVE QueuedAreDeliverable'
    <3>1. \A u \in Task : status'[u] = "QUEUED" => status[u] = "QUEUED"
      BY <2>48 DEF DeleteCommit
    <3>2. UNCHANGED <<outbox, stream, unacked, givingUp, worker>>
      BY <2>48 DEF DeleteCommit, redis, callers
    <3>. QED
      BY <2>0, <3>1, <3>2, DeliverablesKept
  <2>49. ASSUME NEW t \in Task, FlagDeleted(t) PROVE QueuedAreDeliverable'
    <3>1. UNCHANGED <<status, outbox, stream, unacked, givingUp, worker>>
      BY <2>49 DEF FlagDeleted, database
    <3>. QED
      BY <2>0, <3>1, NothingDisturbed
  <2>50. ASSUME DeleteCrash PROVE QueuedAreDeliverable'
    <3>1. UNCHANGED <<status, outbox, stream, unacked, givingUp, worker>>
      BY <2>50 DEF DeleteCrash, redis
    <3>. QED
      BY <2>0, <3>1, NothingDisturbed
  <2>51. ASSUME NEW b \in Branch, ActivateBranch(b) PROVE QueuedAreDeliverable'
    <3>1. UNCHANGED <<status, outbox, stream, unacked, givingUp, worker>>
      BY <2>51 DEF ActivateBranch, redis, database, callers
    <3>. QED
      BY <2>0, <3>1, NothingDisturbed
  <2>52. ASSUME ExpireLease PROVE QueuedAreDeliverable'
    <3>1. UNCHANGED <<status, outbox, stream, unacked, givingUp, worker>>
      BY <2>52 DEF ExpireLease, database, callers
    <3>. QED
      BY <2>0, <3>1, NothingDisturbed
  <2>53. ASSUME NEW t \in Task, ExpireContext(t) PROVE QueuedAreDeliverable'
    <3>1. UNCHANGED <<status, outbox, stream, unacked, givingUp, worker>>
      BY <2>53 DEF ExpireContext, database, callers
    <3>. QED
      BY <2>0, <3>1, NothingDisturbed
  <2>54. CASE UNCHANGED vars
    <3>1. UNCHANGED <<status, outbox, stream, unacked, givingUp, worker>>
      BY <2>54 DEF vars, database, redis, callers
    <3>. QED
      BY <2>0, <3>1, NothingDisturbed
  <2>. QED
    BY <2>1, <2>2, <2>3, <2>4, <2>5, <2>6, <2>7, <2>8, <2>9, <2>10, <2>11,
       <2>12, <2>13, <2>14, <2>15, <2>16, <2>17, <2>18, <2>19, <2>20,
       <2>21, <2>22, <2>23, <2>24, <2>25, <2>26, <2>27, <2>28, <2>29,
       <2>30, <2>31, <2>32, <2>33, <2>34, <2>35, <2>36, <2>37, <2>38,
       <2>39, <2>40, <2>41, <2>42, <2>43, <2>44, <2>45, <2>46, <2>47,
       <2>48, <2>49, <2>50, <2>51, <2>52, <2>53, <2>54 DEF Next,
       Submissions, Relay, Process, Stops, Choices
<1>. QED
  BY <1>1, <1>2, TypeCorrect, PTL DEF Spec

-----------------------------------------------------------------------------
(* The actions in groups, by what they do to a task's way from the outbox   *)
(* through the stream to a slot.                                            *)

LivePcs == {"loading", "expired", "started", "running"}
LiveOn(w, t) == RunsOn(w, t) /\ At(w, LivePcs)
Live(t) == outbox[t] # {} \/ stream[t] > 0 \/ \E w \in Worker : LiveOn(w, t)

Aside(t) ==
    \/ SubmitAcquire(t) \/ SubmitRefused(t) \/ SubmitCrash(t)
    \/ StopFlag(t) \/ StopRelease(t) \/ StopCrash(t)
    \/ ChooseAcquire(t) \/ SelectAnnounced(t) \/ ChoiceRefused(t) \/ ChoiceRolledBack(t)
    \/ ChoiceCrash(t) \/ ExpireDiagnosis(t) \/ FlagDeleted(t) \/ ExpireContext(t)
Elsewhere == DeleteStart \/ DeleteCrash \/ ExpireLease \/ \E b \in Branch : ActivateBranch(b)
Relabels(t) == StopWaiting(t) \/ StopRequest(t) \/ CancelDiagnosis(t)
Enqueues(t) == Send(t) \/ Fork(t) \/ SelectEntity(t) \/ SelectDiagnosis(t)
Duplicates ==
    \/ \E t \in Task : (\E a \in outbox[t] : PublishUnmarked(t, a)) \/ ClaimWaiting(t)
    \/ \E w \in Worker : WorkerCrash(w)
Runs(w) ==
    \/ FailExpired(w) \/ LoadStart(w) \/ LoadStopped(w) \/ LoadIgnored(w)
    \/ Begin(w) \/ Progress(w) \/ FinishAnswered(w) \/ FinishStopped(w) \/ FinishFailed(w)
    \/ WaitForSelection(w) \/ WaitForDiagnosis(w) \/ ReleaseEarly(w)
    \/ Announce(w) \/ AnnounceError(w) \/ RunError(w) \/ FailTask(w) \/ ReleaseRun(w)
    \/ WorkerShutdown(w)

\* A step is one of these, or changes nothing.
LEMMA StepCases ==
  ASSUME [Next]_vars
  PROVE  \/ \E t \in Task : Aside(t) \/ Relabels(t) \/ Enqueues(t)
         \/ Elsewhere \/ DeleteCommit \/ Duplicates \/ RelayCrash
         \/ \E t \in Task : \E a \in outbox[t] : Publish(t, a) \/ GiveUp(t, a)
         \/ \E t \in Task : FailGivenUp(t) \/ ClaimUnacked(t)
         \/ \E w \in Worker, t \in Task : Take(w, t)
         \/ \E w \in Worker : Runs(w)
         \/ UNCHANGED vars
BY DEF Next, Submissions, Relay, Stops, Choices, Process, Aside, Elsewhere, Relabels, Enqueues,
       Duplicates, Runs

\* What does not concern the way of a task.
LEMMA AsideEffect ==
  ASSUME NEW t \in Task, Aside(t)
  PROVE  UNCHANGED <<status, outbox, stream, unacked, givingUp, worker, branch, leaf, active, selection>>
BY DEF Aside, SubmitAcquire, SubmitRefused, SubmitCrash, StopFlag, StopRelease, StopCrash,
       ChooseAcquire, SelectAnnounced, ChoiceRefused, ChoiceRolledBack, ChoiceCrash,
       ExpireDiagnosis, FlagDeleted, ExpireContext, redis, database, callers

\* Deleting, expiry of a lease and a change of branch touch no delivery.
LEMMA ElsewhereEffect ==
  ASSUME Elsewhere
  PROVE  UNCHANGED <<status, outbox, stream, unacked, givingUp, worker, lastLease, context, choosing,
                     submitting, stopping, branch, leaf, selection, diagnosis>>
BY DEF Elsewhere, DeleteStart, DeleteCrash, ExpireLease, ActivateBranch, redis, database, callers

\* Whatever makes a second delivery is recorded as a fault.
LEMMA DuplicatesEffect ==
  ASSUME TypeOK, Duplicates
  PROVE  ~None(Duplicating)'
<1>1. ASSUME NEW kind \in Duplicating, Fault(kind) PROVE ~None(Duplicating)'
  BY <1>1 DEF Fault, None
<1>2. "redelivery" \in Duplicating /\ "workerCrash" \in Duplicating
  BY DEF Duplicating
<1>3. QED
  BY <1>1, <1>2 DEF Duplicates, PublishUnmarked, ClaimWaiting, WorkerCrash

\* A slot's step: what it does to the slot, to the task it has, and to nothing else.
Ran(w, t, from, to, s) ==
    /\ worker[w].pc = from /\ worker[w].task = t /\ t \in Task
    /\ \/ to = "idle" /\ worker'[w] = Idle
       \/ /\ to # "idle"
          /\ worker'[w] = [pc |-> to, task |-> t, context |-> worker[w].context]
    /\ \A x \in Worker : x # w => worker'[x] = worker[x]
    /\ status'[t] = s /\ \A u \in Task : u # t => status'[u] = status[u]
    /\ UNCHANGED <<outbox, stream, unacked, givingUp, submitting, choosing, stopping, flagging,
                   context, lastLease, branch, active, conversation>>

\* A slot that is busy has a task; Goto moves that slot only.
LEMMA WorkerEffect ==
  ASSUME TypeOK, NEW w \in Worker, ~At(w, {"idle"})
  PROVE  /\ worker[w].task \in Task
         /\ \A pc : Goto(w, pc) =>
              /\ worker'[w] = [pc |-> pc, task |-> worker[w].task, context |-> worker[w].context]
              /\ \A x \in Worker : x # w => worker'[x] = worker[x]
         /\ worker' = [worker EXCEPT ![w] = Idle] =>
              worker'[w] = Idle /\ \A x \in Worker : x # w => worker'[x] = worker[x]
BY DEF TypeOK, Goto

\* SetTask writes one task.
LEMMA SetTaskEffect ==
  ASSUME TypeOK, NEW t \in Task, NEW s, NEW m, SetTask(t, s, m)
  PROVE  status'[t] = s /\ \A u \in Task : u # t => status'[u] = status[u]
BY DEF TypeOK, SetTask

\* Every step of a slot, with the statuses before and after it.
RunTable(w, t) ==
    \/ Ran(w, t, "expired", "idle", "FAILED")
    \/ Ran(w, t, "loading", "started", "PREPARING") /\ status[t] = "QUEUED"
    \/ Ran(w, t, "loading", "announcing", "STOPPED") /\ status[t] = "STOP_REQUESTED"
    \/ Ran(w, t, "loading", "idle", status[t])
    \/ Ran(w, t, "started", "announcing", "STOPPED")
    \/ Ran(w, t, "started", "running", status[t])
    \/ \E s \in {"STREAMING", "EXECUTING"} : Ran(w, t, "running", "running", s)
    \/ \E s \in {"COMPLETED", "WAITING_INPUT", "STOPPED", "WAITING_SELECTION"} :
            Ran(w, t, "running", "announcing", s)
    \/ Ran(w, t, "running", "confirming", "COMPLETED")
    \/ Ran(w, t, "running", "failing", "FAILED")
    \/ \E from \in {"started", "running"} : Ran(w, t, from, "failing", status[t])
    \/ Ran(w, t, "confirming", "announcing", status[t])
    \/ Ran(w, t, "announcing", "releasing", status[t])
    \/ Ran(w, t, "announcing", "failing", status[t]) /\ Fault("publishError")
    \/ Ran(w, t, "failing", "releasing", "FAILED")
    \/ Ran(w, t, "releasing", "idle", status[t])
    \/ Ran(w, t, worker[w].pc, "idle", status[t]) /\ Fault("workerShutdown") /\ ~At(w, {"idle"})

\* Only a busy slot runs.
LEMMA RunBusy ==
  ASSUME TypeOK, NEW w \in Worker, Runs(w)
  PROVE  ~At(w, {"idle"}) /\ worker[w].task \in Task
<1>1. ~At(w, {"idle"})
  BY DEF Runs, At, FailExpired, LoadStart, LoadStopped, LoadIgnored, Begin, Progress, FinishAnswered,
         FinishStopped, FinishFailed, WaitForSelection, WaitForDiagnosis, ReleaseEarly, Announce,
         AnnounceError, RunError, FailTask, ReleaseRun, WorkerShutdown
<1>2. QED BY <1>1, WorkerEffect

\* The table is complete.
LEMMA RunEffect ==
  ASSUME TypeOK, NEW w \in Worker, Runs(w)
  PROVE  RunTable(w, worker[w].task)
<1> DEFINE t == worker[w].task
<1>0. ~At(w, {"idle"}) /\ t \in Task
  BY RunBusy
<1>1. CASE FailExpired(w)
  BY <1>0, <1>1, WorkerEffect, SetTaskEffect DEF FailExpired, RunTable, Ran, At, redis, callers
<1>2. CASE LoadStart(w)
  <2>1. status' = [status EXCEPT ![t] = "PREPARING"]
    BY <1>2 DEF LoadStart
  <2>2. status'[t] = "PREPARING" /\ \A u \in Task : u # t => status'[u] = status[u]
    BY <1>0, <2>1 DEF TypeOK
  <2>3. Ran(w, t, "loading", "started", "PREPARING") /\ status[t] = "QUEUED"
    BY <1>0, <1>2, <2>2, WorkerEffect DEF LoadStart, Ran, At, redis, callers
  <2>4. QED BY <2>3 DEF RunTable
<1>3. CASE LoadStopped(w)
  BY <1>0, <1>3, WorkerEffect, SetTaskEffect DEF LoadStopped, RunTable, Ran, At, redis, callers
<1>4. CASE LoadIgnored(w)
  BY <1>0, <1>4, WorkerEffect DEF LoadIgnored, RunTable, Ran, At, redis, callers, database
<1>5. CASE Begin(w)
  <2>1. CASE t \in cancelled
    BY <1>0, <1>5, <2>1, WorkerEffect, SetTaskEffect DEF Begin, RunTable, Ran, At, redis, callers
  <2>2. CASE t \notin cancelled
    BY <1>0, <1>5, <2>2, WorkerEffect DEF Begin, RunTable, Ran, At, redis, callers
  <2>3. QED BY <2>1, <2>2
<1>6. CASE Progress(w)
  <2>1. PICK s \in {"STREAMING", "EXECUTING"} : status' = [status EXCEPT ![t] = s]
    BY <1>6 DEF Progress, SetTask
  <2>2. status'[t] = s /\ \A u \in Task : u # t => status'[u] = status[u]
    BY <1>0, <2>1 DEF TypeOK
  <2>3. worker'[w] = [pc |-> "running", task |-> t, context |-> worker[w].context] /\ worker' = worker
    BY <1>6 DEF Progress, At, TypeOK
  <2>4. Ran(w, t, "running", "running", s)
    BY <1>0, <1>6, <2>2, <2>3 DEF Progress, Ran, At, redis, callers
  <2>5. QED BY <2>4 DEF RunTable
<1>7. CASE FinishAnswered(w)
  <2>1. PICK s \in {"COMPLETED", "WAITING_INPUT"} : PersistFinal(t, s, "COMPLETED")
    BY <1>7 DEF FinishAnswered
  <2>2. Ran(w, t, "running", "announcing", s)
    BY <1>0, <1>7, <2>1, WorkerEffect, SetTaskEffect DEF FinishAnswered, PersistFinal, Ran, At, redis, callers
  <2>3. QED BY <2>2 DEF RunTable
<1>8. CASE FinishStopped(w)
  <2>1. Ran(w, t, "running", "announcing", "STOPPED")
    BY <1>0, <1>8, WorkerEffect, SetTaskEffect DEF FinishStopped, PersistFinal, Ran, At, redis, callers
  <2>2. QED BY <2>1 DEF RunTable
<1>9. CASE FinishFailed(w)
  <2>1. Ran(w, t, "running", "failing", "FAILED")
    BY <1>0, <1>9, WorkerEffect, SetTaskEffect DEF FinishFailed, PersistFinal, Ran, At, redis, callers
  <2>2. QED BY <2>1 DEF RunTable
<1>10. CASE WaitForSelection(w)
  <2>1. Ran(w, t, "running", "announcing", "WAITING_SELECTION")
    BY <1>0, <1>10, WorkerEffect, SetTaskEffect DEF WaitForSelection, Ran, At, redis, callers
  <2>2. QED BY <2>1 DEF RunTable
<1>11. CASE WaitForDiagnosis(w)
  <2>1. CASE status[t] \in {"STOP_REQUESTED", "STOPPED"}
    <3>1. Ran(w, t, "running", "announcing", "STOPPED")
      BY <1>0, <1>11, <2>1, WorkerEffect, SetTaskEffect DEF WaitForDiagnosis, Ran, At, redis, callers
    <3>2. QED BY <3>1 DEF RunTable
  <2>2. CASE status[t] \notin {"STOP_REQUESTED", "STOPPED"}
    <3>1. Ran(w, t, "running", "confirming", "COMPLETED")
      BY <1>0, <1>11, <2>2, WorkerEffect, SetTaskEffect DEF WaitForDiagnosis, Ran, At, redis, callers
    <3>2. QED BY <3>1 DEF RunTable
  <2>3. QED BY <2>1, <2>2
<1>12. CASE ReleaseEarly(w)
  BY <1>0, <1>12, WorkerEffect DEF ReleaseEarly, RunTable, Ran, At, callers, database
<1>13. CASE Announce(w)
  BY <1>0, <1>13, WorkerEffect DEF Announce, RunTable, Ran, At, redis, callers, database
<1>14. CASE AnnounceError(w)
  BY <1>0, <1>14, WorkerEffect DEF AnnounceError, RunTable, Ran, At, redis, callers, database
<1>15. CASE RunError(w)
  BY <1>0, <1>15, WorkerEffect DEF RunError, RunTable, Ran, At, redis, callers, database
<1>16. CASE FailTask(w)
  BY <1>0, <1>16, WorkerEffect, SetTaskEffect DEF FailTask, RunTable, Ran, At, redis, callers
<1>17. CASE ReleaseRun(w)
  BY <1>0, <1>17, WorkerEffect DEF ReleaseRun, RunTable, Ran, At, callers, database
<1>18. CASE WorkerShutdown(w)
  BY <1>0, <1>18, WorkerEffect DEF WorkerShutdown, RunTable, Ran, At, callers, database
<1>19. QED
  BY <1>1, <1>2, <1>3, <1>4, <1>5, <1>6, <1>7, <1>8, <1>9, <1>10, <1>11, <1>12, <1>13, <1>14, <1>15,
     <1>16, <1>17, <1>18 DEF Runs

-----------------------------------------------------------------------------
(* One delivery per task.                                                   *)

\* At any time one thing stands for a task that is under way: its outbox row,
\* its entry in the stream, or the slot that works on it.
OneToken(t) ==
    /\ \A a, b \in outbox[t] : a = b
    /\ stream[t] \in {0, 1} /\ unacked[t] = 0
    /\ outbox[t] # {} => stream[t] = 0
    /\ outbox[t] # {} \/ stream[t] > 0 => \A w \in Worker : ~LiveOn(w, t)
    /\ \A v, w \in Worker : LiveOn(v, t) /\ LiveOn(w, t) => v = w
    /\ t \in givingUp => ~Live(t)
    /\ Live(t) \/ t \in givingUp => status[t] \in Active \cup {"FAILED"}
OneDelivery == None(Duplicating) => \A t \in Task : OneToken(t)

\* A task keeps its one token, or loses it, and its status agrees.
LEMMA TokenKept ==
  ASSUME NEW t, OneToken(t),
         outbox'[t] = outbox[t], stream'[t] = stream[t], unacked'[t] = unacked[t],
         t \in givingUp' => t \in givingUp,
         \A w \in Worker : LiveOn(w, t)' => LiveOn(w, t),
         Live(t)' \/ t \in givingUp' => status'[t] \in Active \cup {"FAILED"}
  PROVE  OneToken(t)'
BY DEF OneToken, Live

\* A slot's step leaves the other tasks' tokens alone.
LEMMA RanKeeps ==
  ASSUME TypeOK, NEW w \in Worker, RunTable(w, worker[w].task), NEW u \in Task, OneToken(u)
  PROVE  OneToken(u)'
<1> DEFINE t == worker[w].task
<1>1. PICK from, to, s :
        /\ Ran(w, t, from, to, s)
        /\ to \in LivePcs => from \in LivePcs
        /\ \/ s \in Active \cup {"FAILED"} \/ s = status[t]
           \/ from \in LivePcs /\ to \notin LivePcs
  BY DEF RunTable, LivePcs, Active
<1>2. \A v \in Worker, x \in Task : LiveOn(v, x)' => LiveOn(v, x)
  BY <1>1 DEF Ran, LiveOn, RunsOn, At, Idle, LivePcs
<1>3. CASE u # t
  <2>1. status'[u] = status[u] /\ UNCHANGED <<outbox, stream, unacked, givingUp>>
    BY <1>1, <1>3 DEF Ran
  <2>2. Live(u)' \/ u \in givingUp' => status'[u] \in Active \cup {"FAILED"}
    BY <1>2, <2>1 DEF Live, OneToken
  <2>3. QED BY <1>2, <2>1, <2>2, TokenKept
<1>4. CASE u = t
  <2>1. status'[u] = s /\ UNCHANGED <<outbox, stream, unacked, givingUp>>
    BY <1>1, <1>4 DEF Ran
  <2>2. Live(u)' \/ u \in givingUp' => status'[u] \in Active \cup {"FAILED"}
    <3>1. CASE s \in Active \cup {"FAILED"} \/ s = status[t]
      BY <1>2, <1>4, <2>1, <3>1 DEF Live, OneToken
    <3>2. CASE from \in LivePcs /\ to \notin LivePcs
      <4>1. LiveOn(w, u)
        BY <1>1, <1>4, <3>2 DEF Ran, LiveOn, RunsOn, At
      <4>2. ~LiveOn(w, u)'
        BY <1>1, <3>2 DEF Ran, LiveOn, RunsOn, At, Idle, LivePcs
      <4>3. u \notin givingUp /\ outbox[u] = {} /\ ~(stream[u] > 0)
            /\ \A v \in Worker : LiveOn(v, u) => v = w
        BY <4>1 DEF OneToken, Live
      <4>4. QED BY <1>2, <2>1, <4>2, <4>3 DEF Live
    <3>3. QED BY <1>1, <3>1, <3>2
  <2>3. QED BY <1>2, <2>1, <2>2, TokenKept
<1>5. QED BY <1>3, <1>4

\* A task that waits, or is new, or has asked for a diagnosis, has no token.
LEMMA RestingHasNone ==
  ASSUME NEW t \in Task, OneToken(t),
         status[t] \in {"none", "WAITING_SELECTION", "WAITING_INPUT", "COMPLETED", "STOPPED"}
  PROVE  ~Live(t) /\ t \notin givingUp
BY DEF OneToken, Active

\* A turn is created, or resumed from a question, with an outbox row of its own.
LEMMA EnqueueEffect ==
  ASSUME TypeOK, NEW t \in Task, Enqueues(t)
  PROVE  /\ status[t] = "none" \/ PendingSelection(t) \/ PendingDiagnosis(t)
         /\ status'[t] = "QUEUED" /\ \A u \in Task : u # t => status'[u] = status[u]
         /\ \E a \in Nat : outbox'[t] \in {{a}, outbox[t] \cup {a}}
         /\ \A u \in Task : u # t => outbox'[u] = outbox[u] /\ context'[u] = context[u]
         /\ UNCHANGED <<stream, unacked, givingUp, worker, lock, lastLease, stopping, flagging,
                        conversation, faults>>
<1>1. CASE Send(t) \/ Fork(t)
  BY <1>1, SetTaskEffect DEF Send, Fork, CreateTask, TypeOK
<1>2. CASE SelectEntity(t) \/ SelectDiagnosis(t)
  <2>1. Requeue(t) /\ (PendingSelection(t) \/ PendingDiagnosis(t))
    BY <1>2 DEF SelectEntity, SelectDiagnosis, ChoosableDiagnosis
  <2>2. context[t].attempt + 1 \in Nat
    BY DEF TypeOK
  <2>3. outbox'[t] = outbox[t] \cup {context[t].attempt + 1}
        /\ \A u \in Task : u # t => outbox'[u] = outbox[u] /\ context'[u] = context[u]
    BY <2>1 DEF Requeue, TypeOK
  <2>4. status'[t] = "QUEUED" /\ \A u \in Task : u # t => status'[u] = status[u]
    BY <2>1, SetTaskEffect DEF Requeue
  <2>5. UNCHANGED <<stream, unacked, givingUp, worker, lock, lastLease, stopping, flagging,
                    conversation, faults>>
    BY <2>1 DEF Requeue
  <2>6. QED BY <2>1, <2>2, <2>3, <2>4, <2>5
<1>3. QED BY <1>1, <1>2 DEF Enqueues

\* A stop request, or a question that is called off.
LEMMA RelabelEffect ==
  ASSUME TypeOK, NEW t \in Task, Relabels(t)
  PROVE  /\ \/ status[t] \in Active /\ status'[t] = "STOP_REQUESTED"
            \/ status[t] \in Waiting \cup {"COMPLETED"} /\ status'[t] = "STOPPED"
         /\ \A u \in Task : u # t => status'[u] = status[u]
         /\ UNCHANGED <<outbox, stream, unacked, givingUp, worker, lock, lastLease, context,
                        submitting, flagging, conversation, branch, leaf, active, faults>>
<1>1. CASE StopWaiting(t)
  BY <1>1, SetTaskEffect DEF StopWaiting, redis
<1>2. CASE StopRequest(t)
  BY <1>2 DEF StopRequest, redis, TypeOK
<1>3. CASE CancelDiagnosis(t)
  BY <1>3, SetTaskEffect DEF CancelDiagnosis, ChoosableDiagnosis, PendingDiagnosis, redis
<1>4. QED BY <1>1, <1>2, <1>3 DEF Relabels

\* delete() relabels the tasks it has read before.
LEMMA DeleteEffect ==
  ASSUME TypeOK, DeleteCommit
  PROVE  /\ \A u \in Task : status'[u] = IF u \in flagging THEN "STOP_REQUESTED" ELSE status[u]
         /\ Locked /\ conversation' = "DELETED"
         /\ UNCHANGED <<redis, selection, diagnosis, outbox, branch, leaf, active, callers, worker, faults>>
BY DEF DeleteCommit, Locked

\* No step makes a second token.
LEMMA OneDeliveryStep == TypeOK /\ OneDelivery /\ [Next]_vars => OneDelivery'
<1> SUFFICES ASSUME TypeOK, OneDelivery, [Next]_vars, None(Duplicating)', NEW u \in Task
             PROVE  OneToken(u)'
  BY DEF OneDelivery
<1>0. \A t \in Task : OneToken(t)
  BY FaultsAccumulate DEF None, OneDelivery
<1>k. ASSUME UNCHANGED <<status, outbox, stream, unacked, givingUp, worker>> PROVE OneToken(u)'
  BY <1>0, <1>k DEF OneToken, Live, LiveOn, RunsOn, At
<1>1. ASSUME NEW t \in Task, Aside(t) PROVE OneToken(u)'
  BY <1>1, <1>k, AsideEffect
<1>2. CASE Elsewhere
  BY <1>2, <1>k, ElsewhereEffect
<1>3. CASE Duplicates
  BY <1>3, DuplicatesEffect
<1>4. ASSUME NEW t \in Task, Relabels(t) PROVE OneToken(u)'
  <2>1. \A w \in Worker, x \in Task : LiveOn(w, x)' <=> LiveOn(w, x)
    BY <1>4, RelabelEffect DEF LiveOn, RunsOn, At
  <2>2. UNCHANGED <<outbox, stream, unacked, givingUp>> /\ Live(u)' = Live(u)
    BY <1>4, <2>1, RelabelEffect DEF Live
  <2>3. Live(u)' \/ u \in givingUp' => status'[u] \in Active \cup {"FAILED"}
    <3>1. CASE u # t
      BY <1>0, <1>4, <2>2, <3>1, RelabelEffect DEF OneToken
    <3>2. CASE u = t
      <4>1. CASE status'[u] = "STOP_REQUESTED"
        BY <4>1 DEF Active
      <4>2. CASE status[u] \in Waiting \cup {"COMPLETED"}
        BY <1>0, <2>2, <4>2, RestingHasNone DEF Waiting
      <4>3. QED BY <1>4, <3>2, <4>1, <4>2, RelabelEffect
    <3>3. QED BY <3>1, <3>2
  <2>4. QED BY <1>0, <2>1, <2>2, <2>3, TokenKept
<1>5. CASE DeleteCommit
  <2>1. UNCHANGED <<outbox, stream, unacked, givingUp, worker>>
    BY <1>5, DeleteEffect DEF redis, callers
  <2>2. \A w \in Worker : LiveOn(w, u)' <=> LiveOn(w, u)
    BY <2>1 DEF LiveOn, RunsOn, At
  <2>3. Live(u)' = Live(u)
    BY <2>1, <2>2 DEF Live
  <2>4. Live(u)' \/ u \in givingUp' => status'[u] \in Active \cup {"FAILED"}
    BY <1>0, <1>5, <2>1, <2>3, DeleteEffect DEF OneToken, Active
  <2>5. QED BY <1>0, <2>1, <2>2, <2>4, TokenKept
<1>6. ASSUME NEW t \in Task, Enqueues(t) PROVE OneToken(u)'
  <2>1. \A w \in Worker, x \in Task : LiveOn(w, x)' <=> LiveOn(w, x)
    BY <1>6, EnqueueEffect DEF LiveOn, RunsOn, At
  <2>2. CASE u # t
    <3>1. /\ outbox'[u] = outbox[u] /\ UNCHANGED <<stream, unacked, givingUp>>
          /\ status'[u] = status[u]
      BY <1>6, <2>2, EnqueueEffect
    <3>2. QED BY <1>0, <2>1, <3>1, TokenKept DEF Live, OneToken
  <2>3. CASE u = t
    <3>1. ~Live(u) /\ u \notin givingUp
      BY <1>0, <1>6, <2>3, EnqueueEffect, RestingHasNone DEF PendingSelection, PendingDiagnosis
    <3>2. PICK a \in Nat : outbox'[u] = {a}
      BY <1>6, <2>3, <3>1, EnqueueEffect DEF Live
    <3>3. UNCHANGED <<stream, unacked, givingUp>> /\ status'[u] = "QUEUED"
      BY <1>6, <2>3, EnqueueEffect
    <3>4. stream[u] = 0 /\ unacked[u] = 0 /\ \A w \in Worker : ~LiveOn(w, u)'
      BY <1>0, <2>1, <3>1 DEF OneToken, Live
    <3>5. QED BY <3>1, <3>2, <3>3, <3>4 DEF OneToken, Active
  <2>4. QED BY <2>2, <2>3
<1>7. ASSUME NEW t \in Task, NEW a \in outbox[t], Publish(t, a) \/ GiveUp(t, a) PROVE OneToken(u)'
  <2>0. worker' = worker /\ status' = status /\ unacked' = unacked
    BY <1>7 DEF Publish, GiveUp, redis
  <2>1. \A w \in Worker, x \in Task : LiveOn(w, x)' <=> LiveOn(w, x)
    BY <2>0 DEF LiveOn, RunsOn, At
  <2>2. CASE u # t
    <3>1. outbox'[u] = outbox[u] /\ stream'[u] = stream[u] /\ (u \in givingUp' => u \in givingUp)
      BY <1>7, <2>2 DEF Publish, GiveUp, redis, callers, TypeOK
    <3>2. QED BY <1>0, <2>0, <2>1, <3>1, TokenKept DEF Live, OneToken
  <2>3. CASE u = t
    <3>1. /\ stream[u] = 0 /\ unacked[u] = 0 /\ (\A w \in Worker : ~LiveOn(w, u))
          /\ u \notin givingUp /\ status[u] \in Active \cup {"FAILED"}
          /\ \A b \in outbox[u] : b = a
      BY <1>0, <1>7, <2>3 DEF OneToken, Live
    <3>2. outbox'[u] = {}
      <4>1. outbox'[u] = outbox[u] \ {a}
        BY <1>7, <2>3 DEF Publish, GiveUp, TypeOK
      <4>2. QED BY <3>1, <4>1
    <3>3. CASE Publish(t, a)
      <4>1. stream'[u] = 1 /\ givingUp' = givingUp
        BY <2>3, <3>1, <3>3 DEF Publish, TypeOK, callers
      <4>2. QED BY <2>0, <2>1, <3>1, <3>2, <4>1 DEF OneToken, Live
    <3>4. CASE GiveUp(t, a)
      <4>1. stream' = stream
        BY <3>4 DEF GiveUp, redis
      <4>2. QED BY <2>0, <2>1, <3>1, <3>2, <4>1 DEF OneToken, Live
    <3>5. QED BY <1>7, <3>3, <3>4
  <2>4. QED BY <2>2, <2>3
<1>8. ASSUME NEW t \in Task, FailGivenUp(t) PROVE OneToken(u)'
  <2>0. UNCHANGED <<outbox, stream, unacked, worker>> /\ givingUp' = givingUp \ {t}
    BY <1>8 DEF FailGivenUp, redis
  <2>1. \A w \in Worker : LiveOn(w, u)' <=> LiveOn(w, u)
    BY <2>0 DEF LiveOn, RunsOn, At
  <2>2. Live(u)' \/ u \in givingUp' => status'[u] \in Active \cup {"FAILED"}
    <3>1. status'[u] = status[u] \/ status'[u] = "FAILED"
      BY <1>8, SetTaskEffect DEF FailGivenUp
    <3>2. QED BY <1>0, <2>0, <2>1, <3>1 DEF OneToken, Live
  <2>3. QED BY <1>0, <2>0, <2>1, <2>2, TokenKept
<1>9. CASE RelayCrash
  <2>0. UNCHANGED <<status, outbox, stream, unacked, worker>> /\ givingUp' = {}
    BY <1>9 DEF RelayCrash, redis, database
  <2>1. \A w \in Worker : LiveOn(w, u)' <=> LiveOn(w, u)
    BY <2>0 DEF LiveOn, RunsOn, At
  <2>2. QED BY <1>0, <2>0, <2>1, TokenKept DEF OneToken, Live
<1>10. ASSUME NEW t \in Task, ClaimUnacked(t) PROVE OneToken(u)'
  BY <1>0, <1>10 DEF ClaimUnacked, OneToken
<1>11. ASSUME NEW w \in Worker, NEW t \in Task, Take(w, t) PROVE OneToken(u)'
  <2>0. UNCHANGED <<status, outbox, unacked, givingUp>> /\ stream[t] > 0
    BY <1>11 DEF Take, database, callers
  <2>1. /\ worker'[w].pc \in {"expired", "loading"} /\ worker'[w].task = t
        /\ worker[w].pc = "idle"
        /\ \A x \in Worker : x # w => worker'[x] = worker[x]
    BY <1>11 DEF Take, At, TypeOK
  <2>2. CASE u # t
    <3>1. stream'[u] = stream[u]
      BY <1>11, <2>2 DEF Take, TypeOK
    <3>2. \A x \in Worker : LiveOn(x, u)' => LiveOn(x, u)
      BY <2>1, <2>2 DEF LiveOn, RunsOn, At
    <3>3. QED BY <1>0, <2>0, <3>1, <3>2, TokenKept DEF Live, OneToken
  <2>3. CASE u = t
    <3>1. /\ stream[u] = 1 /\ unacked[u] = 0 /\ (\A x \in Worker : ~LiveOn(x, u))
          /\ u \notin givingUp /\ status[u] \in Active \cup {"FAILED"} /\ outbox[u] = {}
      BY <1>0, <2>0, <2>3 DEF OneToken, Live
    <3>2. stream'[u] = 0
      BY <1>11, <2>3, <3>1 DEF Take, TypeOK
    <3>3. \A x \in Worker : LiveOn(x, u)' => x = w
      BY <2>1, <3>1 DEF LiveOn, RunsOn, At
    <3>4. QED BY <2>0, <3>1, <3>2, <3>3 DEF OneToken, Live
  <2>4. QED BY <2>2, <2>3
<1>12. ASSUME NEW w \in Worker, Runs(w) PROVE OneToken(u)'
  BY <1>0, <1>12, RunEffect, RanKeeps
<1>13. CASE UNCHANGED vars
  BY <1>13, <1>k DEF vars, redis, database, callers
<1>14. QED
  BY <1>1, <1>2, <1>3, <1>4, <1>5, <1>6, <1>7, <1>8, <1>9, <1>10, <1>11, <1>12, <1>13, StepCases

\* A task with a token, or about to be failed by the relay, is under way; a slot
\* about to fail its task is the only one left to do anything with it.
CalmOn(t) ==
    /\ Live(t) \/ t \in givingUp => status[t] \in Active
    /\ \A w \in Worker : RunsOn(w, t) /\ At(w, {"failing"}) =>
          status[t] \in Active \cup {"FAILED"} /\ ~Live(t) /\ t \notin givingUp
Calm == None(Duplicating \cup {"publishError"}) => \A t \in Task : CalmOn(t)

\* What a step may do to a calm task without disturbing it.
LEMMA CalmKept ==
  ASSUME NEW t, CalmOn(t),
         outbox'[t] = outbox[t], stream'[t] = stream[t],
         t \in givingUp' => t \in givingUp,
         \A w \in Worker : LiveOn(w, t)' => LiveOn(w, t),
         \A w \in Worker : RunsOn(w, t)' /\ At(w, {"failing"})' => RunsOn(w, t) /\ At(w, {"failing"}),
         \/ status'[t] = status[t]
         \/ status[t] \in Active /\ status'[t] = "STOP_REQUESTED"
         \/ ~Live(t) /\ t \notin givingUp
            /\ \A w \in Worker : RunsOn(w, t) /\ At(w, {"failing"}) => status'[t] = "FAILED"
  PROVE  CalmOn(t)'
<1>1. Live(t)' => Live(t)
  BY DEF Live
<1>2. CASE status'[t] = status[t]
  BY <1>1, <1>2 DEF CalmOn
<1>3. CASE status[t] \in Active /\ status'[t] = "STOP_REQUESTED"
  BY <1>1, <1>3 DEF CalmOn, Active
<1>4. CASE ~Live(t) /\ t \notin givingUp
            /\ \A w \in Worker : RunsOn(w, t) /\ At(w, {"failing"}) => status'[t] = "FAILED"
  BY <1>1, <1>4 DEF CalmOn
<1>5. QED BY <1>2, <1>3, <1>4

\* A failed announcement is recorded as a fault.
LEMMA PublishErrorNoted ==
  ASSUME TypeOK, Fault("publishError") PROVE ~None(Duplicating \cup {"publishError"})'
BY DEF Fault, None, TypeOK

\* A slot's step disturbs nobody: it has the token, or only ends a task again.
LEMMA RanCalmly ==
  ASSUME TypeOK, NEW w \in Worker, RunTable(w, worker[w].task), NEW u \in Task, OneToken(u), CalmOn(u),
         ~Fault("publishError")
  PROVE  CalmOn(u)'
<1> DEFINE t == worker[w].task
<1>1. PICK from, to, s :
        /\ Ran(w, t, from, to, s)
        /\ to \in LivePcs => from \in LivePcs
        /\ to = "failing" => from \in {"started", "running"}
        /\ \/ s \in Active /\ to \in LivePcs
           \/ s = status[t]
           \/ s = "FAILED" /\ from \in LivePcs \cup {"failing"} /\ to \notin LivePcs
           \/ from \in LivePcs /\ to \notin LivePcs /\ to # "failing"
  BY DEF RunTable, LivePcs, Active
<1>2. \A v \in Worker, x \in Task : LiveOn(v, x)' => LiveOn(v, x)
  BY <1>1 DEF Ran, LiveOn, RunsOn, At, Idle, LivePcs
<1>3. UNCHANGED <<outbox, stream, givingUp>>
  BY <1>1 DEF Ran
<1>4. CASE u # t
  <2>1. status'[u] = status[u]
    BY <1>1, <1>4 DEF Ran
  <2>2. \A v \in Worker : RunsOn(v, u)' /\ At(v, {"failing"})' => RunsOn(v, u) /\ At(v, {"failing"})
    BY <1>1, <1>4 DEF Ran, RunsOn, At, Idle
  <2>3. QED BY <1>2, <1>3, <2>1, <2>2, CalmKept
<1>5. CASE u = t
  <2>0. status'[u] = s
    BY <1>1, <1>5 DEF Ran
  <2>1. CASE from \in LivePcs /\ to \notin LivePcs
    <3>1. LiveOn(w, u)
      BY <1>1, <1>5, <2>1 DEF Ran, LiveOn, RunsOn, At
    <3>2. u \notin givingUp /\ outbox[u] = {} /\ ~(stream[u] > 0)
          /\ \A v \in Worker : LiveOn(v, u) => v = w
      BY <3>1 DEF OneToken, Live
    <3>3. ~LiveOn(w, u)'
      BY <1>1, <2>1 DEF Ran, LiveOn, RunsOn, At, Idle, LivePcs
    <3>4. ~Live(u)'
      BY <1>2, <1>3, <3>2, <3>3 DEF Live
    <3>5. status[u] \in Active /\ \A v \in Worker : ~(RunsOn(v, u) /\ At(v, {"failing"}))
      BY <3>1 DEF CalmOn, Live
    <3>6. \A v \in Worker : RunsOn(v, u)' /\ At(v, {"failing"})' => to = "failing"
      BY <1>1, <3>5 DEF Ran, RunsOn, At, Idle
    <3>7. to = "failing" => s \in Active \cup {"FAILED"}
      BY <1>1, <1>5, <2>1, <3>5
    <3>8. QED BY <1>3, <2>0, <3>2, <3>4, <3>6, <3>7 DEF CalmOn
  <2>2. CASE from \in LivePcs /\ to \in LivePcs
    <3>1. LiveOn(w, u)
      BY <1>1, <1>5, <2>2 DEF Ran, LiveOn, RunsOn, At
    <3>2. status[u] \in Active /\ \A v \in Worker : ~(RunsOn(v, u) /\ At(v, {"failing"}))
      BY <3>1 DEF CalmOn, Live
    <3>3. s \in Active
      BY <1>1, <1>5, <2>2, <3>2
    <3>4. \A v \in Worker : ~(RunsOn(v, u)' /\ At(v, {"failing"})')
      BY <1>1, <2>2, <3>2 DEF Ran, RunsOn, At, Idle, LivePcs
    <3>5. QED BY <2>0, <3>3, <3>4 DEF CalmOn
  <2>3. CASE from \notin LivePcs
    <3>1. \A v \in Worker : RunsOn(v, u)' /\ At(v, {"failing"})' => RunsOn(v, u) /\ At(v, {"failing"})
      BY <1>1, <2>3 DEF Ran, RunsOn, At, Idle, LivePcs
    <3>2. CASE s = status[t]
      BY <1>2, <1>3, <1>5, <2>0, <3>1, <3>2, CalmKept
    <3>3. CASE s = "FAILED" /\ from = "failing"
      <4>1. RunsOn(w, u) /\ At(w, {"failing"})
        BY <1>1, <1>5, <3>3 DEF Ran, RunsOn, At
      <4>2. ~Live(u) /\ u \notin givingUp
        BY <4>1 DEF CalmOn
      <4>3. QED BY <1>2, <1>3, <2>0, <3>1, <3>3, <4>2, CalmKept
    <3>4. s = status[t] \/ (s = "FAILED" /\ from = "failing")
      BY <1>1, <2>3
    <3>5. QED BY <3>2, <3>3, <3>4
  <2>4. QED BY <2>1, <2>2, <2>3
<1>6. QED BY <1>4, <1>5

\* No step disturbs a calm task.
LEMMA CalmStep == TypeOK /\ OneDelivery /\ Calm /\ [Next]_vars => Calm'
<1> SUFFICES ASSUME TypeOK, OneDelivery, Calm, [Next]_vars,
                    None(Duplicating \cup {"publishError"})', NEW u \in Task
             PROVE  CalmOn(u)'
  BY DEF Calm
<1>0. /\ \A t \in Task : OneToken(t) /\ CalmOn(t)
      /\ None(Duplicating)'
  BY FaultsAccumulate DEF None, OneDelivery, Calm
<1>k. ASSUME UNCHANGED <<status, outbox, stream, givingUp, worker>> PROVE CalmOn(u)'
  BY <1>0, <1>k DEF CalmOn, Live, LiveOn, RunsOn, At
<1>w. ASSUME worker' = worker
      PROVE  \A w \in Worker, x \in Task :
                /\ LiveOn(w, x)' <=> LiveOn(w, x)
                /\ RunsOn(w, x)' /\ At(w, {"failing"})' <=> RunsOn(w, x) /\ At(w, {"failing"})
  BY <1>w DEF LiveOn, RunsOn, At
<1>1. ASSUME NEW t \in Task, Aside(t) PROVE CalmOn(u)'
  BY <1>1, <1>k, AsideEffect
<1>2. CASE Elsewhere
  BY <1>2, <1>k, ElsewhereEffect
<1>3. CASE Duplicates
  BY <1>0, <1>3, DuplicatesEffect
<1>4. ASSUME NEW t \in Task, Relabels(t) PROVE CalmOn(u)'
  <2>1. UNCHANGED <<outbox, stream, givingUp, worker>>
    BY <1>4, RelabelEffect
  <2>2. \/ status'[u] = status[u]
        \/ status[u] \in Active /\ status'[u] = "STOP_REQUESTED"
        \/ ~Live(u) /\ u \notin givingUp
           /\ \A w \in Worker : RunsOn(w, u) /\ At(w, {"failing"}) => status'[u] = "FAILED"
    <3>1. CASE u = t /\ status[t] \in Waiting \cup {"COMPLETED"}
      BY <1>0, <3>1, RestingHasNone DEF CalmOn, Waiting, Active
    <3>2. QED BY <1>4, <3>1, RelabelEffect
  <2>3. QED BY <1>0, <1>w, <2>1, <2>2, CalmKept
<1>5. CASE DeleteCommit
  <2>1. UNCHANGED <<outbox, stream, givingUp, worker>>
    BY <1>5, DeleteEffect DEF redis, callers
  <2>2. CASE u \in flagging
    <3>1. status'[u] = "STOP_REQUESTED"
      BY <1>5, <2>2, DeleteEffect
    <3>2. Live(u)' = Live(u)
      BY <1>w, <2>1 DEF Live
    <3>3. QED BY <1>0, <1>w, <2>1, <3>1, <3>2 DEF CalmOn, Active
  <2>3. CASE u \notin flagging
    <3>1. status'[u] = status[u]
      BY <1>5, <2>3, DeleteEffect
    <3>2. QED BY <1>0, <1>w, <2>1, <3>1, CalmKept
  <2>4. QED BY <2>2, <2>3
<1>6. ASSUME NEW t \in Task, Enqueues(t) PROVE CalmOn(u)'
  <2>1. UNCHANGED <<stream, givingUp, worker>>
    BY <1>6, EnqueueEffect
  <2>2. CASE u # t
    <3>1. outbox'[u] = outbox[u] /\ status'[u] = status[u]
      BY <1>6, <2>2, EnqueueEffect
    <3>2. QED BY <1>0, <1>w, <2>1, <3>1, CalmKept
  <2>3. CASE u = t
    <3>1. status[u] \in {"none", "WAITING_SELECTION", "COMPLETED"}
      BY <1>6, <2>3, EnqueueEffect DEF PendingSelection, PendingDiagnosis
    <3>2. \A w \in Worker : ~(RunsOn(w, u)' /\ At(w, {"failing"})')
      BY <1>0, <1>w, <2>1, <3>1 DEF CalmOn, Active
    <3>3. status'[u] = "QUEUED"
      BY <1>6, <2>3, EnqueueEffect
    <3>4. QED BY <3>2, <3>3 DEF CalmOn, Active
  <2>4. QED BY <2>2, <2>3
<1>7. ASSUME NEW t \in Task, NEW a \in outbox[t], Publish(t, a) \/ GiveUp(t, a) PROVE CalmOn(u)'
  <2>1. worker' = worker /\ status' = status
    BY <1>7 DEF Publish, GiveUp, redis
  <2>2. CASE u # t
    <3>1. outbox'[u] = outbox[u] /\ stream'[u] = stream[u] /\ (u \in givingUp' => u \in givingUp)
      BY <1>7, <2>2 DEF Publish, GiveUp, redis, callers, TypeOK
    <3>2. QED BY <1>0, <1>w, <2>1, <3>1, CalmKept
  <2>3. CASE u = t
    <3>1. Live(u)
      BY <1>7, <2>3 DEF Live
    <3>2. QED BY <1>0, <1>w, <2>1, <3>1 DEF CalmOn
  <2>4. QED BY <2>2, <2>3
<1>8. ASSUME NEW t \in Task, FailGivenUp(t) PROVE CalmOn(u)'
  <2>1. UNCHANGED <<outbox, stream, worker>> /\ givingUp' = givingUp \ {t}
    BY <1>8 DEF FailGivenUp, redis
  <2>2. CASE u # t
    <3>1. status'[u] = status[u]
      BY <1>8, <2>2, SetTaskEffect DEF FailGivenUp
    <3>2. QED BY <1>0, <1>w, <2>1, <3>1, CalmKept
  <2>3. CASE u = t
    <3>1. ~Live(u) /\ t \in givingUp
      BY <1>0, <1>8, <2>3 DEF OneToken, FailGivenUp
    <3>2. ~Live(u)' /\ u \notin givingUp'
      BY <1>w, <2>1, <2>3, <3>1 DEF Live
    <3>3. \A w \in Worker : ~(RunsOn(w, u)' /\ At(w, {"failing"})')
      BY <1>0, <1>w, <2>1, <2>3, <3>1 DEF CalmOn
    <3>4. QED BY <3>2, <3>3 DEF CalmOn
  <2>4. QED BY <2>2, <2>3
<1>9. CASE RelayCrash
  <2>1. UNCHANGED <<status, outbox, stream, worker>> /\ givingUp' = {}
    BY <1>9 DEF RelayCrash, redis, database
  <2>2. QED BY <1>0, <1>w, <2>1, CalmKept
<1>10. ASSUME NEW t \in Task, ClaimUnacked(t) PROVE CalmOn(u)'
  BY <1>0, <1>10 DEF ClaimUnacked, OneToken
<1>11. ASSUME NEW w \in Worker, NEW t \in Task, Take(w, t) PROVE CalmOn(u)'
  <2>1. UNCHANGED <<status, outbox, givingUp>> /\ stream[t] > 0
    BY <1>11 DEF Take, database, callers
  <2>2. /\ worker'[w].pc \in {"expired", "loading"} /\ worker'[w].task = t
        /\ worker[w].pc = "idle"
        /\ \A x \in Worker : x # w => worker'[x] = worker[x]
    BY <1>11 DEF Take, At, TypeOK
  <2>3. \A x \in Worker : RunsOn(x, u)' /\ At(x, {"failing"})' => RunsOn(x, u) /\ At(x, {"failing"})
    BY <2>2 DEF RunsOn, At
  <2>4. CASE u # t
    <3>1. stream'[u] = stream[u]
      BY <1>11, <2>4 DEF Take, TypeOK
    <3>2. \A x \in Worker : LiveOn(x, u)' => LiveOn(x, u)
      BY <2>2, <2>4 DEF LiveOn, RunsOn, At
    <3>3. QED BY <1>0, <2>1, <2>3, <3>1, <3>2, CalmKept
  <2>5. CASE u = t
    <3>1. Live(u)
      BY <2>1, <2>5 DEF Live
    <3>2. QED BY <1>0, <2>1, <2>3, <3>1 DEF CalmOn
  <2>6. QED BY <2>4, <2>5
<1>12. ASSUME NEW w \in Worker, Runs(w) PROVE CalmOn(u)'
  <2>1. ~Fault("publishError")
    BY PublishErrorNoted
  <2>2. QED BY <1>0, <1>12, <2>1, RunEffect, RanCalmly
<1>13. CASE UNCHANGED vars
  BY <1>13, <1>k DEF vars, redis, database, callers
<1>14. QED
  BY <1>1, <1>2, <1>3, <1>4, <1>5, <1>6, <1>7, <1>8, <1>9, <1>10, <1>11, <1>12, <1>13, StepCases

\* What a step may do to a task that has ended.
LEMMA EndedStep ==
  ASSUME TypeOK, Calm, [Next]_vars, None(Duplicating \cup {"publishError"}),
         NEW t \in Task, status[t] \in Ended
  PROVE  \/ status'[t] = status[t]
         \/ PendingDiagnosis(t) /\ diagnosis'[t] = "SELECTED"
         \/ DeleteCommit
<1>0. CalmOn(t) /\ status[t] \notin Active
  BY DEF Calm, Ended, Active
<1>1. ASSUME NEW u \in Task, Aside(u) PROVE status'[t] = status[t]
  BY <1>1, AsideEffect
<1>2. CASE Elsewhere
  BY <1>2, ElsewhereEffect
<1>3. CASE Duplicates
  BY <1>3 DEF Duplicates, PublishUnmarked, ClaimWaiting, WorkerCrash, database
<1>4. ASSUME NEW u \in Task, Relabels(u)
      PROVE  status'[t] = status[t] \/ (PendingDiagnosis(t) /\ diagnosis'[t] = "SELECTED")
  <2>1. CASE u # t
    BY <1>4, <2>1, RelabelEffect
  <2>2. CASE u = t
    <3>1. CancelDiagnosis(t)
      BY <1>0, <1>4, <2>2 DEF Relabels, StopWaiting, StopRequest, Ended, Waiting
    <3>2. QED BY <3>1 DEF CancelDiagnosis, ChoosableDiagnosis, TypeOK
  <2>3. QED BY <2>1, <2>2
<1>5. ASSUME NEW u \in Task, Enqueues(u)
      PROVE  status'[t] = status[t] \/ (PendingDiagnosis(t) /\ diagnosis'[t] = "SELECTED")
  <2>1. CASE u # t
    BY <1>5, <2>1, EnqueueEffect
  <2>2. CASE u = t
    <3>1. SelectDiagnosis(t)
      BY <1>5, <2>2 DEF Enqueues, Send, Fork, CreateTask, SelectEntity, PendingSelection, Ended
    <3>2. QED BY <3>1 DEF SelectDiagnosis, ChoosableDiagnosis, TypeOK
  <2>3. QED BY <2>1, <2>2
<1>6. ASSUME NEW u \in Task, NEW a \in outbox[u], Publish(u, a) \/ GiveUp(u, a) PROVE status'[t] = status[t]
  BY <1>6 DEF Publish, GiveUp
<1>7. ASSUME NEW u \in Task, FailGivenUp(u) PROVE status'[t] = status[t]
  BY <1>7, SetTaskEffect DEF FailGivenUp
<1>8. ASSUME NEW u \in Task, ClaimUnacked(u) PROVE status'[t] = status[t]
  BY <1>8 DEF ClaimUnacked, database
<1>9. ASSUME NEW w \in Worker, NEW u \in Task, Take(w, u) PROVE status'[t] = status[t]
  BY <1>9 DEF Take, database
<1>10. CASE RelayCrash
  BY <1>10 DEF RelayCrash, database
<1>11. ASSUME NEW w \in Worker, Runs(w) PROVE status'[t] = status[t]
  <2> DEFINE u == worker[w].task
  <2>1. PICK from, to, s :
          /\ Ran(w, u, from, to, s)
          /\ s = status[u] \/ from \in LivePcs \/ (from = "failing" /\ s = "FAILED")
    BY <1>11, RunEffect DEF RunTable, LivePcs
  <2>2. CASE u # t
    BY <2>1, <2>2 DEF Ran
  <2>3. CASE u = t
    <3>1. from \notin LivePcs
      BY <1>0, <2>1, <2>3 DEF CalmOn, Live, LiveOn, RunsOn, At, Ran
    <3>2. from = "failing" => status[t] = "FAILED"
      BY <1>0, <2>1, <2>3 DEF CalmOn, RunsOn, At, Ran
    <3>3. QED BY <2>1, <2>3, <3>1, <3>2 DEF Ran
  <2>4. QED BY <2>2, <2>3
<1>12. CASE UNCHANGED vars
  BY <1>12 DEF vars, database
<1>13. QED
  BY <1>1, <1>2, <1>3, <1>4, <1>5, <1>6, <1>7, <1>8, <1>9, <1>10, <1>11, <1>12, StepCases

(***************************************************************************)
(* Unless a fault duplicates a delivery, a task has one token: its outbox  *)
(* row, its entry in the stream or the slot that works on it. Unless an    *)
(* announcement fails too, a task with a token, or about to be failed by   *)
(* the relay, is under way, so that nobody writes to a task that has ended *)
(* or waits.                                                               *)
(***************************************************************************)
THEOREM DeliveredOnce == Spec => [](OneDelivery /\ Calm)
<1>1. Init => OneDelivery /\ Calm
  <2> SUFFICES ASSUME Init, NEW t \in Task PROVE OneToken(t) /\ CalmOn(t)
    BY DEF OneDelivery, Calm
  <2>1. ~Live(t) /\ outbox[t] = {} /\ stream[t] = 0 /\ unacked[t] = 0 /\ givingUp = {}
        /\ \A w \in Worker : worker[w].pc = "idle"
    BY DEF Init, Live, LiveOn, At, LivePcs, Idle
  <2>2. QED BY <2>1 DEF OneToken, CalmOn, LiveOn, At, LivePcs
<1>2. TypeOK /\ (OneDelivery /\ Calm) /\ [Next]_vars => (OneDelivery /\ Calm)'
  BY OneDeliveryStep, CalmStep
<1>3. QED BY <1>1, <1>2, TypeCorrect, PTL DEF Spec

(***************************************************************************)
(* An ended task changes only when its own pending diagnosis question is   *)
(* answered, or by delete(): the writes of GenerationWorker and of the     *)
(* relay that do not ask for the status find the task under way, because   *)
(* its one token is theirs.                                                *)
(***************************************************************************)
THEOREM EndedStaysEnded == Spec => EndedIsFinal
<1>1. TypeOK /\ Calm /\ [Next]_vars =>
        [None(Duplicating \cup {"publishError"}) => \A t \in Task : status[t] \in Ended =>
          \/ status'[t] = status[t]
          \/ PendingDiagnosis(t) /\ diagnosis'[t] = "SELECTED"
          \/ DeleteCommit]_vars
  BY EndedStep
<1>2. QED BY <1>1, TypeCorrect, DeliveredOnce, PTL DEF Spec, EndedIsFinal
=============================================================================
