-------------------------- MODULE GenerationLeases --------------------------
(***************************************************************************)
(* Theorems about the conversation's lease in Generation: who has it, who  *)
(* gives it back, and why no second turn can begin on a branch meanwhile.  *)
(* LeaseInv is inductive relative to the type invariant.  Its parts: a     *)
(* lease belongs to one task (LeasesOwned), a task not yet created has     *)
(* left no trace (NewIsUntouched), a slot's context is its task's          *)
(* (ContextsKept), a question's lease is on its way back                   *)
(* (QuestionsHoldNoLease), and whoever creates, resumes or runs a task has *)
(* the lease while whoever returns one has finished (LeaseIsHeld).         *)
(***************************************************************************)
EXTENDS GenerationProofs

\* The places that hold a lease for task t.
Holds(t, l) ==
    \/ submitting[t] = l \/ choosing[t].lease = l \/ context[t].lease = l
    \/ \E w \in Worker : RunsOn(w, t) /\ worker[w].context.lease = l

\* A lease is granted to one task and never granted again.
LeasesOwned ==
    /\ lock \in {NoLease, lastLease}
    /\ \A t \in Task, l \in Nat \ {NoLease} : Holds(t, l) =>
          l <= lastLease /\ \A u \in Task : Holds(u, l) => u = t

\* What a step that grants no lease does to the places: it copies leases within a task.
LeasesCopied ==
    /\ lastLease' = lastLease /\ lock' \in {lock, NoLease}
    /\ \A t \in Task :
        /\ submitting'[t] \in {submitting[t], NoLease}
        /\ choosing'[t].lease \in {choosing[t].lease, NoLease}
        /\ context'[t].lease \in {context[t].lease, NoLease, choosing[t].lease, submitting[t]}
    /\ \A w \in Worker :
        \/ worker'[w].context.lease = NoLease
        \/ worker'[w].task = worker[w].task /\ worker'[w].context = worker[w].context
        \/ \E t \in Task : worker'[w].task = t /\ worker'[w].context = context[t]

\* A release frees the lock or does nothing.
LEMMA FreedIs == \A l : Freed(l) \in {lock, NoLease}
BY DEF Freed

\* A slot releases its own lease only.
LEMMA RunLock ==
  ASSUME NEW w \in Worker, Runs(w)
  PROVE  lock' = lock \/ lock' = Freed(worker[w].context.lease)
BY DEF Runs, FailExpired, LoadStart, LoadStopped, LoadIgnored, Begin, Progress, FinishAnswered,
       FinishStopped, FinishFailed, PersistFinal, WaitForSelection, WaitForDiagnosis, ReleaseEarly, Announce,
       AnnounceError, RunError, FailTask, ReleaseRun, WorkerShutdown, redis

\* Requests, stops and choices that enqueue nothing copy leases within their task.
LEMMA AsideCopies ==
  ASSUME TypeOK, NEW t \in Task, Aside(t), ~SubmitAcquire(t), ~ChooseAcquire(t)
  PROVE  LeasesCopied
<1>0. worker' = worker
  BY AsideEffect
<1>1. CASE SubmitRefused(t) \/ SubmitCrash(t)
  BY <1>0, <1>1, FreedIs DEF SubmitRefused, SubmitCrash, LeasesCopied, redis, TypeOK, NoLease
<1>2. CASE StopFlag(t) \/ StopRelease(t) \/ StopCrash(t)
  BY <1>0, <1>2, FreedIs DEF StopFlag, StopRelease, StopCrash, LeasesCopied, redis, TypeOK
<1>3. CASE SelectAnnounced(t) \/ ChoiceRefused(t) \/ ChoiceCrash(t)
  <2>1. choosing'[t] = NotChoosing /\ \A u \in Task : u # t => choosing'[u] = choosing[u]
    BY <1>3 DEF SelectAnnounced, ChoiceRefused, ChoiceCrash, TypeOK
  <2>2. \A u \in Task : choosing'[u].lease \in {choosing[u].lease, NoLease}
    BY <2>1 DEF NotChoosing
  <2>3. UNCHANGED <<lastLease, submitting, context>> /\ lock' \in {lock, NoLease}
    BY <1>3, FreedIs DEF SelectAnnounced, ChoiceRefused, ChoiceCrash, redis
  <2>4. QED BY <1>0, <2>2, <2>3 DEF LeasesCopied
<1>4. CASE ChoiceRolledBack(t)
  <2>1. /\ choosing'[t] = [pc |-> "refused", lease |-> choosing[t].lease]
        /\ context'[t].lease = choosing[t].lease
        /\ \A u \in Task : u # t => choosing'[u] = choosing[u] /\ context'[u] = context[u]
    BY <1>4 DEF ChoiceRolledBack, ChoicePc, ResumeContext, TypeOK
  <2>2. UNCHANGED <<lock, lastLease, submitting>>
    BY <1>4 DEF ChoiceRolledBack
  <2>3. \A u \in Task : choosing'[u].lease = choosing[u].lease /\ context'[u].lease \in {context[u].lease, choosing[u].lease}
    BY <2>1
  <2>4. QED BY <1>0, <2>2, <2>3 DEF LeasesCopied
<1>5. CASE ExpireDiagnosis(t) \/ FlagDeleted(t)
  BY <1>0, <1>5 DEF ExpireDiagnosis, FlagDeleted, LeasesCopied, redis, callers
<1>6. CASE ExpireContext(t)
  BY <1>0, <1>6 DEF ExpireContext, NoContext, LeasesCopied, callers, TypeOK
<1>7. QED BY <1>1, <1>2, <1>3, <1>4, <1>5, <1>6 DEF Aside

\* So do those that enqueue it.
LEMMA EnqueueCopies ==
  ASSUME TypeOK, NEW t \in Task, Enqueues(t)
  PROVE  LeasesCopied
<1>0. UNCHANGED <<worker, lock, lastLease>>
  BY EnqueueEffect
<1>1. CASE Send(t) \/ Fork(t)
  <2>1. CreateTask(t)
    BY <1>1 DEF Send, Fork
  <2>2. \A u \in Task : submitting'[u] \in {submitting[u], NoLease}
    BY <2>1 DEF CreateTask, TypeOK
  <2>3. \A u \in Task : context'[u].lease \in {context[u].lease, submitting[u]}
    BY <2>1 DEF CreateTask, TypeOK
  <2>4. QED BY <1>0, <2>1, <2>2, <2>3 DEF CreateTask, LeasesCopied
<1>2. CASE SelectEntity(t) \/ SelectDiagnosis(t)
  <2>1. Requeue(t) /\ (ChoicePc(t, "announcing") \/ choosing' = [choosing EXCEPT ![t] = NotChoosing])
    BY <1>2 DEF SelectEntity, SelectDiagnosis
  <2>2. \A u \in Task : choosing'[u].lease \in {choosing[u].lease, NoLease}
    <3>1. choosing'[t].lease \in {choosing[t].lease, NoLease} /\ \A u \in Task : u # t => choosing'[u] = choosing[u]
      BY <2>1 DEF ChoicePc, NotChoosing, TypeOK
    <3>2. QED BY <3>1
  <2>3. /\ context'[t].lease = choosing[t].lease
        /\ \A u \in Task : u # t => context'[u] = context[u]
    BY <2>1 DEF Requeue, ResumeContext, TypeOK
  <2>4. QED BY <1>0, <2>1, <2>2, <2>3 DEF Requeue, LeasesCopied
<1>3. QED BY <1>1, <1>2 DEF Enqueues

\* A step grants a lease or copies leases within a task.
LEMMA StepCopies ==
  ASSUME TypeOK, [Next]_vars
  PROVE  LeasesCopied \/ \E t \in Task : SubmitAcquire(t) \/ ChooseAcquire(t)
<1>k. ASSUME UNCHANGED <<lock, lastLease, submitting, choosing, context, worker>> PROVE LeasesCopied
  BY <1>k DEF LeasesCopied
<1>1. ASSUME NEW t \in Task, Aside(t), ~SubmitAcquire(t), ~ChooseAcquire(t) PROVE LeasesCopied
  BY <1>1, AsideCopies
<1>2. CASE Elsewhere
  <2>1. lock' \in {lock, NoLease}
    BY <1>2 DEF Elsewhere, DeleteStart, DeleteCrash, ExpireLease, ActivateBranch, redis
  <2>2. QED BY <1>2, <2>1, ElsewhereEffect DEF LeasesCopied
<1>3. CASE Duplicates
  <2>1. ASSUME NEW w \in Worker, WorkerCrash(w) PROVE LeasesCopied
    <3>1. worker'[w] = Idle /\ \A x \in Worker : x # w => worker'[x] = worker[x]
      BY <2>1 DEF WorkerCrash, TypeOK
    <3>2. QED BY <2>1, <3>1 DEF WorkerCrash, LeasesCopied, callers, Idle, NoContext
  <2>2. QED BY <1>3, <1>k, <2>1 DEF Duplicates, PublishUnmarked, ClaimWaiting, callers
<1>4. ASSUME NEW t \in Task, Relabels(t) PROVE LeasesCopied
  <2>1. \A u \in Task : choosing'[u].lease = choosing[u].lease
    BY <1>4 DEF Relabels, StopWaiting, StopRequest, CancelDiagnosis, ChoicePc, TypeOK
  <2>2. QED BY <1>4, <2>1, RelabelEffect DEF LeasesCopied
<1>5. CASE DeleteCommit
  BY <1>5, <1>k DEF DeleteCommit, redis, callers
<1>6. ASSUME NEW t \in Task, Enqueues(t) PROVE LeasesCopied
  BY <1>6, EnqueueCopies
<1>7. ASSUME NEW t \in Task, NEW a \in outbox[t], Publish(t, a) \/ GiveUp(t, a) PROVE LeasesCopied
  BY <1>7, <1>k DEF Publish, GiveUp, redis, callers
<1>8. ASSUME NEW t \in Task, FailGivenUp(t) \/ ClaimUnacked(t) PROVE LeasesCopied
  BY <1>8, <1>k DEF FailGivenUp, ClaimUnacked, redis, callers
<1>9. CASE RelayCrash
  BY <1>9, <1>k DEF RelayCrash, redis
<1>10. ASSUME NEW w \in Worker, NEW t \in Task, Take(w, t) PROVE LeasesCopied
  <2>1. worker'[w].task = t /\ worker'[w].context = context[t] /\ \A x \in Worker : x # w => worker'[x] = worker[x]
    BY <1>10 DEF Take, TypeOK
  <2>2. QED BY <1>10, <2>1 DEF Take, LeasesCopied, callers
<1>11. ASSUME NEW w \in Worker, Runs(w) PROVE LeasesCopied
  <2>1. PICK from, to, s : Ran(w, worker[w].task, from, to, s)
    BY <1>11, RunEffect DEF RunTable
  <2>2. \A x \in Worker :
          \/ worker'[x].context.lease = NoLease
          \/ worker'[x].task = worker[x].task /\ worker'[x].context = worker[x].context
    BY <2>1 DEF Ran, Idle, NoContext
  <2>3. lock' \in {lock, NoLease}
    BY <1>11, RunLock, FreedIs
  <2>4. QED BY <2>1, <2>2, <2>3 DEF Ran, LeasesCopied
<1>12. CASE UNCHANGED vars
  BY <1>12, <1>k DEF vars, redis, callers
<1>13. QED
  BY <1>1, <1>2, <1>3, <1>4, <1>5, <1>6, <1>7, <1>8, <1>9, <1>10, <1>11, <1>12, StepCases

\* What a grant does.
LEMMA AcquireEffect ==
  ASSUME TypeOK, NEW t \in Task, SubmitAcquire(t) \/ ChooseAcquire(t)
  PROVE  /\ lock = NoLease /\ lastLease' = lastLease + 1 /\ lock' = lastLease'
         /\ UNCHANGED <<context, worker>>
         /\ \/ UNCHANGED choosing /\ submitting'[t] = lastLease'
               /\ \A u \in Task : u # t => submitting'[u] = submitting[u]
            \/ UNCHANGED submitting /\ choosing'[t] = [pc |-> "acquired", lease |-> lastLease']
               /\ \A u \in Task : u # t => choosing'[u] = choosing[u]
BY DEF SubmitAcquire, ChooseAcquire, AcquireLease, TypeOK

\* No step gives a lease to a second task.
LEMMA LeasesOwnedStep == TypeOK /\ LeasesOwned /\ [Next]_vars => LeasesOwned'
<1> SUFFICES ASSUME TypeOK, LeasesOwned, [Next]_vars PROVE LeasesOwned'
  OBVIOUS
<1>1. CASE LeasesCopied
  <2>1. ASSUME NEW t \in Task, NEW l \in Nat \ {NoLease}, Holds(t, l)' PROVE Holds(t, l)
    <3>1. CASE \E w \in Worker : worker'[w].task = t /\ worker'[w].context.lease = l
      <4>1. PICK w \in Worker : worker'[w].task = t /\ worker'[w].context.lease = l
        BY <3>1
      <4>2. (worker[w].task = t /\ worker[w].context.lease = l) \/ context[t].lease = l
        BY <1>1, <4>1 DEF LeasesCopied
      <4>3. QED BY <4>2 DEF Holds, RunsOn
    <3>2. QED BY <1>1, <2>1, <3>1 DEF LeasesCopied, Holds, RunsOn
  <2>2. lock' \in {NoLease, lastLease'}
    BY <1>1 DEF LeasesCopied, LeasesOwned
  <2>3. QED BY <1>1, <2>1, <2>2 DEF LeasesCopied, LeasesOwned
<1>2. ASSUME NEW t \in Task, SubmitAcquire(t) \/ ChooseAcquire(t) PROVE LeasesOwned'
  <2>1. ASSUME NEW u \in Task, NEW l \in Nat \ {NoLease}, Holds(u, l)'
        PROVE  Holds(u, l) \/ (u = t /\ l = lastLease')
    BY <1>2, <2>1, AcquireEffect DEF Holds, RunsOn
  <2>2. lastLease \in Nat /\ lastLease' = lastLease + 1 /\ lock' = lastLease'
    BY <1>2, AcquireEffect DEF TypeOK
  <2>3. \A u \in Task : ~Holds(u, lastLease')
    BY <2>2 DEF LeasesOwned, NoLease
  <2>4. QED BY <2>1, <2>2, <2>3 DEF LeasesOwned
<1>3. QED BY <1>1, <1>2, StepCopies

-----------------------------------------------------------------------------
\* A task that is not created yet has left no trace.
Untouched(t) ==
    /\ status[t] = "none" =>
        /\ context[t] = NoContext /\ choosing[t] = NotChoosing /\ stopping[t] = "idle"
        /\ outbox[t] = {} /\ stream[t] = 0 /\ unacked[t] = 0 /\ t \notin givingUp /\ t \notin flagging
        /\ active # t /\ \A u \in Task : branch[u] # t
        /\ \A w \in Worker : ~RunsOn(w, t)
    /\ submitting[t] # NoLease => status[t] = "none"
    /\ status[t] = "WAITING_SELECTION" => selection[t] = "PENDING"

NewIsUntouched == \A t \in Task : Untouched(t)

\* None of these leaves a trace of a task not created yet.
LEMMA AsideUntouched ==
  ASSUME TypeOK, NewIsUntouched, NEW t \in Task, Aside(t), NEW u \in Task
  PROVE  Untouched(u)'
<1>0. Untouched(u) /\ UNCHANGED <<status, outbox, stream, unacked, givingUp, worker, branch, active, selection>>
  BY AsideEffect DEF NewIsUntouched
<1>1. CASE SubmitAcquire(t)
  BY <1>0, <1>1 DEF SubmitAcquire, Untouched, RunsOn, TypeOK
<1>2. CASE SubmitRefused(t) \/ SubmitCrash(t)
  BY <1>0, <1>2 DEF SubmitRefused, SubmitCrash, Untouched, RunsOn, TypeOK, redis
<1>3. CASE StopFlag(t) \/ StopRelease(t) \/ StopCrash(t)
  BY <1>0, <1>3 DEF StopFlag, StopRelease, StopCrash, Untouched, RunsOn, TypeOK, redis
<1>4. CASE ChooseAcquire(t)
  BY <1>0, <1>4 DEF ChooseAcquire, PendingSelection, PendingDiagnosis, Untouched, RunsOn, TypeOK
<1>5. CASE SelectAnnounced(t) \/ ChoiceRefused(t) \/ ChoiceCrash(t)
  BY <1>0, <1>5 DEF SelectAnnounced, ChoiceRefused, ChoiceCrash, Untouched, RunsOn, TypeOK, redis
<1>6. CASE ChoiceRolledBack(t)
  <2>1. \A x \in Task : x # t => choosing'[x] = choosing[x] /\ context'[x] = context[x]
    BY <1>6 DEF ChoiceRolledBack, ChoicePc, TypeOK
  <2>2. status[t] # "none" /\ UNCHANGED <<submitting, stopping, flagging>>
    BY <1>6 DEF ChoiceRolledBack, PendingSelection, ChoosableDiagnosis, PendingDiagnosis
  <2>3. QED BY <1>0, <2>1, <2>2 DEF Untouched, RunsOn
<1>7. CASE ExpireDiagnosis(t) \/ FlagDeleted(t) \/ ExpireContext(t)
  BY <1>0, <1>7 DEF ExpireDiagnosis, FlagDeleted, ExpireContext, Untouched, RunsOn, TypeOK, redis, callers
<1>8. QED BY <1>1, <1>2, <1>3, <1>4, <1>5, <1>6, <1>7 DEF Aside

\* A turn that is created is created as a whole.
LEMMA EnqueueUntouched ==
  ASSUME TypeOK, NewIsUntouched, NEW t \in Task, Enqueues(t), NEW u \in Task
  PROVE  Untouched(u)'
<1>0. Untouched(u) /\ UNCHANGED <<stream, unacked, givingUp, worker, stopping, flagging>>
  BY EnqueueEffect DEF NewIsUntouched
<1>1. CASE u = t
  <2>1. status'[u] = "QUEUED"
    BY <1>1, EnqueueEffect
  <2>2. submitting'[u] = NoLease
    <3>1. CASE Send(t) \/ Fork(t)
      BY <1>1, <3>1 DEF Send, Fork, CreateTask, TypeOK
    <3>2. CASE SelectEntity(t) \/ SelectDiagnosis(t)
      BY <1>0, <1>1, <3>2 DEF SelectEntity, SelectDiagnosis, Requeue, PendingSelection,
                               ChoosableDiagnosis, PendingDiagnosis, Untouched
    <3>3. QED BY <3>1, <3>2 DEF Enqueues
  <2>3. QED BY <2>1, <2>2 DEF Untouched
<1>2. CASE u # t
  <2>1. status'[u] = status[u] /\ outbox'[u] = outbox[u] /\ context'[u] = context[u]
    BY <1>2, EnqueueEffect
  <2>2. submitting'[u] = submitting[u] /\ choosing'[u] = choosing[u]
    BY <1>2 DEF Enqueues, Send, Fork, CreateTask, SelectEntity, SelectDiagnosis, Requeue, ChoicePc, TypeOK
  <2>3. selection'[u] = selection[u]
    BY <1>2 DEF Enqueues, Send, Fork, CreateTask, SelectEntity, SelectDiagnosis, TypeOK
  <2>4. status[u] = "none" => active' # u /\ \A x \in Task : branch'[x] # u
    BY <1>0, <1>2 DEF Enqueues, Send, Fork, CreateTask, BranchOff, SelectEntity, SelectDiagnosis, Requeue, Untouched, TypeOK
  <2>5. QED BY <1>0, <2>1, <2>2, <2>3, <2>4 DEF Untouched, RunsOn
<1>3. QED BY <1>1, <1>2

\* A run makes a selection pending together with its task.
LEMMA RunSelects ==
  ASSUME TypeOK, NEW w \in Worker, Runs(w), NEW u \in Task
  PROVE  \/ selection'[u] = selection[u]
         \/ selection'[u] = "PENDING" /\ status'[u] = "WAITING_SELECTION"
<1>1. CASE WaitForSelection(w)
  <2>1. worker[w].task \in Task
    BY <1>1, WorkerEffect DEF WaitForSelection, At
  <2>2. QED BY <1>1, <2>1 DEF WaitForSelection, SetTask, TypeOK
<1>2. QED
  BY <1>1 DEF Runs, FailExpired, LoadStart, LoadStopped, LoadIgnored, Begin, Progress, FinishAnswered,
       FinishStopped, FinishFailed, PersistFinal, WaitForDiagnosis, ReleaseEarly, Announce,
       AnnounceError, RunError, FailTask, ReleaseRun, WorkerShutdown, database

\* A run that makes its task wait for a selection makes the selection pending.
LEMMA RunWaits ==
  ASSUME TypeOK, NEW w \in Worker, Runs(w), NEW u \in Task,
         status'[u] = "WAITING_SELECTION", status[u] # "WAITING_SELECTION"
  PROVE  selection'[u] = "PENDING"
<1>0. worker[w].task \in Task /\ ~At(w, {"idle"})
  BY RunBusy
<1>1. CASE WaitForSelection(w)
  BY <1>0, <1>1 DEF WaitForSelection, SetTask, TypeOK
<1>2. CASE FinishAnswered(w)
  BY <1>0, <1>2 DEF FinishAnswered, PersistFinal, SetTask, TypeOK
<1>3. CASE Progress(w)
  BY <1>0, <1>3 DEF Progress, SetTask, TypeOK
<1>4. CASE WaitForDiagnosis(w)
  BY <1>0, <1>4 DEF WaitForDiagnosis, SetTask, TypeOK
<1>5. CASE FinishStopped(w) \/ FinishFailed(w)
  BY <1>0, <1>5 DEF FinishStopped, FinishFailed, PersistFinal, SetTask, TypeOK
<1>6. CASE FailExpired(w) \/ LoadStart(w) \/ LoadStopped(w) \/ Begin(w) \/ FailTask(w)
  BY <1>0, <1>6 DEF FailExpired, LoadStart, LoadStopped, Begin, FailTask, SetTask, TypeOK
<1>7. QED
  BY <1>0, <1>1, <1>2, <1>3, <1>4, <1>5, <1>6
     DEF Runs, LoadIgnored, ReleaseEarly, Announce, AnnounceError, RunError, ReleaseRun, WorkerShutdown, database

\* No step leaves a trace of a task that is not created yet.
LEMMA UntouchedStep == TypeOK /\ NewIsUntouched /\ [Next]_vars => NewIsUntouched'
<1> SUFFICES ASSUME TypeOK, NewIsUntouched, [Next]_vars, NEW u \in Task PROVE Untouched(u)'
  BY DEF NewIsUntouched
<1>0. Untouched(u)
  BY DEF NewIsUntouched
<1>k. ASSUME UNCHANGED <<context, choosing, stopping, submitting, givingUp, flagging, active, branch, worker,
                         selection>>,
             status'[u] = status[u], outbox'[u] = outbox[u] \/ outbox'[u] \subseteq outbox[u],
             status[u] = "none" => stream'[u] = stream[u] /\ unacked'[u] = unacked[u]
      PROVE  Untouched(u)'
  BY <1>0, <1>k DEF Untouched, RunsOn
<1>1. ASSUME NEW t \in Task, Aside(t) PROVE Untouched(u)'
  BY <1>1, AsideUntouched
<1>2. CASE Elsewhere
  <2>1. UNCHANGED <<status, outbox, stream, unacked, givingUp, worker, context, choosing,
                    submitting, stopping, branch, selection>>
    BY <1>2, ElsewhereEffect
  <2>2. status[u] = "none" => u \notin flagging'
    BY <1>0, <1>2 DEF Elsewhere, DeleteStart, DeleteCrash, ExpireLease, ActivateBranch, callers, Untouched,
                      Active, Waiting
  <2>3. status[u] = "none" => active' # u
    BY <1>0, <1>2, GenerationAssumption
       DEF Elsewhere, DeleteStart, DeleteCrash, ExpireLease, ActivateBranch, database, Untouched
  <2>4. QED BY <1>0, <2>1, <2>2, <2>3 DEF Untouched, RunsOn
<1>3. CASE Duplicates
  <2>1. ASSUME NEW w \in Worker, WorkerCrash(w) PROVE Untouched(u)'
    <3>1. worker'[w] = Idle /\ (\A x \in Worker : x # w => worker'[x] = worker[x]) /\ worker[w].task \in Task
      BY <2>1 DEF WorkerCrash, TypeOK
    <3>2. \A x \in Worker : RunsOn(x, u)' => RunsOn(x, u)
      BY <3>1, GenerationAssumption DEF RunsOn, Idle
    <3>3. status[u] = "none" => unacked'[u] = unacked[u]
      BY <1>0, <2>1 DEF WorkerCrash, Untouched, RunsOn, TypeOK
    <3>4. QED BY <1>0, <2>1, <3>2, <3>3 DEF WorkerCrash, Untouched, callers, database
  <2>2. ASSUME NEW t \in Task, NEW a \in outbox[t], PublishUnmarked(t, a) PROVE Untouched(u)'
    <3>1. u = t => status[u] # "none"
      BY <1>0, <2>2 DEF Untouched
    <3>2. QED BY <1>k, <2>2, <3>1 DEF PublishUnmarked, callers, database, TypeOK
  <2>3. ASSUME NEW t \in Task, ClaimWaiting(t) PROVE Untouched(u)'
    <3>1. u = t => status[u] # "none"
      BY <1>0, <2>3 DEF Untouched, ClaimWaiting
    <3>2. QED BY <1>k, <2>3, <3>1 DEF ClaimWaiting, callers, database, TypeOK
  <2>4. QED BY <1>3, <2>1, <2>2, <2>3 DEF Duplicates
<1>4. ASSUME NEW t \in Task, Relabels(t) PROVE Untouched(u)'
  <2>1. UNCHANGED <<outbox, stream, unacked, givingUp, worker, context, submitting, flagging, branch, active>>
    BY <1>4, RelabelEffect
  <2>2. u = t => status[u] # "none" /\ status'[u] \in {"STOP_REQUESTED", "STOPPED"}
    BY <1>4, RelabelEffect DEF Active, Waiting
  <2>3. u # t => status'[u] = status[u] /\ choosing'[u] = choosing[u] /\ stopping'[u] = stopping[u]
                 /\ selection'[u] = selection[u]
    <3>1. CASE StopWaiting(t) \/ StopRequest(t)
      BY <1>4, <3>1, RelabelEffect DEF StopWaiting, StopRequest, TypeOK
    <3>2. CASE CancelDiagnosis(t)
      BY <1>4, <3>2, RelabelEffect DEF CancelDiagnosis, ChoicePc, TypeOK
    <3>3. QED BY <1>4, <3>1, <3>2 DEF Relabels
  <2>4. QED BY <1>0, <2>1, <2>2, <2>3 DEF Untouched, RunsOn
<1>5. CASE DeleteCommit
  <2>1. status'[u] = IF u \in flagging THEN "STOP_REQUESTED" ELSE status[u]
    BY <1>5, DeleteEffect
  <2>2. QED BY <1>0, <1>5, <2>1, DeleteEffect DEF Untouched, RunsOn, redis, callers
<1>6. ASSUME NEW t \in Task, Enqueues(t) PROVE Untouched(u)'
  BY <1>6, EnqueueUntouched
<1>7. ASSUME NEW t \in Task, NEW a \in outbox[t], Publish(t, a) \/ GiveUp(t, a) PROVE Untouched(u)'
  <2>1. u = t => status[u] # "none"
    BY <1>0, <1>7 DEF Untouched
  <2>2. CASE Publish(t, a)
    BY <1>k, <2>1, <2>2 DEF Publish, callers, TypeOK
  <2>3. CASE GiveUp(t, a)
    <3>1. UNCHANGED <<status, stream, unacked, worker, context, submitting, choosing, stopping, flagging, branch, active, selection>>
          /\ givingUp' = givingUp \cup {t} /\ (u # t => outbox'[u] = outbox[u])
      BY <2>3 DEF GiveUp, redis, TypeOK
    <3>2. QED BY <1>0, <2>1, <3>1 DEF Untouched, RunsOn
  <2>4. QED BY <1>7, <2>2, <2>3
<1>8. ASSUME NEW t \in Task, FailGivenUp(t) PROVE Untouched(u)'
  <2>1. t \in givingUp /\ givingUp' = givingUp \ {t}
        /\ UNCHANGED <<outbox, stream, unacked, worker, context, submitting, choosing, stopping, flagging,
                       branch, active, selection>>
    BY <1>8 DEF FailGivenUp, redis
  <2>2. status'[u] = status[u] \/ (u = t /\ status'[u] = "FAILED")
    BY <1>8, SetTaskEffect DEF FailGivenUp
  <2>3. u = t => status[u] # "none"
    BY <1>0, <2>1 DEF Untouched
  <2>4. QED BY <1>0, <2>1, <2>2, <2>3 DEF Untouched, RunsOn
<1>9. ASSUME NEW t \in Task, ClaimUnacked(t) PROVE Untouched(u)'
  <2>1. u = t => status[u] # "none"
    BY <1>0, <1>9 DEF Untouched, ClaimUnacked
  <2>2. QED BY <1>k, <1>9, <2>1 DEF ClaimUnacked, callers, database, TypeOK
<1>10. CASE RelayCrash
  BY <1>0, <1>10 DEF RelayCrash, Untouched, RunsOn, redis, database
<1>11. ASSUME NEW w \in Worker, NEW t \in Task, Take(w, t) PROVE Untouched(u)'
  <2>1. UNCHANGED <<status, outbox, givingUp, unacked, context, submitting, choosing, stopping, flagging, branch, active, selection>>
        /\ stream[t] > 0
    BY <1>11 DEF Take, database, callers
  <2>2. worker'[w].task = t /\ \A x \in Worker : x # w => worker'[x] = worker[x]
    BY <1>11 DEF Take, TypeOK
  <2>3. u = t => status[u] # "none"
    BY <1>0, <2>1 DEF Untouched
  <2>4. u # t => stream'[u] = stream[u]
    BY <1>11 DEF Take, TypeOK
  <2>5. QED BY <1>0, <2>1, <2>2, <2>3, <2>4 DEF Untouched, RunsOn
<1>12. ASSUME NEW w \in Worker, Runs(w) PROVE Untouched(u)'
  <2> DEFINE t == worker[w].task
  <2>1. PICK from, to, s : Ran(w, t, from, to, s)
    BY <1>12, RunEffect DEF RunTable
  <2>2. RunsOn(w, t) /\ t \in Task
    BY <2>1 DEF Ran, RunsOn
  <2>3. \A x \in Worker : RunsOn(x, u)' => RunsOn(x, u)
    BY <2>1, GenerationAssumption DEF Ran, RunsOn, Idle
  <2>4. s # "none"
    <3>1. status[t] # "none"
      BY <2>2 DEF NewIsUntouched, Untouched
    <3>2. \E x : Ran(w, t, worker[w].pc, x, s) /\ s # "none"
      <4>1. \E f, x, r : Ran(w, t, f, x, r) /\ r # "none"
        BY <1>12, <3>1, RunEffect DEF RunTable
      <4>2. QED BY <2>1, <4>1 DEF Ran
    <3>3. QED BY <3>2
  <2>5. status'[u] = status[u] \/ (u = t /\ status'[u] = s)
    BY <2>1 DEF Ran
  <2>6. u = t => status[u] # "none"
    BY <1>0, <2>2 DEF Untouched
  <2>7. status'[u] = "WAITING_SELECTION" => selection'[u] = "PENDING"
    BY <1>0, <1>12, RunSelects, RunWaits DEF Untouched
  <2>8. UNCHANGED <<outbox, stream, unacked, givingUp, submitting, choosing, stopping, flagging, context, branch, active>>
    BY <2>1 DEF Ran
  <2>9. QED BY <1>0, <2>3, <2>4, <2>5, <2>6, <2>7, <2>8 DEF Untouched
<1>13. CASE UNCHANGED vars
  BY <1>13, <1>k DEF vars, redis, database, callers
<1>14. QED
  BY <1>1, <1>2, <1>3, <1>4, <1>5, <1>6, <1>7, <1>8, <1>9, <1>10, <1>11, <1>12, <1>13, StepCases

SlotsRest == \A w \in Worker : At(w, {"idle"}) => worker[w] = Idle

\* The context a slot has read is the task's context, unless that has expired since.
ContextKept(t) ==
    \A w \in Worker : LiveOn(w, t) =>
        \/ context[t] = worker[w].context
        \/ context[t] = NoContext /\ ~None({"contextExpiry"})
ContextsKept == None(Duplicating) => \A t \in Task : ContextKept(t)

\* A fault's kind is recorded.
LEMMA FaultNoted ==
  ASSUME TypeOK, NEW kind, Fault(kind), NEW kinds, kind \in kinds PROVE ~None(kinds)'
BY DEF Fault, None, TypeOK

\* Who changes a slot, and how.
SlotChanged(w) ==
    \/ worker'[w] = worker[w] \/ worker'[w] = Idle
    \/ worker'[w].task = worker[w].task /\ worker'[w].context = worker[w].context
       /\ (worker'[w].pc \in LivePcs => worker[w].pc \in LivePcs) /\ worker'[w].pc # "idle"

\* A slot goes on with what it has, becomes idle, or takes a delivery.
LEMMA SlotEffect ==
  ASSUME TypeOK, [Next]_vars, NEW w \in Worker
  PROVE  SlotChanged(w) \/ \E t \in Task : Take(w, t)
<1>k. ASSUME worker' = worker PROVE SlotChanged(w)
  BY <1>k DEF SlotChanged
<1>1. ASSUME NEW t \in Task, Aside(t) PROVE SlotChanged(w)
  BY <1>1, <1>k, AsideEffect
<1>2. CASE Elsewhere
  BY <1>2, <1>k, ElsewhereEffect
<1>3. CASE Duplicates
  <2>1. ASSUME NEW v \in Worker, WorkerCrash(v) PROVE SlotChanged(w)
    BY <2>1 DEF WorkerCrash, SlotChanged, TypeOK
  <2>2. QED BY <1>3, <1>k, <2>1 DEF Duplicates, PublishUnmarked, ClaimWaiting
<1>4. ASSUME NEW t \in Task, Relabels(t) PROVE SlotChanged(w)
  BY <1>4, <1>k, RelabelEffect
<1>5. CASE DeleteCommit \/ RelayCrash
  BY <1>5, <1>k DEF DeleteCommit, RelayCrash
<1>6. ASSUME NEW t \in Task, Enqueues(t) PROVE SlotChanged(w)
  BY <1>6, <1>k, EnqueueEffect
<1>7. ASSUME NEW t \in Task, NEW a \in outbox[t], Publish(t, a) \/ GiveUp(t, a) PROVE SlotChanged(w)
  BY <1>7, <1>k DEF Publish, GiveUp
<1>8. ASSUME NEW t \in Task, FailGivenUp(t) \/ ClaimUnacked(t) PROVE SlotChanged(w)
  BY <1>8, <1>k DEF FailGivenUp, ClaimUnacked
<1>9. ASSUME NEW v \in Worker, NEW t \in Task, Take(v, t) PROVE SlotChanged(w) \/ Take(w, t)
  BY <1>9 DEF Take, SlotChanged, TypeOK
<1>10. ASSUME NEW v \in Worker, Runs(v) PROVE SlotChanged(w)
  <2>1. PICK from, to, s : Ran(v, worker[v].task, from, to, s) /\ (to \in LivePcs => from \in LivePcs)
    BY <1>10, RunEffect DEF RunTable, LivePcs
  <2>2. QED BY <2>1 DEF Ran, SlotChanged
<1>11. CASE UNCHANGED vars
  BY <1>11, <1>k DEF vars
<1>12. QED
  BY <1>1, <1>2, <1>3, <1>4, <1>5, <1>6, <1>7, <1>8, <1>9, <1>10, <1>11, StepCases

\* What taking a delivery does.
LEMMA TakeEffect ==
  ASSUME TypeOK, NEW w \in Worker, NEW t \in Task, Take(w, t)
  PROVE  /\ worker[w].pc = "idle" /\ worker'[w].pc \in {"expired", "loading"}
         /\ worker'[w].task = t /\ worker'[w].context = context[t]
         /\ \A x \in Worker : x # w => worker'[x] = worker[x]
         /\ stream[t] > 0 /\ stream'[t] = stream[t] - 1 /\ \A u \in Task : u # t => stream'[u] = stream[u]
         /\ UNCHANGED <<lock, lastLease, context, cancelled, unacked, database, callers, faults>>
BY DEF Take, At, TypeOK

\* An idle slot has nothing.
LEMMA SlotsRestStep == TypeOK /\ SlotsRest /\ [Next]_vars => SlotsRest'
BY SlotEffect, TakeEffect DEF SlotsRest, SlotChanged, At

\* Only a task at rest gets a new context.
LEMMA ContextEffect ==
  ASSUME TypeOK, [Next]_vars, NEW u \in Task
  PROVE  \/ context'[u] = context[u]
         \/ status[u] = "none" \/ PendingSelection(u) \/ PendingDiagnosis(u)
         \/ Fault("contextExpiry") /\ context'[u] = NoContext
<1>1. ASSUME NEW t \in Task, Aside(t), context'[u] # context[u]
      PROVE  \/ PendingSelection(u) \/ PendingDiagnosis(u)
             \/ Fault("contextExpiry") /\ context'[u] = NoContext
  <2>1. CASE ChoiceRolledBack(t)
    BY <1>1, <2>1 DEF ChoiceRolledBack, ChoosableDiagnosis, TypeOK
  <2>2. CASE ExpireContext(t)
    BY <1>1, <2>2 DEF ExpireContext, TypeOK
  <2>3. QED BY <1>1, <2>1, <2>2 DEF Aside, SubmitAcquire, SubmitRefused, SubmitCrash, StopFlag, StopRelease,
         StopCrash, ChooseAcquire, SelectAnnounced, ChoiceRefused, ChoiceCrash, ExpireDiagnosis, FlagDeleted, redis
<1>2. CASE Elsewhere
  BY <1>2, ElsewhereEffect
<1>3. CASE Duplicates
  BY <1>3 DEF Duplicates, PublishUnmarked, ClaimWaiting, WorkerCrash
<1>4. ASSUME NEW t \in Task, Relabels(t) PROVE context' = context
  BY <1>4, RelabelEffect
<1>5. CASE DeleteCommit \/ RelayCrash
  BY <1>5 DEF DeleteCommit, RelayCrash, redis
<1>6. ASSUME NEW t \in Task, Enqueues(t), context'[u] # context[u]
      PROVE  status[u] = "none" \/ PendingSelection(u) \/ PendingDiagnosis(u)
  BY <1>6, EnqueueEffect
<1>7. ASSUME NEW t \in Task, NEW a \in outbox[t], Publish(t, a) \/ GiveUp(t, a) PROVE context' = context
  BY <1>7 DEF Publish, GiveUp, redis
<1>8. ASSUME NEW t \in Task, FailGivenUp(t) \/ ClaimUnacked(t) PROVE context' = context
  BY <1>8 DEF FailGivenUp, ClaimUnacked, redis
<1>9. ASSUME NEW w \in Worker, NEW t \in Task, Take(w, t) PROVE context' = context
  BY <1>9, TakeEffect
<1>10. ASSUME NEW w \in Worker, Runs(w) PROVE context' = context
  BY <1>10, RunEffect DEF RunTable, Ran
<1>11. CASE UNCHANGED vars
  BY <1>11 DEF vars, redis
<1>12. QED
  BY <1>1, <1>2, <1>3, <1>4, <1>5, <1>6, <1>7, <1>8, <1>9, <1>10, <1>11, StepCases

\* A task with a slot at work on it gets no new context.
LEMMA ContextsKeptStep == TypeOK /\ OneDelivery /\ ContextsKept /\ [Next]_vars => ContextsKept'
<1> SUFFICES ASSUME TypeOK, OneDelivery, ContextsKept, [Next]_vars, None(Duplicating)',
                    NEW u \in Task, NEW w \in Worker, LiveOn(w, u)'
             PROVE  \/ context'[u] = worker'[w].context
                    \/ context'[u] = NoContext /\ ~None({"contextExpiry"})'
  BY DEF ContextsKept, ContextKept
<1>0. ContextKept(u) /\ OneToken(u)
  BY FaultsAccumulate DEF None, ContextsKept, OneDelivery
<1>1. ~None({"contextExpiry"}) => ~None({"contextExpiry"})'
  BY FaultsAccumulate DEF None
<1>2. ASSUME NEW t \in Task, Take(w, t) PROVE context'[u] = worker'[w].context
  BY <1>2, TakeEffect DEF LiveOn, RunsOn
<1>3. CASE SlotChanged(w)
  <2>1. LiveOn(w, u) /\ worker'[w].context = worker[w].context
    BY <1>3 DEF SlotChanged, LiveOn, RunsOn, At, Idle, LivePcs
  <2>2. status[u] \in Active \cup {"FAILED"}
    BY <1>0, <2>1 DEF OneToken, Live
  <2>3. ~(status[u] = "none" \/ PendingSelection(u) \/ PendingDiagnosis(u))
    BY <2>2 DEF PendingSelection, PendingDiagnosis, Active
  <2>4. CASE context'[u] = context[u]
    BY <1>0, <1>1, <2>1, <2>4 DEF ContextKept
  <2>5. CASE Fault("contextExpiry") /\ context'[u] = NoContext
    BY <2>5, FaultNoted
  <2>6. QED BY <2>3, <2>4, <2>5, ContextEffect
<1>4. QED BY <1>2, <1>3, SlotEffect

-----------------------------------------------------------------------------
(* A question holds no lease.                                               *)

Asks(t) == status[t] \in Waiting \/ PendingDiagnosis(t)
OnLease(w, t, l) == RunsOn(w, t) /\ worker[w].context.lease = l

\* A question's lease is on its way back: a refused choice or the slot that asked returns it.
AskedFreely(t) ==
    Asks(t) /\ lock # NoLease /\ lock = context[t].lease =>
        \/ choosing[t].pc = "refused" /\ choosing[t].lease = lock
        \/ \E w \in Worker : OnLease(w, t, lock)
QuestionsHoldNoLease == None(Duplicating \cup {"apiCrash"}) => \A t \in Task : AskedFreely(t)

\* What a step may do without keeping a question's lease.
LEMMA AskedKept ==
  ASSUME NEW t, AskedFreely(t), lock' \in {lock, NoLease},
         context'[t] \in {context[t], NoContext}, Asks(t)' => Asks(t),
         lock' # NoLease /\ choosing[t].pc = "refused" /\ choosing[t].lease = lock =>
            choosing'[t].pc = "refused" /\ choosing'[t].lease = lock,
         lock' # NoLease => \A w \in Worker : OnLease(w, t, lock) => OnLease(w, t, lock)'
  PROVE  AskedFreely(t)'
BY DEF AskedFreely, NoContext

\* A slot that leaves returns its lease, unless it had only read its delivery.
LEMMA RunReleases ==
  ASSUME TypeOK, NEW w \in Worker, Runs(w)
  PROVE  /\ worker'[w] = Idle => \/ lock' = Freed(worker[w].context.lease)
                                 \/ At(w, {"loading", "expired"})
         /\ lock' # lock => At(w, {"confirming", "releasing"}) \/ Fault("workerShutdown")
<1>1. ASSUME NEW pc, Goto(w, pc) PROVE worker'[w].pc = pc
  BY <1>1, RunBusy DEF Goto, TypeOK
<1>2. CASE FailExpired(w)
  BY <1>2 DEF FailExpired, At, redis
<1>3. CASE LoadStart(w) \/ LoadStopped(w) \/ LoadIgnored(w)
  BY <1>3 DEF LoadStart, LoadStopped, LoadIgnored, At, redis
<1>4. CASE Begin(w) \/ Announce(w) \/ AnnounceError(w) \/ RunError(w) \/ FailTask(w)
  BY <1>1, <1>4 DEF Begin, Announce, AnnounceError, RunError, FailTask, At, redis, Idle
<1>5. CASE Progress(w)
  BY <1>5 DEF Progress, At, redis, Idle
<1>6. CASE FinishAnswered(w) \/ FinishStopped(w) \/ FinishFailed(w)
  BY <1>1, <1>6 DEF FinishAnswered, FinishStopped, FinishFailed, PersistFinal, At, redis, Idle
<1>7. CASE WaitForSelection(w) \/ WaitForDiagnosis(w)
  BY <1>1, <1>7 DEF WaitForSelection, WaitForDiagnosis, At, redis, Idle
<1>8. CASE ReleaseEarly(w)
  BY <1>1, <1>8 DEF ReleaseEarly, At, Idle
<1>9. CASE ReleaseRun(w)
  BY <1>9 DEF ReleaseRun, At, Idle
<1>10. CASE WorkerShutdown(w)
  BY <1>10 DEF WorkerShutdown, At, Idle
<1>11. QED
  BY <1>2, <1>3, <1>4, <1>5, <1>6, <1>7, <1>8, <1>9, <1>10 DEF Runs

\* A run asks for a diagnosis for its own task only.
LEMMA RunDiagnoses ==
  ASSUME TypeOK, NEW w \in Worker, Runs(w), NEW u \in Task, diagnosis'[u] # diagnosis[u]
  PROVE  LiveOn(w, u)
<1>1. WaitForDiagnosis(w)
  BY DEF Runs, FailExpired, LoadStart, LoadStopped, LoadIgnored, Begin, Progress, FinishAnswered,
         FinishStopped, FinishFailed, PersistFinal, WaitForSelection, ReleaseEarly, Announce,
         AnnounceError, RunError, FailTask, ReleaseRun, WorkerShutdown, database
<1>2. QED BY <1>1 DEF WaitForDiagnosis, LiveOn, RunsOn, At, LivePcs, TypeOK

\* A step of a slot makes a question of the task it runs only, and leaves with its lease.
LEMMA RunAsks ==
  ASSUME TypeOK, NEW w \in Worker, Runs(w), NEW u \in Task,
         OneToken(u), ContextKept(u), AskedFreely(u), OneToken(u)'
  PROVE  AskedFreely(u)'
<1> DEFINE t == worker[w].task
<1>1. PICK from, to, s :
        /\ Ran(w, t, from, to, s)
        /\ \/ s = status[t] \/ s = "FAILED" \/ from \in LivePcs
        /\ to = "idle" => s = status[t] \/ s = "FAILED"
  BY RunEffect DEF RunTable, LivePcs
<1>2. lock' \in {lock, NoLease} /\ context' = context /\ choosing' = choosing
  BY <1>1, RunLock, FreedIs DEF Ran
<1>3. CASE u # t
  <2>1. diagnosis'[u] = diagnosis[u] /\ status'[u] = status[u]
    BY <1>1, <1>3, RunDiagnoses DEF Ran, LiveOn, RunsOn
  <2>2. \A x \in Worker, l \in {lock} : OnLease(x, u, l) => OnLease(x, u, l)'
    BY <1>1, <1>3 DEF Ran, OnLease, RunsOn
  <2>3. QED BY <1>2, <2>1, <2>2, AskedKept DEF Asks, PendingDiagnosis, OnLease, RunsOn
<1>4. CASE u = t /\ from \in LivePcs
  <2>1. LiveOn(w, u) /\ status[u] \in Active \cup {"FAILED"}
    BY <1>1, <1>4 DEF Ran, LiveOn, RunsOn, At, OneToken, Live
  <2>2. context[u] = worker[w].context \/ context[u] = NoContext
    BY <2>1 DEF ContextKept
  <2>3. CASE to = "idle"
    <3>1. ~Asks(u)'
      BY <1>1, <1>4, <2>1, <2>3 DEF Ran, Asks, PendingDiagnosis, Active, Waiting
    <3>2. QED BY <3>1 DEF AskedFreely
  <2>4. CASE to # "idle"
    <3>1. RunsOn(w, u)' /\ worker'[w].context = worker[w].context
      BY <1>1, <1>4, <2>4 DEF Ran, RunsOn
    <3>2. QED BY <1>2, <2>2, <3>1 DEF AskedFreely, OnLease, NoContext
  <2>5. QED BY <2>3, <2>4
<1>5. CASE u = t /\ from \notin LivePcs
  <2>1. diagnosis'[u] = diagnosis[u]
    BY <1>1, <1>5, RunDiagnoses DEF Ran, LiveOn, At
  <2>2. Asks(u)' => Asks(u)
    BY <1>1, <1>5, <2>1 DEF Ran, Asks, PendingDiagnosis, Waiting
  <2>3. ASSUME lock' # NoLease, NEW x \in Worker, OnLease(x, u, lock) PROVE OnLease(x, u, lock)'
    <3>1. lock' = lock
      BY <1>2, <2>3
    <3>2. CASE x # w
      BY <1>1, <2>3, <3>1, <3>2 DEF Ran, OnLease, RunsOn
    <3>3. CASE x = w /\ to # "idle"
      BY <1>1, <2>3, <3>1, <3>3 DEF Ran, OnLease, RunsOn
    <3>4. CASE x = w /\ to = "idle"
      <4>1. lock' = Freed(lock)
        BY <1>1, <1>5, <2>3, <3>4, RunReleases DEF Ran, OnLease, At, LivePcs
      <4>2. QED BY <2>3, <4>1 DEF Freed
    <3>5. QED BY <3>2, <3>3, <3>4
  <2>4. QED BY <1>2, <2>2, <2>3, AskedKept
<1>6. QED BY <1>3, <1>4, <1>5

\* Requests, stops and choices return the lease of a question.
LEMMA AsideAsks ==
  ASSUME TypeOK, LeasesOwned, NEW t \in Task, Aside(t), NEW u \in Task, AskedFreely(u),
         None({"apiCrash"})'
  PROVE  AskedFreely(u)'
<1>0. UNCHANGED <<status, worker>> /\ \A l : \A w \in Worker : OnLease(w, u, l)' <=> OnLease(w, u, l)'
  BY AsideEffect
<1>1. CASE SubmitAcquire(t) \/ ChooseAcquire(t)
  <2>1. lock' = lastLease + 1 /\ context' = context
    BY <1>1, AcquireEffect
  <2>2. context[u].lease # NoLease => context[u].lease <= lastLease
    BY DEF LeasesOwned, Holds, TypeOK
  <2>3. context[u].lease \in Nat /\ lastLease \in Nat
    BY DEF TypeOK
  <2>4. context'[u].lease # lock'
    BY <2>1, <2>2, <2>3 DEF NoLease
  <2>5. QED BY <2>4 DEF AskedFreely
<1>f. ASSUME NEW kind, Fault(kind) PROVE kind # "apiCrash"
  BY <1>f, FaultNoted
<1>k. ASSUME lock' \in {lock, NoLease}, context'[u] \in {context[u], NoContext},
             diagnosis'[u] = diagnosis[u] \/ diagnosis'[u] # "PENDING",
             lock' # NoLease /\ choosing[u].pc = "refused" /\ choosing[u].lease = lock =>
                choosing'[u].pc = "refused" /\ choosing'[u].lease = lock
      PROVE  AskedFreely(u)'
  <2>1. Asks(u)' => Asks(u)
    BY <1>0, <1>k DEF Asks, PendingDiagnosis
  <2>2. lock' # NoLease => \A w \in Worker : OnLease(w, u, lock) => OnLease(w, u, lock)'
    BY <1>0, <1>k DEF OnLease, RunsOn
  <2>3. QED BY <1>k, <2>1, <2>2, AskedKept
<1>2. CASE SubmitRefused(t) \/ SubmitCrash(t)
  BY <1>2, <1>k, FreedIs DEF SubmitRefused, SubmitCrash, redis, database
<1>3. CASE StopFlag(t) \/ StopRelease(t) \/ StopCrash(t)
  BY <1>3, <1>k, FreedIs DEF StopFlag, StopRelease, StopCrash, redis, database
<1>4. CASE SelectAnnounced(t)
  <2>1. choosing[t].pc = "announcing" /\ (u # t => choosing'[u] = choosing[u])
        /\ lock' \in {lock, NoLease} /\ context' = context /\ diagnosis' = diagnosis
    BY <1>4, FreedIs DEF SelectAnnounced, database, TypeOK
  <2>2. QED BY <1>k, <2>1
<1>5. CASE ChoiceRefused(t)
  <2>1. (u # t => choosing'[u] = choosing[u]) /\ lock' = Freed(choosing[t].lease)
        /\ context' = context /\ diagnosis' = diagnosis
    BY <1>5 DEF ChoiceRefused, database, TypeOK
  <2>2. lock' \in {lock, NoLease} /\ (lock = choosing[t].lease => lock' = NoLease)
    BY <2>1 DEF Freed
  <2>3. QED BY <1>k, <2>1, <2>2
<1>6. CASE ChoiceRolledBack(t)
  <2>1. /\ choosing'[t] = [pc |-> "refused", lease |-> choosing[t].lease]
        /\ context'[t].lease = choosing[t].lease
        /\ u # t => choosing'[u] = choosing[u] /\ context'[u] = context[u]
        /\ lock' = lock /\ diagnosis' = diagnosis
    BY <1>6 DEF ChoiceRolledBack, ChoicePc, ResumeContext, TypeOK, database
  <2>2. CASE u = t
    BY <2>1, <2>2 DEF AskedFreely
  <2>3. CASE u # t
    BY <1>k, <2>1, <2>3
  <2>4. QED BY <2>2, <2>3
<1>7. CASE ChoiceCrash(t)
  BY <1>7, <1>f DEF ChoiceCrash
<1>8. CASE ExpireDiagnosis(t)
  BY <1>8, <1>k DEF ExpireDiagnosis, redis, callers, TypeOK
<1>9. CASE FlagDeleted(t)
  BY <1>9, <1>k DEF FlagDeleted, database
<1>10. CASE ExpireContext(t)
  BY <1>10, <1>k DEF ExpireContext, database, callers, TypeOK
<1>11. QED
  BY <1>1, <1>2, <1>3, <1>4, <1>5, <1>6, <1>7, <1>8, <1>9, <1>10 DEF Aside

\* No step leaves a lease with a question.
LEMMA QuestionsStep ==
  TypeOK /\ SlotsRest /\ OneDelivery /\ ContextsKept /\ LeasesOwned /\ QuestionsHoldNoLease /\ [Next]_vars
    => QuestionsHoldNoLease'
<1> SUFFICES ASSUME TypeOK, SlotsRest, OneDelivery, ContextsKept, LeasesOwned, QuestionsHoldNoLease,
                    [Next]_vars, None(Duplicating \cup {"apiCrash"})', NEW u \in Task
             PROVE  AskedFreely(u)'
  BY DEF QuestionsHoldNoLease
<1>0. /\ OneToken(u) /\ ContextKept(u) /\ AskedFreely(u)
      /\ None(Duplicating)' /\ None({"apiCrash"})' /\ OneToken(u)'
  <2>1. None(Duplicating) /\ None(Duplicating \cup {"apiCrash"}) /\ None(Duplicating)' /\ None({"apiCrash"})'
    BY FaultsAccumulate DEF None
  <2>2. OneToken(u)'
    BY <2>1, OneDeliveryStep DEF OneDelivery
  <2>3. QED BY <2>1, <2>2 DEF OneDelivery, ContextsKept, QuestionsHoldNoLease
<1>k. ASSUME UNCHANGED <<worker, lock>>, context'[u] = context[u], Asks(u)' => Asks(u), choosing'[u] = choosing[u]
      PROVE  AskedFreely(u)'
  <2>1. \A w \in Worker : OnLease(w, u, lock) => OnLease(w, u, lock)'
    BY <1>k DEF OnLease, RunsOn
  <2>2. QED BY <1>0, <1>k, <2>1, AskedKept
<1>1. ASSUME NEW t \in Task, Aside(t) PROVE AskedFreely(u)'
  BY <1>0, <1>1, AsideAsks
<1>2. CASE Elsewhere
  <2>1. UNCHANGED <<status, diagnosis, worker, context, choosing>> /\ lock' \in {lock, NoLease}
    BY <1>2, ElsewhereEffect DEF Elsewhere, DeleteStart, DeleteCrash, ExpireLease, ActivateBranch, redis
  <2>2. lock' # NoLease => \A w \in Worker : OnLease(w, u, lock) => OnLease(w, u, lock)'
    BY <2>1 DEF OnLease, RunsOn
  <2>3. QED BY <1>0, <2>1, <2>2, AskedKept DEF Asks, PendingDiagnosis
<1>3. CASE Duplicates
  BY <1>0, <1>3, DuplicatesEffect
<1>4. ASSUME NEW t \in Task, Relabels(t) PROVE AskedFreely(u)'
  <2>1. CASE u = t
    <3>1. ~Asks(u)'
      BY <1>4, <2>1, RelabelEffect DEF Asks, PendingDiagnosis, Waiting
    <3>2. QED BY <3>1 DEF AskedFreely
  <2>2. CASE u # t
    <3>1. status'[u] = status[u] /\ UNCHANGED <<worker, lock, context>>
      BY <1>4, <2>2, RelabelEffect
    <3>2. diagnosis'[u] = diagnosis[u] /\ choosing'[u] = choosing[u]
      <4>1. CASE StopWaiting(t) \/ StopRequest(t)
        BY <4>1 DEF StopWaiting, StopRequest
      <4>2. CASE CancelDiagnosis(t)
        BY <2>2, <4>2 DEF CancelDiagnosis, ChoicePc, TypeOK
      <4>3. QED BY <1>4, <4>1, <4>2 DEF Relabels
    <3>3. QED BY <1>k, <3>1, <3>2 DEF Asks, PendingDiagnosis
  <2>3. QED BY <2>1, <2>2
<1>5. CASE DeleteCommit
  <2>1. UNCHANGED <<diagnosis, worker, lock, context, choosing>>
    BY <1>5, DeleteEffect DEF redis, callers
  <2>2. Asks(u)' => Asks(u)
    BY <1>5, <2>1, DeleteEffect DEF Asks, PendingDiagnosis, Waiting
  <2>3. QED BY <1>k, <2>1, <2>2
<1>6. ASSUME NEW t \in Task, Enqueues(t) PROVE AskedFreely(u)'
  <2>1. CASE u = t
    <3>1. ~Asks(u)'
      BY <1>6, <2>1, EnqueueEffect DEF Asks, PendingDiagnosis, Waiting
    <3>2. QED BY <3>1 DEF AskedFreely
  <2>2. CASE u # t
    <3>1. status'[u] = status[u] /\ UNCHANGED <<worker, lock>> /\ context'[u] = context[u]
      BY <1>6, <2>2, EnqueueEffect
    <3>2. choosing'[u] = choosing[u]
      BY <1>6, <2>2 DEF Enqueues, Send, Fork, CreateTask, SelectEntity, SelectDiagnosis, Requeue, ChoicePc, TypeOK
    <3>3. diagnosis'[u] = diagnosis[u] \/ diagnosis'[u] # "PENDING"
      BY <1>6, <2>2 DEF Enqueues, Send, Fork, SelectEntity, SelectDiagnosis, TypeOK
    <3>4. QED BY <1>k, <3>1, <3>2, <3>3 DEF Asks, PendingDiagnosis
  <2>3. QED BY <2>1, <2>2
<1>7. ASSUME NEW t \in Task, NEW a \in outbox[t], Publish(t, a) \/ GiveUp(t, a) PROVE AskedFreely(u)'
  BY <1>7, <1>k DEF Publish, GiveUp, redis, callers, Asks, PendingDiagnosis
<1>8. ASSUME NEW t \in Task, FailGivenUp(t) PROVE AskedFreely(u)'
  <2>1. UNCHANGED <<worker, lock, context, choosing, diagnosis>>
    BY <1>8 DEF FailGivenUp, redis
  <2>2. status'[u] = status[u] \/ status'[u] = "FAILED"
    BY <1>8, SetTaskEffect DEF FailGivenUp
  <2>3. QED BY <1>k, <2>1, <2>2 DEF Asks, PendingDiagnosis, Waiting
<1>9. ASSUME NEW t \in Task, ClaimUnacked(t) PROVE AskedFreely(u)'
  BY <1>9, <1>k DEF ClaimUnacked, database, callers, Asks, PendingDiagnosis
<1>10. CASE RelayCrash
  BY <1>10, <1>k DEF RelayCrash, redis, database, Asks, PendingDiagnosis
<1>11. ASSUME NEW w \in Worker, NEW t \in Task, Take(w, t) PROVE AskedFreely(u)'
  <2>1. UNCHANGED <<status, diagnosis, lock, context, choosing>> /\ worker[w] = Idle
        /\ \A x \in Worker : x # w => worker'[x] = worker[x]
    BY <1>11, TakeEffect DEF SlotsRest, At, database, callers
  <2>2. \A x \in Worker : OnLease(x, u, lock) => OnLease(x, u, lock)'
    BY <2>1, GenerationAssumption DEF OnLease, RunsOn, Idle
  <2>3. QED BY <1>0, <2>1, <2>2, AskedKept DEF Asks, PendingDiagnosis
<1>12. ASSUME NEW w \in Worker, Runs(w) PROVE AskedFreely(u)'
  BY <1>0, <1>12, RunAsks
<1>13. CASE UNCHANGED vars
  BY <1>13, <1>k DEF vars, redis, database, callers, Asks, PendingDiagnosis
<1>14. QED
  BY <1>1, <1>2, <1>3, <1>4, <1>5, <1>6, <1>7, <1>8, <1>9, <1>10, <1>11, <1>12, <1>13, StepCases

\* Something stands for the task, or its row says that it is under way.
Underway(t) == Live(t) \/ (status[t] \in Active /\ conversation # "DELETED")
Holding == LivePcs \cup {"failing"}
Choosing(t) == choosing[t].pc \in {"acquired", "refused"}
Releasing(t) == stopping[t] \in {"stopped", "releasing"}
Halted(t) == status[t] = "STOPPED" /\ ~Live(t) /\ ~(Locked /\ t \in flagging)

\* Whoever creates, resumes or runs the task has the lease; whoever returns it has finished.
HasLease(t) ==
    /\ submitting[t] # NoLease => lock = submitting[t]
    /\ choosing[t].pc = "acquired" =>
        /\ lock = choosing[t].lease /\ lock # NoLease /\ context[t].lease # lock
        /\ \A w \in Worker : ~OnLease(w, t, lock)
    /\ Choosing(t) => ~Underway(t)
    /\ Releasing(t) => Halted(t)
    /\ Underway(t) =>
        /\ lock = context[t].lease /\ lock # NoLease
        /\ \A w \in Worker : OnLease(w, t, lock) => At(w, Holding)
LeaseIsHeld == None(LeaseLoss) => \A t \in Task : HasLease(t)

Wants(t) == submitting[t] # NoLease \/ choosing[t].pc = "acquired" \/ Underway(t)

\* What a step may do without taking a task's lease from it.
LEMMA HasLeaseKept ==
  ASSUME NEW t, HasLease(t), Wants(t) => lock' = lock,
         submitting'[t] \in {submitting[t], NoLease},
         \/ choosing'[t] = choosing[t]
         \/ choosing'[t].pc \notin {"acquired", "refused"}
         \/ choosing'[t].pc = "refused" /\ choosing[t].pc = "acquired",
         context'[t] = context[t] \/ (~Underway(t) /\ choosing'[t].pc # "acquired"),
         Underway(t)' => Underway(t),
         Releasing(t)' => Releasing(t) /\ (Halted(t) => Halted(t)'),
         Wants(t) => \A w \in Worker : OnLease(w, t, lock)' =>
            \/ context[t].lease = lock /\ At(w, Holding)'
            \/ OnLease(w, t, lock) /\ (At(w, Holding)' \/ ~At(w, Holding) \/ ~Underway(t)')
  PROVE  HasLease(t)'
<1>1. submitting'[t] # NoLease => lock' = submitting'[t]
  BY DEF HasLease, Wants
<1>2. choosing'[t].pc = "acquired" =>
        /\ lock' = choosing'[t].lease /\ lock' # NoLease /\ context'[t].lease # lock'
        /\ \A w \in Worker : ~OnLease(w, t, lock)'
  <2> HAVE choosing'[t].pc = "acquired"
  <2>1. choosing'[t] = choosing[t] /\ lock' = lock
    BY DEF Wants
  <2>2. context'[t].lease # lock'
    BY <2>1 DEF HasLease
  <2>3. \A w \in Worker : ~OnLease(w, t, lock)'
    BY <2>1 DEF HasLease, Wants
  <2>4. QED BY <2>1, <2>2, <2>3 DEF HasLease
<1>3. Choosing(t)' => ~Underway(t)'
  BY DEF HasLease, Choosing
<1>4. Releasing(t)' => Halted(t)'
  BY DEF HasLease
<1>5. Underway(t)' =>
        /\ lock' = context'[t].lease /\ lock' # NoLease
        /\ \A w \in Worker : OnLease(w, t, lock)' => At(w, Holding)'
  BY DEF HasLease, Wants
<1>6. QED BY <1>1, <1>2, <1>3, <1>4, <1>5 DEF HasLease

\* What another task's holder returns is not the lease a task wants.
LEMMA OthersRelease ==
  ASSUME TypeOK, LeasesOwned, NEW u \in Task, HasLease(u), Wants(u), NEW t \in Task, t # u,
         NEW l \in Nat, l # NoLease => Holds(t, l)
  PROVE  Freed(l) = lock
<1>1. lock # NoLease /\ Holds(u, lock) /\ lock \in Nat
  BY DEF Wants, HasLease, Holds, TypeOK
<1>2. CASE l = NoLease
  BY <1>1, <1>2 DEF Freed
<1>3. CASE l # NoLease
  <2>1. l # lock
    BY <1>1, <1>3 DEF LeasesOwned
  <2>2. QED BY <2>1 DEF Freed
<1>4. QED BY <1>2, <1>3

\* The same for a step that moves no slot and creates no delivery.
LEMMA HasLeaseStays ==
  ASSUME NEW t, HasLease(t), Wants(t) => lock' = lock, worker' = worker,
         submitting'[t] \in {submitting[t], NoLease},
         \/ choosing'[t] = choosing[t]
         \/ choosing'[t].pc \notin {"acquired", "refused"}
         \/ choosing'[t].pc = "refused" /\ choosing[t].pc = "acquired",
         context'[t] = context[t] \/ (~Underway(t) /\ choosing'[t].pc # "acquired"),
         Underway(t)' => Underway(t),
         Releasing(t)' => Releasing(t) /\ (Halted(t) => Halted(t)')
  PROVE  HasLease(t)'
<1>1. Wants(t) => \A w \in Worker : OnLease(w, t, lock)' =>
            OnLease(w, t, lock) /\ (At(w, Holding)' \/ ~At(w, Holding))
  BY DEF OnLease, RunsOn, At
<1>2. QED BY <1>1, HasLeaseKept

\* A task's token depends on these variables only.
LEMMA StillLive ==
  ASSUME worker' = worker, outbox' = outbox, stream' = stream, NEW t
  PROVE  Live(t)' = Live(t)
BY DEF Live, LiveOn, RunsOn, At

\* What holds wherever no lease can have been lost.
Steady ==
    /\ TypeOK /\ SlotsRest /\ LeasesOwned /\ NewIsUntouched
    /\ \A t \in Task : OneToken(t) /\ CalmOn(t) /\ ContextKept(t) /\ HasLease(t)

\* A task that is not active is not under way.
LEMMA RestingIsNotUnderway ==
  ASSUME Steady, NEW t \in Task,
         status[t] \in {"none", "WAITING_SELECTION", "WAITING_INPUT", "COMPLETED", "STOPPED", "FAILED"}
  PROVE  ~Underway(t) /\ ~Live(t)
BY DEF Steady, CalmOn, Underway, Active

\* A lease is granted only where nobody wants one.
LEMMA AcquireKeepsLease ==
  ASSUME Steady, NEW t \in Task, SubmitAcquire(t) \/ ChooseAcquire(t), NEW u \in Task
  PROVE  HasLease(u)'
<1>0. TypeOK /\ HasLease(u) /\ UNCHANGED <<status, outbox, stream, worker>>
  BY AsideEffect DEF Steady, Aside
<1>1. /\ lock = NoLease /\ lastLease' = lastLease + 1 /\ lock' = lastLease' /\ context' = context
      /\ \/ UNCHANGED choosing /\ submitting'[t] = lastLease'
               /\ \A x \in Task : x # t => submitting'[x] = submitting[x]
         \/ UNCHANGED submitting /\ choosing'[t] = [pc |-> "acquired", lease |-> lastLease']
               /\ \A x \in Task : x # t => choosing'[x] = choosing[x]
  BY <1>0, AcquireEffect
<1>2. ~Wants(u)
  BY <1>0, <1>1 DEF HasLease, Wants
<1>3. Live(u)' = Live(u) /\ UNCHANGED <<conversation, flagging, stopping>>
  BY <1>0, StillLive DEF SubmitAcquire, ChooseAcquire, database
<1>4. Underway(u)' = Underway(u) /\ Halted(u)' = Halted(u)
  BY <1>0, <1>3 DEF Underway, Halted, Locked
<1>5. CASE u # t
  <2>1. submitting'[u] = submitting[u] /\ choosing'[u] = choosing[u]
    BY <1>1, <1>5
  <2>2. Releasing(u)' = Releasing(u)
    BY <1>3 DEF Releasing
  <2>3. QED BY <1>0, <1>1, <1>2, <1>4, <2>1, <2>2, HasLeaseStays
<1>6. CASE u = t
  <2>1. \A l \in Nat \ {NoLease} : Holds(u, l) => l # lock'
    BY <1>0, <1>1 DEF Steady, LeasesOwned, TypeOK
  <2>2. lock' \in Nat \ {NoLease}
    BY <1>0, <1>1 DEF TypeOK, NoLease
  <2>3. context'[u].lease # lock' /\ \A w \in Worker : ~OnLease(w, u, lock)'
    BY <1>0, <1>1, <2>1, <2>2 DEF Holds, OnLease, RunsOn
  <2>4. Choosing(u)' => ~Underway(u)
    <3>1. CASE SubmitAcquire(t)
      BY <1>2, <1>6 DEF Wants
    <3>2. CASE ChooseAcquire(t)
      BY <1>2 DEF Wants
    <3>3. QED BY <3>1, <3>2
  <2>5. Releasing(u)' => Halted(u)'
    BY <1>0, <1>3, <1>4 DEF HasLease, Releasing
  <2>6. submitting'[u] # NoLease => lock' = submitting'[u]
    BY <1>1, <1>2, <1>6 DEF Wants
  <2>7. choosing'[u].pc = "acquired" => lock' = choosing'[u].lease
    BY <1>1, <1>2, <1>6 DEF Wants
  <2>8. QED BY <1>2, <1>4, <2>2, <2>3, <2>4, <2>5, <2>6, <2>7 DEF HasLease, Wants
<1>7. QED BY <1>5, <1>6

\* Refused submissions, stops and choices return their own lease only.
LEMMA AsideKeepsLease ==
  ASSUME Steady, NEW t \in Task, Aside(t), NEW u \in Task, None(LeaseLoss)'
  PROVE  HasLease(u)'
<1>0. TypeOK /\ LeasesOwned /\ HasLease(u) /\ Untouched(t) /\ HasLease(t)
      /\ UNCHANGED <<status, outbox, stream, worker>>
  BY AsideEffect DEF Steady, NewIsUntouched
<1>1. UNCHANGED conversation /\ (u \in flagging' => u \in flagging)
  BY DEF Aside, SubmitAcquire, SubmitRefused, SubmitCrash, StopFlag, StopRelease, StopCrash,
       ChooseAcquire, SelectAnnounced, ChoiceRefused, ChoiceRolledBack, ChoiceCrash,
       ExpireDiagnosis, FlagDeleted, ExpireContext, database, callers
<1>2. Live(u)' = Live(u) /\ Underway(u)' = Underway(u) /\ (Halted(u) => Halted(u)')
  BY <1>0, <1>1, StillLive DEF Underway, Halted, Locked
<1>f. ASSUME NEW kind \in LeaseLoss, Fault(kind) PROVE FALSE
  BY <1>0, <1>f, FaultNoted
<1>h. Holds(t, submitting[t]) /\ Holds(t, choosing[t].lease) /\ Holds(t, context[t].lease)
      /\ submitting[t] \in Nat /\ choosing[t].lease \in Nat /\ context[t].lease \in Nat
  BY <1>0 DEF Holds, TypeOK
<1>r. u # t => \A l \in {submitting[t], choosing[t].lease, context[t].lease} : Wants(u) => Freed(l) = lock
  BY <1>0, <1>h, OthersRelease
<1>3. CASE SubmitAcquire(t) \/ ChooseAcquire(t)
  BY <1>3, AcquireKeepsLease
<1>4. CASE SubmitRefused(t) \/ SubmitCrash(t)
  <2>1. /\ submitting'[t] = NoLease /\ (u # t => submitting'[u] = submitting[u])
        /\ lock' \in {lock, Freed(submitting[t])} /\ submitting[t] # NoLease
        /\ UNCHANGED <<context, choosing, stopping>>
    BY <1>0, <1>4 DEF SubmitRefused, SubmitCrash, redis, TypeOK
  <2>2. CASE u # t
    BY <1>0, <1>2, <1>r, <2>1, <2>2, HasLeaseStays DEF Releasing
  <2>3. CASE u = t
    <3>1. status[t] = "none" /\ choosing[t].pc = "idle" /\ stopping[t] = "idle"
      BY <1>0, <2>1 DEF Untouched, NotChoosing
    <3>2. ~Underway(t)
      BY <3>1, RestingIsNotUnderway
    <3>3. QED BY <1>2, <2>1, <2>3, <3>1, <3>2 DEF HasLease, Choosing, Releasing
  <2>4. QED BY <2>2, <2>3
<1>5. CASE StopFlag(t) \/ StopCrash(t)
  BY <1>0, <1>2, <1>5, HasLeaseStays DEF StopFlag, StopCrash, Releasing, redis, TypeOK
<1>6. CASE StopRelease(t)
  <2>1. /\ lock' \in {lock, Freed(context[t].lease)} /\ UNCHANGED <<context, choosing, submitting>>
        /\ Releasing(t) /\ (Releasing(u)' => Releasing(u))
    BY <1>0, <1>6 DEF StopRelease, Releasing, TypeOK
  <2>2. CASE u # t
    BY <1>0, <1>2, <1>r, <2>1, <2>2, HasLeaseStays
  <2>3. CASE u = t
    <3>1. status[t] = "STOPPED"
      BY <1>0, <2>1 DEF HasLease, Halted
    <3>2. ~Underway(t) /\ submitting[t] = NoLease
      BY <1>0, <3>1, RestingIsNotUnderway DEF Untouched
    <3>3. Wants(t) => context[t].lease # lock
      BY <1>0, <3>2 DEF Wants, HasLease
    <3>4. Wants(t) => lock' = lock
      BY <2>1, <3>3 DEF Freed
    <3>5. QED BY <1>0, <1>2, <2>1, <2>3, <3>4, HasLeaseStays
  <2>4. QED BY <2>2, <2>3
<1>7. CASE SelectAnnounced(t) \/ ChoiceCrash(t)
  <2>1. lock' = lock /\ UNCHANGED <<context, stopping, submitting>>
    BY <1>7, <1>f DEF SelectAnnounced, ChoiceCrash, LeaseLoss, redis
  <2>2. choosing'[u] = choosing[u] \/ choosing'[u].pc = "idle"
    BY <1>0, <1>7 DEF SelectAnnounced, ChoiceCrash, NotChoosing, TypeOK
  <2>3. QED BY <1>0, <1>2, <2>1, <2>2, HasLeaseStays DEF Releasing
<1>8. CASE ChoiceRefused(t)
  <2>1. /\ lock' = Freed(choosing[t].lease) /\ UNCHANGED <<context, stopping, submitting>>
        /\ choosing'[t] = NotChoosing /\ (u # t => choosing'[u] = choosing[u]) /\ Choosing(t)
    BY <1>0, <1>8 DEF ChoiceRefused, Choosing, TypeOK
  <2>2. CASE u # t
    BY <1>0, <1>2, <1>r, <2>1, <2>2, HasLeaseStays DEF Releasing
  <2>3. CASE u = t
    <3>1. ~Underway(t) /\ submitting[t] = NoLease
      BY <1>0, <2>1 DEF HasLease, Untouched, Choosing, NotChoosing
    <3>2. Releasing(t)' => Halted(t)'
      BY <1>0, <1>2, <2>1, <2>3 DEF HasLease, Releasing
    <3>3. QED BY <1>2, <2>1, <2>3, <3>1, <3>2 DEF HasLease, Choosing, NotChoosing
  <2>4. QED BY <2>2, <2>3
<1>9. CASE ChoiceRolledBack(t)
  <2>1. /\ UNCHANGED <<lock, stopping, submitting>> /\ choosing[t].pc = "acquired"
        /\ choosing'[t].pc = "refused" /\ (u # t => choosing'[u] = choosing[u] /\ context'[u] = context[u])
    BY <1>0, <1>9 DEF ChoiceRolledBack, ChoicePc, TypeOK
  <2>2. ~Underway(t)
    BY <1>0, <2>1 DEF HasLease, Choosing
  <2>3. QED BY <1>0, <1>2, <2>1, <2>2, HasLeaseStays DEF Releasing
<1>10. CASE ExpireDiagnosis(t) \/ FlagDeleted(t)
  BY <1>0, <1>2, <1>10, HasLeaseStays DEF ExpireDiagnosis, FlagDeleted, Releasing, redis, callers
<1>11. CASE ExpireContext(t)
  BY <1>11, <1>f DEF ExpireContext, LeaseLoss
<1>12. QED
  BY <1>3, <1>4, <1>5, <1>6, <1>7, <1>8, <1>9, <1>10, <1>11 DEF Aside

\* delete(), a dying relay and a change of branch return no lease.
LEMMA ElsewhereKeepsLease ==
  ASSUME Steady, Elsewhere \/ DeleteCommit \/ RelayCrash, NEW u \in Task, None(LeaseLoss)'
  PROVE  HasLease(u)'
<1>0. TypeOK /\ HasLease(u)
  BY DEF Steady
<1>1. UNCHANGED <<outbox, stream, worker, context, choosing, submitting, stopping, lastLease>>
  BY ElsewhereEffect DEF DeleteCommit, RelayCrash, redis, database, callers
<1>2. Live(u)' = Live(u) /\ Releasing(u)' = Releasing(u)
  BY <1>1, StillLive DEF Releasing
<1>3. lock' = lock
  BY <1>0, FaultNoted DEF Elsewhere, DeleteStart, DeleteCrash, DeleteCommit, RelayCrash, ExpireLease,
                          ActivateBranch, LeaseLoss, redis
<1>4. CASE Elsewhere \/ RelayCrash
  <2>1. UNCHANGED status /\ (conversation = "DELETED" <=> conversation' = "DELETED")
    BY <1>4, ElsewhereEffect DEF Elsewhere, DeleteStart, DeleteCrash, ExpireLease, ActivateBranch,
                                  RelayCrash, database, Locked
  <2>2. Halted(u) => ~(Locked' /\ u \in flagging')
    BY <1>4 DEF Elsewhere, DeleteStart, DeleteCrash, ExpireLease, ActivateBranch, RelayCrash, database,
                callers, Locked, Halted, Active, Waiting
  <2>3. Underway(u)' = Underway(u) /\ (Halted(u) => Halted(u)')
    BY <1>2, <2>1, <2>2 DEF Underway, Halted
  <2>4. QED BY <1>0, <1>1, <1>2, <1>3, <2>3, HasLeaseStays
<1>5. CASE DeleteCommit
  <2>1. /\ conversation' = "DELETED" /\ Locked
        /\ status'[u] = IF u \in flagging THEN "STOP_REQUESTED" ELSE status[u]
    BY <1>0, <1>5, DeleteEffect
  <2>2. (Underway(u)' => Underway(u)) /\ (Halted(u) => Halted(u)')
    BY <1>2, <2>1 DEF Underway, Halted, Locked
  <2>3. QED BY <1>0, <1>1, <1>2, <1>3, <2>2, HasLeaseStays
<1>6. QED BY <1>4, <1>5

\* A stop request returns no lease; a stopped question is not under way.
LEMMA RelabelKeepsLease ==
  ASSUME Steady, NEW t \in Task, Relabels(t), NEW u \in Task
  PROVE  HasLease(u)'
<1>0. TypeOK /\ HasLease(u)
  BY DEF Steady
<1>1. /\ UNCHANGED <<outbox, stream, worker, lock, context, submitting, flagging, conversation>>
      /\ \A x \in Task : x # t => status'[x] = status[x]
      /\ \/ status[t] \in Active /\ status'[t] = "STOP_REQUESTED"
         \/ status[t] \in Waiting \cup {"COMPLETED"} /\ status'[t] = "STOPPED"
  BY <1>0, RelabelEffect
<1>2. Live(u)' = Live(u)
  BY <1>1, StillLive
<1>3. Underway(u)' => Underway(u)
  BY <1>1, <1>2 DEF Underway, Active
<1>4. CASE StopWaiting(t) \/ StopRequest(t)
  <2>1. UNCHANGED choosing /\ ~Locked /\ (u # t => stopping'[u] = stopping[u])
    BY <1>0, <1>4 DEF StopWaiting, StopRequest, TypeOK
  <2>2. CASE u # t
    <3>1. Releasing(u)' = Releasing(u) /\ Halted(u)' = Halted(u)
      BY <1>1, <1>2, <2>1, <2>2 DEF Releasing, Halted, Locked
    <3>2. QED BY <1>0, <1>1, <1>3, <2>1, <3>1, HasLeaseStays
  <2>3. CASE u = t /\ StopRequest(t)
    <3>1. ~Releasing(u)'
      BY <1>0, <2>3 DEF StopRequest, Releasing, TypeOK
    <3>2. QED BY <1>0, <1>1, <1>3, <2>1, <3>1, HasLeaseStays
  <2>4. CASE u = t /\ StopWaiting(t)
    <3>1. status[u] \in Waiting
      BY <2>4 DEF StopWaiting
    <3>2. ~Live(u) /\ ~Underway(u)
      BY <3>1, RestingIsNotUnderway DEF Waiting
    <3>3. status'[u] = "STOPPED"
      BY <1>1, <2>4, <3>1 DEF Waiting, Active
    <3>4. Halted(u)'
      BY <1>1, <1>2, <2>1, <3>2, <3>3 DEF Halted, Locked
    <3>5. /\ submitting'[u] # NoLease => lock' = submitting'[u]
          /\ choosing'[u].pc = "acquired" =>
               /\ lock' = choosing'[u].lease /\ lock' # NoLease /\ context'[u].lease # lock'
               /\ \A w \in Worker : ~OnLease(w, u, lock)'
      BY <1>0, <1>1, <2>1 DEF HasLease, OnLease, RunsOn
    <3>6. QED BY <1>3, <3>2, <3>4, <3>5 DEF HasLease
  <2>5. QED BY <1>4, <2>2, <2>3, <2>4
<1>5. CASE CancelDiagnosis(t)
  <2>1. UNCHANGED stopping /\ choosing[t].pc = "acquired" /\ choosing'[t].pc = "refused"
        /\ (u # t => choosing'[u] = choosing[u]) /\ status[t] = "COMPLETED" /\ ~Locked
    BY <1>0, <1>5 DEF CancelDiagnosis, ChoicePc, ChoosableDiagnosis, PendingDiagnosis, TypeOK
  <2>2. Halted(u) => Halted(u)'
    BY <1>1, <1>2, <2>1 DEF Halted, Locked
  <2>3. QED BY <1>0, <1>1, <1>3, <2>1, <2>2, HasLeaseStays DEF Releasing
<1>6. QED BY <1>4, <1>5 DEF Relabels

\* A created or resumed task takes over the lease of its request.
LEMMA EnqueueKeepsLease ==
  ASSUME Steady, NEW t \in Task, Enqueues(t), NEW u \in Task
  PROVE  HasLease(u)'
<1>0. TypeOK /\ HasLease(u) /\ HasLease(t) /\ Untouched(t) /\ OneToken(t)
  BY DEF Steady, NewIsUntouched
<1>1. /\ status[t] = "none" \/ PendingSelection(t) \/ PendingDiagnosis(t)
      /\ \A x \in Task : x # t => status'[x] = status[x] /\ outbox'[x] = outbox[x] /\ context'[x] = context[x]
      /\ UNCHANGED <<stream, worker, lock, lastLease, stopping, flagging, conversation>>
  BY <1>0, EnqueueEffect
<1>2. ~Underway(t) /\ ~Live(t)
  BY <1>1, RestingIsNotUnderway DEF PendingSelection, PendingDiagnosis
<1>3. \A x \in Task : x # t => submitting'[x] = submitting[x] /\ choosing'[x] = choosing[x]
  BY <1>0 DEF Enqueues, Send, Fork, CreateTask, SelectEntity, SelectDiagnosis, Requeue, ChoicePc, TypeOK
<1>4. CASE u # t
  <2>1. Live(u)' = Live(u)
    BY <1>1, <1>4 DEF Live, LiveOn, RunsOn, At
  <2>2. Underway(u)' = Underway(u) /\ Halted(u)' = Halted(u) /\ Releasing(u)' = Releasing(u)
    BY <1>1, <1>4, <2>1 DEF Underway, Halted, Releasing, Locked
  <2>3. QED BY <1>0, <1>1, <1>3, <1>4, <2>2, HasLeaseStays
<1>5. CASE u = t
  <2>0. ~Releasing(t)'
    <3>1. status[t] # "STOPPED"
      BY <1>1 DEF PendingSelection, PendingDiagnosis
    <3>2. QED BY <1>0, <1>1, <3>1 DEF HasLease, Halted, Releasing
  <2>1. CASE Send(t) \/ Fork(t)
    <3>1. status[t] = "none" /\ submitting[t] # NoLease /\ submitting'[t] = NoLease
          /\ context'[t].lease = submitting[t] /\ choosing' = choosing
      BY <1>0, <2>1 DEF Send, Fork, CreateTask, TypeOK
    <3>2. choosing'[t].pc = "idle" /\ \A w \in Worker : ~OnLease(w, t, lock)'
      BY <1>0, <1>1, <3>1 DEF Untouched, NotChoosing, OnLease, RunsOn
    <3>3. lock' = context'[t].lease /\ lock' # NoLease
      BY <1>0, <1>1, <3>1 DEF HasLease
    <3>4. QED BY <1>5, <2>0, <3>1, <3>2, <3>3 DEF HasLease, Choosing
  <2>2. CASE SelectEntity(t) \/ SelectDiagnosis(t)
    <3>1. /\ choosing[t].pc = "acquired" /\ choosing'[t].pc \in {"announcing", "idle"}
          /\ context'[t].lease = choosing[t].lease /\ submitting' = submitting
      BY <1>0, <2>2 DEF SelectEntity, SelectDiagnosis, Requeue, ChoicePc, NotChoosing, ResumeContext, TypeOK
    <3>2. submitting'[t] = NoLease
      BY <1>0, <3>1 DEF Untouched, NotChoosing
    <3>3. lock' = context'[t].lease /\ lock' # NoLease /\ \A w \in Worker : ~OnLease(w, t, lock)'
      BY <1>0, <1>1, <3>1 DEF HasLease, OnLease, RunsOn
    <3>4. QED BY <1>5, <2>0, <3>1, <3>2, <3>3 DEF HasLease, Choosing
  <2>3. QED BY <2>1, <2>2 DEF Enqueues
<1>6. QED BY <1>4, <1>5

\* The relay returns no lease.
LEMMA RelayKeepsLease ==
  ASSUME Steady, NEW t \in Task, NEW u \in Task,
         (\E a \in outbox[t] : Publish(t, a) \/ GiveUp(t, a)) \/ FailGivenUp(t) \/ ClaimUnacked(t)
  PROVE  HasLease(u)'
<1>0. TypeOK /\ HasLease(u) /\ OneToken(t) /\ OneToken(u)
  BY DEF Steady
<1>1. CASE \E a \in outbox[t] : Publish(t, a) \/ GiveUp(t, a)
  <2>1. UNCHANGED <<lock, context, status, conversation, submitting, stopping, choosing, flagging, worker>>
    BY <1>1 DEF Publish, GiveUp, redis, callers
  <2>2. outbox[t] # {} /\ (u # t => outbox'[u] = outbox[u] /\ stream'[u] = stream[u])
    BY <1>0, <1>1 DEF Publish, GiveUp, redis, TypeOK
  <2>3. Live(u)' => Live(u)
    BY <2>1, <2>2 DEF Live, LiveOn, RunsOn, At
  <2>4. (Underway(u)' => Underway(u)) /\ (Halted(u) => Halted(u)')
    BY <2>1, <2>3 DEF Underway, Halted, Locked
  <2>5. QED BY <1>0, <2>1, <2>4, HasLeaseStays DEF Releasing
<1>2. CASE FailGivenUp(t)
  <2>1. UNCHANGED <<lock, context, outbox, stream, conversation, submitting, stopping, choosing, flagging, worker>>
    BY <1>2 DEF FailGivenUp, redis
  <2>2. status'[u] = status[u] \/ (status[u] \notin Ended /\ status'[u] = "FAILED")
    BY <1>0, <1>2, SetTaskEffect DEF FailGivenUp
  <2>3. Live(u)' = Live(u)
    BY <2>1, StillLive
  <2>4. (Underway(u)' => Underway(u)) /\ (Halted(u) => Halted(u)')
    BY <2>1, <2>2, <2>3 DEF Underway, Halted, Locked, Active, Ended
  <2>5. QED BY <1>0, <2>1, <2>4, HasLeaseStays DEF Releasing
<1>3. CASE ClaimUnacked(t)
  BY <1>0, <1>3 DEF ClaimUnacked, OneToken
<1>4. QED BY <1>1, <1>2, <1>3

\* A slot takes over the lease with the context.
LEMMA TakeKeepsLease ==
  ASSUME Steady, NEW w \in Worker, NEW t \in Task, Take(w, t), NEW u \in Task
  PROVE  HasLease(u)'
<1>0. TypeOK /\ HasLease(u) /\ SlotsRest
  BY DEF Steady
<1>1. /\ worker[w] = Idle /\ worker'[w].pc \in {"expired", "loading"}
      /\ worker'[w].task = t /\ worker'[w].context = context[t]
      /\ \A x \in Worker : x # w => worker'[x] = worker[x]
      /\ stream[t] > 0 /\ \A x \in Task : x # t => stream'[x] = stream[x]
      /\ UNCHANGED <<lock, context, status, outbox, conversation, submitting, stopping, choosing, flagging>>
  BY <1>0, TakeEffect DEF SlotsRest, At, database, callers
<1>2. Live(u)' => Live(u)
  BY <1>1 DEF Live, LiveOn, RunsOn, At
<1>3. (Underway(u)' => Underway(u)) /\ (Halted(u) => Halted(u)')
  BY <1>1, <1>2 DEF Underway, Halted, Locked
<1>4. ASSUME NEW x \in Worker, OnLease(x, u, lock)'
      PROVE  \/ context[u].lease = lock /\ At(x, Holding)'
             \/ OnLease(x, u, lock) /\ (At(x, Holding)' \/ ~At(x, Holding))
  <2>1. CASE x = w
    BY <1>1, <1>4, <2>1 DEF OnLease, RunsOn, At, Holding, LivePcs
  <2>2. CASE x # w
    BY <1>1, <1>4, <2>2 DEF OnLease, RunsOn, At
  <2>3. QED BY <2>1, <2>2
<1>5. QED BY <1>0, <1>1, <1>3, <1>4, HasLeaseKept DEF Releasing

\* A slot returns its lease when its task is no longer under way, or has a newer one.
LEMMA RunKeepsLease ==
  ASSUME Steady, NEW w \in Worker, Runs(w), NEW u \in Task, None(LeaseLoss)'
  PROVE  HasLease(u)'
<1> DEFINE t == worker[w].task
<1>0. TypeOK /\ LeasesOwned /\ HasLease(u) /\ Untouched(u) /\ OneToken(u) /\ CalmOn(u)
  BY DEF Steady, NewIsUntouched
<1>f. ~Fault("workerShutdown") /\ ~Fault("publishError")
  BY <1>0, FaultNoted DEF LeaseLoss
<1>1. PICK from, to, s :
        /\ Ran(w, t, from, to, s)
        /\ to \in LivePcs => from \in LivePcs
        /\ \/ to \in LivePcs
           \/ from \in LivePcs /\ to = "idle" /\ s \in {status[t], "FAILED"}
           \/ from \in LivePcs /\ to = "failing"
           \/ from \in LivePcs /\ to \in {"announcing", "confirming"} /\ s \notin Active
           \/ from = "failing" /\ s = "FAILED"
           \/ from \notin Holding /\ s = status[t]
  BY <1>0, <1>f, RunEffect DEF RunTable, LivePcs, Active, Holding
<1>2. /\ UNCHANGED <<outbox, stream, submitting, choosing, stopping, flagging, context, conversation>>
      /\ worker[w].pc = from /\ worker[w].task = t /\ t \in Task
      /\ \/ to = "idle" /\ worker'[w] = Idle
         \/ to # "idle" /\ worker'[w] = [pc |-> to, task |-> t, context |-> worker[w].context]
      /\ \A x \in Worker : x # w => worker'[x] = worker[x]
      /\ status'[t] = s /\ \A x \in Task : x # t => status'[x] = status[x]
  BY <1>1 DEF Ran
<1>3. (Live(u)' => Live(u)) /\ (from \in LivePcs => LiveOn(w, t))
  BY <1>1, <1>2 DEF Live, LiveOn, RunsOn, At, Idle, LivePcs
<1>4. lock' = lock \/ (lock' = Freed(worker[w].context.lease) /\ from \notin Holding)
  BY <1>0, <1>2, <1>f, RunLock, RunReleases DEF At, Holding, LivePcs
<1>5. ASSUME Wants(u) PROVE lock' = lock
  <2>1. CASE u # t
    <3>1. worker[w].context.lease \in Nat /\ Holds(t, worker[w].context.lease)
      BY <1>0, <1>2 DEF Holds, RunsOn, TypeOK
    <3>2. Freed(worker[w].context.lease) = lock
      BY <1>0, <1>2, <1>5, <2>1, <3>1, OthersRelease
    <3>3. QED BY <1>4, <3>2
  <2>2. CASE u = t /\ from \notin Holding
    <3>1. RunsOn(w, u) /\ ~At(w, Holding)
      BY <1>2, <2>2 DEF RunsOn, At
    <3>2. submitting[u] = NoLease
      BY <1>0, <3>1 DEF Untouched
    <3>3. worker[w].context.lease # lock
      BY <1>0, <1>5, <3>1, <3>2 DEF Wants, HasLease, OnLease
    <3>4. QED BY <1>4, <3>3 DEF Freed
  <2>3. QED BY <1>4, <2>1, <2>2
<1>6. Underway(u)' => Underway(u)
  <2>1. CASE u # t
    BY <1>2, <1>3, <2>1 DEF Underway
  <2>2. CASE u = t /\ from \in LivePcs
    BY <1>3, <2>2 DEF Underway, Live
  <2>3. CASE u = t /\ from \notin LivePcs
    BY <1>1, <1>2, <1>3, <2>3 DEF Underway, Active
  <2>4. QED BY <2>1, <2>2, <2>3
<1>7. Releasing(u)' => Releasing(u) /\ (Halted(u) => Halted(u)')
  <2>1. Releasing(u)' = Releasing(u)
    BY <1>2 DEF Releasing
  <2>2. ASSUME Halted(u) PROVE Halted(u)'
    <3>1. u = t => from \notin LivePcs
      BY <1>3, <2>2 DEF Halted, Live
    <3>2. u = t => from # "failing"
      BY <1>0, <1>2, <2>2 DEF CalmOn, Halted, RunsOn, At, Active
    <3>3. status'[u] = status[u]
      BY <1>1, <1>2, <3>1, <3>2 DEF LivePcs
    <3>4. QED BY <1>2, <1>3, <2>2, <3>3 DEF Halted, Locked
  <2>3. QED BY <2>1, <2>2
<1>8. ASSUME Wants(u), NEW x \in Worker, OnLease(x, u, lock)'
      PROVE  OnLease(x, u, lock) /\ (At(x, Holding)' \/ ~At(x, Holding) \/ ~Underway(u)')
  <2>0. lock' = lock
    BY <1>5, <1>8
  <2>1. CASE x # w
    BY <1>2, <1>8, <2>0, <2>1 DEF OnLease, RunsOn, At
  <2>2. CASE x = w
    <3>1. to # "idle" /\ u = t /\ OnLease(x, u, lock)
      BY <1>2, <1>8, <2>0, <2>2, GenerationAssumption DEF OnLease, RunsOn, Idle
    <3>2. CASE to \in Holding \/ from \notin Holding
      BY <1>2, <2>2, <3>1, <3>2 DEF At
    <3>3. CASE to \notin Holding /\ from \in LivePcs
      <4>1. status'[u] \notin Active
        BY <1>1, <1>2, <3>1, <3>3 DEF Holding, LivePcs
      <4>2. ~Live(u)'
        <5>1. LiveOn(w, u)
          BY <1>3, <3>1, <3>3
        <5>2. outbox[u] = {} /\ ~(stream[u] > 0) /\ \A v \in Worker : LiveOn(v, u) => v = w
          BY <1>0, <5>1 DEF OneToken, Live
        <5>3. QED BY <1>2, <3>1, <3>3, <5>2 DEF Live, LiveOn, RunsOn, At, Holding
      <4>3. QED BY <3>1, <4>1, <4>2 DEF Underway
    <3>4. CASE from = "failing"
      <4>1. ~Live(u)
        BY <1>0, <1>2, <3>1, <3>4 DEF CalmOn, RunsOn, At
      <4>2. s = "FAILED" \/ to \in LivePcs
        BY <1>1, <3>4 DEF Holding, LivePcs
      <4>3. to \notin LivePcs
        BY <1>1, <3>4 DEF LivePcs
      <4>4. QED BY <1>2, <1>3, <3>1, <4>1, <4>2, <4>3 DEF Underway, Active
    <3>5. QED BY <3>1, <3>2, <3>3, <3>4 DEF Holding
  <2>3. QED BY <2>1, <2>2
<1>9. QED BY <1>0, <1>2, <1>5, <1>6, <1>7, <1>8, HasLeaseKept

\* No step takes a lease from who wants it.
LEMMA LeaseIsHeldStep ==
  TypeOK /\ SlotsRest /\ LeasesOwned /\ NewIsUntouched /\ OneDelivery /\ Calm /\ ContextsKept /\ LeaseIsHeld
    /\ [Next]_vars => LeaseIsHeld'
<1> SUFFICES ASSUME TypeOK, SlotsRest, LeasesOwned, NewIsUntouched, OneDelivery, Calm, ContextsKept,
                    LeaseIsHeld, [Next]_vars, None(LeaseLoss)', NEW u \in Task
             PROVE  HasLease(u)'
  BY DEF LeaseIsHeld
<1>0. Steady /\ None(Duplicating)'
  <2>1. /\ None(LeaseLoss) /\ None(Duplicating) /\ None(Duplicating \cup {"publishError"})
        /\ None(Duplicating)'
    BY FaultsAccumulate DEF None, LeaseLoss
  <2>2. QED BY <2>1 DEF Steady, OneDelivery, Calm, ContextsKept, LeaseIsHeld
<1>1. CASE Duplicates
  BY <1>0, <1>1, DuplicatesEffect
<1>2. CASE UNCHANGED vars
  <2>1. HasLease(u) /\ Live(u)' = Live(u)
    BY <1>0, <1>2, StillLive DEF Steady, vars, redis, database
  <2>2. QED BY <1>2, <2>1, HasLeaseStays
            DEF vars, redis, database, callers, Underway, Releasing, Halted, Locked
<1>3. QED
  BY <1>0, <1>1, <1>2, StepCases, AsideKeepsLease, ElsewhereKeepsLease, RelabelKeepsLease,
     EnqueueKeepsLease, RelayKeepsLease, TakeKeepsLease, RunKeepsLease

\* A turn that is under way, or that an answer may resume.
Current(t) == status[t] \in Active \cup {"WAITING_SELECTION"} \/ PendingDiagnosis(t)

\* What a step may do without making a turn an older one.
LEMMA LatestKept ==
  ASSUME NEW u, Current(u) => AtLeaf(u), Current(u)' => Current(u),
         branch'[u] = branch[u], leaf'[branch[u]] = leaf[branch[u]]
  PROVE  (Current(u) => AtLeaf(u))'
BY DEF AtLeaf

\* A run moves the leaf of its own task's branch only.
LEMMA RunLeaf ==
  ASSUME TypeOK, NEW w \in Worker, Runs(w)
  PROVE  \/ leaf' = leaf
         \/ /\ LiveOn(w, worker[w].task)
            /\ leaf' = [leaf EXCEPT ![branch[worker[w].task]] = worker[w].task]
BY DEF Runs, FailExpired, LoadStart, LoadStopped, LoadIgnored, Begin, Progress, FinishAnswered,
       FinishStopped, FinishFailed, PersistFinal, WaitForSelection, WaitForDiagnosis, ReleaseEarly, Announce,
       AnnounceError, RunError, FailTask, ReleaseRun, WorkerShutdown, database, LiveOn, RunsOn, At, LivePcs

\* A new turn on the branch finds none under way there.
LEMMA SendKeepsLatest ==
  ASSUME Steady, NEW t \in Task, Send(t), conversation # "DELETED",
         NEW u \in Task, Current(u) => AtLeaf(u)
  PROVE  (Current(u) => AtLeaf(u))'
<1>0. TypeOK /\ LeasesOwned /\ HasLease(u) /\ HasLease(t) /\ Untouched(u) /\ Untouched(t)
  BY DEF Steady, NewIsUntouched
<1>1. /\ submitting[t] # NoLease /\ status[t] = "none" /\ ~PendingSelection(u)
      /\ branch'[t] = active /\ (u # t => branch'[u] = branch[u])
      /\ leaf'[active] = t /\ (\A b \in Branch : b # active => leaf'[b] = leaf[b])
      /\ diagnosis'[u] = IF u = leaf[active] /\ PendingDiagnosis(u) THEN "SUPERSEDED" ELSE diagnosis[u]
      /\ \A x \in Task : x # t => status'[x] = status[x]
  BY <1>0, SetTaskEffect DEF Send, CreateTask, TypeOK
<1>2. CASE u = t
  BY <1>1, <1>2 DEF AtLeaf
<1>3. CASE u # t /\ branch[u] = active /\ AtLeaf(u)
  <2>1. ~PendingDiagnosis(u)'
    BY <1>1, <1>3 DEF AtLeaf, PendingDiagnosis
  <2>2. status[u] # "WAITING_SELECTION"
    BY <1>0, <1>1 DEF Untouched, PendingSelection
  <2>3. status[u] \notin Active
    <3>1. SUFFICES ASSUME status[u] \in Active PROVE FALSE
      OBVIOUS
    <3>2. Underway(u)
      BY <3>1 DEF Underway
    <3>3. lock \in Nat \ {NoLease} /\ Holds(u, lock) /\ Holds(t, lock)
      BY <1>0, <1>1, <3>2 DEF HasLease, Holds, TypeOK
    <3>4. QED BY <1>0, <1>3, <3>3 DEF LeasesOwned
  <2>4. QED BY <1>1, <1>3, <2>1, <2>2, <2>3 DEF Current
<1>4. CASE u # t /\ branch[u] # active
  <2>1. Current(u)' => Current(u)
    BY <1>1, <1>4 DEF Current, PendingDiagnosis
  <2>2. leaf'[branch[u]] = leaf[branch[u]]
    BY <1>0, <1>1, <1>4 DEF TypeOK
  <2>3. QED BY <1>1, <1>4, <2>1, <2>2, LatestKept
<1>5. CASE u # t /\ ~AtLeaf(u)
  BY <1>1, <1>5 DEF Current, PendingDiagnosis
<1>6. QED BY <1>2, <1>3, <1>4, <1>5

\* A fork has a branch of its own; an answer resumes a turn at the leaf only.
LEMMA EnqueueKeepsLatest ==
  ASSUME Steady, NEW t \in Task, Enqueues(t), conversation # "DELETED",
         NEW u \in Task, Current(u) => AtLeaf(u)
  PROVE  (Current(u) => AtLeaf(u))'
<1>0. TypeOK /\ Untouched(t)
  BY DEF Steady, NewIsUntouched
<1>1. CASE Send(t)
  BY <1>1, SendKeepsLatest
<1>2. CASE Fork(t)
  <2>1. /\ branch'[t] = t /\ (u # t => branch'[u] = branch[u])
        /\ leaf'[t] = t /\ (\A b \in Branch : b # t => leaf'[b] = leaf[b])
        /\ diagnosis' = diagnosis /\ status[t] = "none"
        /\ \A x \in Task : x # t => status'[x] = status[x]
    BY <1>0, <1>2, SetTaskEffect DEF Fork, CreateTask, BranchOff, TypeOK, Branch
  <2>2. CASE u = t
    BY <2>1, <2>2 DEF AtLeaf
  <2>3. CASE u # t
    <3>1. branch[u] # t /\ branch[u] \in Branch
      BY <1>0, <2>1 DEF Untouched, TypeOK
    <3>2. Current(u)' => Current(u)
      BY <2>1, <2>3 DEF Current, PendingDiagnosis
    <3>3. QED BY <2>1, <2>3, <3>1, <3>2, LatestKept
  <2>4. QED BY <2>2, <2>3
<1>3. CASE SelectEntity(t) \/ SelectDiagnosis(t)
  <2>1. UNCHANGED <<branch, leaf>> /\ AtLeaf(t)
    BY <1>3 DEF SelectEntity, SelectDiagnosis, ChoosableDiagnosis, Requeue
  <2>2. u # t => (Current(u)' => Current(u))
    BY <1>0, <1>3, EnqueueEffect DEF SelectEntity, SelectDiagnosis, Enqueues, Current, PendingDiagnosis, TypeOK
  <2>3. QED BY <2>1, <2>2, LatestKept DEF AtLeaf
<1>4. QED BY <1>1, <1>2, <1>3 DEF Enqueues

\* A run ends at the leaf where it began.
LEMMA RunKeepsLatest ==
  ASSUME Steady, NEW w \in Worker, Runs(w), NEW u \in Task,
         Current(u) => AtLeaf(u), Current(worker[w].task) => AtLeaf(worker[w].task)
  PROVE  (Current(u) => AtLeaf(u))'
<1> DEFINE t == worker[w].task
<1>0. TypeOK /\ t \in Task /\ \A x \in Task : CalmOn(x)
  BY RunBusy DEF Steady
<1>1. PICK from, to, s :
        Ran(w, t, from, to, s) /\ (from \in LivePcs \/ s = status[t] \/ s = "FAILED")
  BY <1>0, RunEffect DEF RunTable, LivePcs
<1>2. LiveOn(w, t) => status[t] \in Active
  BY <1>0 DEF CalmOn, Live
<1>3. leaf' = leaf
  <2>1. CASE LiveOn(w, t) /\ leaf' = [leaf EXCEPT ![branch[t]] = t]
    <3>1. leaf[branch[t]] = t
      BY <1>2, <2>1 DEF Current, AtLeaf
    <3>2. QED BY <1>0, <2>1, <3>1 DEF TypeOK
  <2>2. QED BY <1>0, <2>1, RunLeaf
<1>4. Current(u)' => Current(u)
  <2>1. CASE u # t
    BY <1>0, <1>1, <2>1, RunDiagnoses DEF Ran, LiveOn, RunsOn, Current, PendingDiagnosis
  <2>2. CASE u = t /\ from \in LivePcs
    BY <1>1, <1>2, <2>2 DEF Ran, LiveOn, RunsOn, At, Current
  <2>3. CASE u = t /\ from \notin LivePcs
    <3>1. diagnosis'[u] = diagnosis[u]
      BY <1>0, <1>1, <2>3, RunDiagnoses DEF Ran, LiveOn, At
    <3>2. QED BY <1>1, <2>3, <3>1 DEF Ran, Current, PendingDiagnosis, Active
  <2>4. QED BY <2>1, <2>2, <2>3
<1>5. QED BY <1>1, <1>3, <1>4, LatestKept DEF Ran

\* No step makes a turn under way an older one.
LEMMA LatestStep ==
  ASSUME Steady, [Next]_vars, TurnIsLatestOnBranch, None(LeaseLoss)', conversation' # "DELETED",
         NEW u \in Task
  PROVE  (Current(u) => AtLeaf(u))'
<1>0. /\ TypeOK /\ conversation # "DELETED" /\ None(LeaseLoss) /\ None(Duplicating)'
      /\ \A x \in Task : Current(x) => AtLeaf(x)
  <2>1. TypeOK /\ None(LeaseLoss) /\ None(Duplicating)'
    BY FaultsAccumulate DEF Steady, None, LeaseLoss
  <2>2. conversation # "DELETED"
    <3>1. ASSUME conversation = "DELETED" PROVE conversation' = "DELETED"
      <4>1. ASSUME NEW t \in Task, Aside(t) \/ Relabels(t) PROVE conversation' = conversation
        BY <2>1, <4>1, RelabelEffect DEF Aside, SubmitAcquire, SubmitRefused, SubmitCrash, StopFlag,
           StopRelease, StopCrash, ChooseAcquire, SelectAnnounced, ChoiceRefused, ChoiceRolledBack,
           ChoiceCrash, ExpireDiagnosis, FlagDeleted, ExpireContext, database
      <4>2. ASSUME NEW t \in Task, Enqueues(t) PROVE conversation' = conversation
        BY <2>1, <4>2, EnqueueEffect
      <4>3. ASSUME NEW w \in Worker, Runs(w) PROVE conversation' = conversation
        BY <2>1, <4>3, RunEffect DEF RunTable, Ran
      <4>4. CASE Elsewhere \/ DeleteCommit \/ Duplicates \/ RelayCrash \/ UNCHANGED vars
        BY <3>1, <4>4 DEF Elsewhere, DeleteStart, DeleteCrash, ExpireLease, ActivateBranch, DeleteCommit,
           Duplicates, PublishUnmarked, ClaimWaiting, WorkerCrash, RelayCrash, Locked, vars, database
      <4>5. ASSUME NEW t \in Task, (\E a \in outbox[t] : Publish(t, a) \/ GiveUp(t, a))
                                   \/ FailGivenUp(t) \/ ClaimUnacked(t) \/ \E w \in Worker : Take(w, t)
            PROVE  conversation' = conversation
        BY <4>5 DEF Publish, GiveUp, FailGivenUp, ClaimUnacked, Take, database
      <4>6. QED BY <2>1, <3>1, <4>1, <4>2, <4>3, <4>4, <4>5, StepCases
    <3>2. QED BY <3>1
  <2>3. QED BY <2>1, <2>2 DEF TurnIsLatestOnBranch, Current
<1>k. ASSUME UNCHANGED <<branch, leaf>>, Current(u)' => Current(u) PROVE (Current(u) => AtLeaf(u))'
  BY <1>0, <1>k, LatestKept
<1>1. ASSUME NEW t \in Task, Aside(t) PROVE (Current(u) => AtLeaf(u))'
  <2>1. diagnosis'[u] = diagnosis[u] \/ diagnosis'[u] # "PENDING"
    BY <1>0, <1>1 DEF Aside, SubmitAcquire, SubmitRefused, SubmitCrash, StopFlag, StopRelease, StopCrash,
       ChooseAcquire, SelectAnnounced, ChoiceRefused, ChoiceRolledBack, ChoiceCrash, ExpireDiagnosis,
       FlagDeleted, ExpireContext, database, TypeOK
  <2>2. QED BY <1>1, <1>k, <2>1, AsideEffect DEF Current, PendingDiagnosis
<1>2. CASE Elsewhere
  BY <1>2, <1>k, ElsewhereEffect DEF Current, PendingDiagnosis
<1>3. CASE Duplicates
  BY <1>0, <1>3, DuplicatesEffect
<1>4. ASSUME NEW t \in Task, Relabels(t) PROVE (Current(u) => AtLeaf(u))'
  <2>1. UNCHANGED <<branch, leaf>>
    BY <1>0, <1>4, RelabelEffect
  <2>2. u # t => diagnosis'[u] = diagnosis[u]
    BY <1>0, <1>4 DEF Relabels, StopWaiting, StopRequest, CancelDiagnosis, TypeOK
  <2>3. Current(u)' => Current(u)
    BY <1>0, <1>4, <2>2, RelabelEffect DEF Current, PendingDiagnosis, Active
  <2>4. QED BY <1>k, <2>1, <2>3
<1>5. CASE DeleteCommit
  BY <1>0, <1>5, DeleteEffect
<1>6. ASSUME NEW t \in Task, Enqueues(t) PROVE (Current(u) => AtLeaf(u))'
  BY <1>0, <1>6, EnqueueKeepsLatest
<1>7. ASSUME NEW t \in Task, NEW a \in outbox[t], Publish(t, a) \/ GiveUp(t, a)
      PROVE (Current(u) => AtLeaf(u))'
  BY <1>7, <1>k DEF Publish, GiveUp, Current, PendingDiagnosis
<1>8. ASSUME NEW t \in Task, FailGivenUp(t) PROVE (Current(u) => AtLeaf(u))'
  <2>1. UNCHANGED <<branch, leaf, diagnosis>> /\ status'[u] \in {status[u], "FAILED"}
    BY <1>0, <1>8, SetTaskEffect DEF FailGivenUp
  <2>2. QED BY <1>k, <2>1 DEF Current, PendingDiagnosis, Active
<1>9. ASSUME NEW t \in Task, ClaimUnacked(t) \/ \E w \in Worker : Take(w, t) PROVE (Current(u) => AtLeaf(u))'
  BY <1>9, <1>k DEF ClaimUnacked, Take, database, Current, PendingDiagnosis
<1>10. CASE RelayCrash \/ UNCHANGED vars
  BY <1>10, <1>k DEF RelayCrash, vars, database, Current, PendingDiagnosis
<1>11. ASSUME NEW w \in Worker, Runs(w) PROVE (Current(u) => AtLeaf(u))'
  BY <1>0, <1>11, RunKeepsLatest, RunBusy
<1>12. QED
  BY <1>1, <1>2, <1>3, <1>4, <1>5, <1>6, <1>7, <1>8, <1>9, <1>10, <1>11, StepCases

-----------------------------------------------------------------------------
\* All of it together.
LeaseInv ==
    /\ SlotsRest /\ LeasesOwned /\ NewIsUntouched
    /\ OneDelivery /\ Calm /\ ContextsKept /\ QuestionsHoldNoLease /\ LeaseIsHeld
    /\ TurnIsLatestOnBranch

(***************************************************************************)
(* The invariant that the two theorems below follow from.                  *)
(***************************************************************************)
THEOREM LeasesFollow == Spec => []LeaseInv
<1>1. Init => LeaseInv
  <2> SUFFICES ASSUME Init PROVE LeaseInv
    OBVIOUS
  <2>1. \A t \in Task :
          /\ ~Live(t) /\ outbox[t] = {} /\ stream[t] = 0 /\ unacked[t] = 0 /\ givingUp = {}
          /\ status[t] = "none" /\ \A w \in Worker : ~LiveOn(w, t) /\ ~RunsOn(w, t)
    BY GenerationAssumption DEF Init, Live, LiveOn, At, LivePcs, Idle, RunsOn
  <2>2. SlotsRest /\ \A w \in Worker : worker[w].pc = "idle"
    BY DEF Init, SlotsRest, At, Idle
  <2>3. LeasesOwned
    BY <2>1 DEF Init, LeasesOwned, Holds, NotChoosing, NoContext, NoLease
  <2>4. NewIsUntouched
    BY <2>1, GenerationAssumption DEF Init, NewIsUntouched, Untouched
  <2>5. OneDelivery /\ Calm /\ ContextsKept
    BY <2>1, <2>2 DEF OneDelivery, OneToken, Calm, CalmOn, ContextsKept, ContextKept, At
  <2>6. QuestionsHoldNoLease
    BY DEF Init, QuestionsHoldNoLease, AskedFreely
  <2>7. LeaseIsHeld
    BY <2>1 DEF Init, LeaseIsHeld, HasLease, NotChoosing, Choosing, Releasing, Underway, Active
  <2>8. TurnIsLatestOnBranch
    BY <2>1 DEF TurnIsLatestOnBranch, PendingDiagnosis, Active
  <2>9. QED BY <2>2, <2>3, <2>4, <2>5, <2>6, <2>7, <2>8 DEF LeaseInv
<1>2. TypeOK /\ LeaseInv /\ [Next]_vars => LeaseInv'
  <2> SUFFICES ASSUME TypeOK, LeaseInv, [Next]_vars PROVE LeaseInv'
    OBVIOUS
  <2>1. SlotsRest' /\ LeasesOwned' /\ NewIsUntouched' /\ OneDelivery' /\ Calm' /\ ContextsKept'
        /\ QuestionsHoldNoLease' /\ LeaseIsHeld'
    BY SlotsRestStep, LeasesOwnedStep, UntouchedStep, OneDeliveryStep, CalmStep, ContextsKeptStep,
       QuestionsStep, LeaseIsHeldStep DEF LeaseInv
  <2>2. TurnIsLatestOnBranch'
    <3>1. SUFFICES ASSUME None(LeaseLoss)', conversation' # "DELETED", NEW u \in Task
                   PROVE  (Current(u) => AtLeaf(u))'
      BY DEF TurnIsLatestOnBranch, Current
    <3>2. /\ None(LeaseLoss) /\ None(Duplicating) /\ None(Duplicating \cup {"publishError"})
      BY <3>1, FaultsAccumulate DEF None, LeaseLoss
    <3>3. Steady
      BY <3>2 DEF Steady, LeaseInv, OneDelivery, Calm, ContextsKept, LeaseIsHeld
    <3>4. QED BY <3>1, <3>3, LatestStep DEF LeaseInv
  <2>3. QED BY <2>1, <2>2 DEF LeaseInv
<1>3. QED BY <1>1, <1>2, TypeCorrect, PTL DEF Spec

(***************************************************************************)
(* A turn that is under way or may be resumed is the latest of its branch: *)
(* send cannot overtake it, since it has the conversation's lease, is a    *)
(* pending selection that send refuses, or is superseded by send.          *)
(***************************************************************************)
THEOREM TurnsAreLatest == Spec => []TurnIsLatestOnBranch
<1>1. LeaseInv => TurnIsLatestOnBranch
  BY DEF LeaseInv
<1>2. QED BY <1>1, LeasesFollow, PTL

(***************************************************************************)
(* A run executes under the conversation's lease and with its task's       *)
(* context; and a task that waits for the user holds no lease once the run *)
(* that asked has left.                                                    *)
(***************************************************************************)
THEOREM LeaseIsTheRuns == Spec => []LeaseFollowsRun
<1>1. TypeOK /\ LeaseInv => LeaseFollowsRun
  <2> SUFFICES ASSUME TypeOK, LeaseInv PROVE LeaseFollowsRun
    OBVIOUS
  <2>1. ASSUME None(LeaseLoss), NEW w \in Worker, Executing(w)
        PROVE  lock = worker[w].context.lease /\ context[worker[w].task] = worker[w].context
    <3> DEFINE t == worker[w].task
    <3>1. t \in Task /\ LiveOn(w, t)
      BY <2>1 DEF TypeOK, Executing, LiveOn, RunsOn, At, LivePcs
    <3>2. None(Duplicating) /\ None({"contextExpiry"})
      BY <2>1 DEF None, LeaseLoss
    <3>3. context[t] = worker[w].context
      BY <3>1, <3>2 DEF LeaseInv, ContextsKept, ContextKept
    <3>4. Underway(t)
      BY <3>1 DEF Underway, Live
    <3>5. QED BY <2>1, <3>1, <3>3, <3>4 DEF LeaseInv, LeaseIsHeld, HasLease
  <2>2. ASSUME None(Duplicating \cup {"apiCrash"}), NEW t \in Task, Asks(t), choosing[t] = NotChoosing,
               \A w \in Worker : ~RunsOn(w, t)
        PROVE  lock # context[t].lease \/ lock = NoLease
    BY <2>2 DEF LeaseInv, QuestionsHoldNoLease, AskedFreely, NotChoosing, OnLease
  <2>3. QED BY <2>1, <2>2 DEF LeaseFollowsRun, Asks
<1>2. QED BY <1>1, TypeCorrect, LeasesFollow, PTL
=============================================================================
