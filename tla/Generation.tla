----------------------------- MODULE Generation -----------------------------
(***************************************************************************)
(* The life of the generation tasks of one conversation, from the API call *)
(* that submits a turn to the worker that ends it: GenerationService,      *)
(* TaskService with its diagnosis mixin, ConversationService.delete and    *)
(* .activate_branch, the generation.enqueue rows of the outbox, the Redis  *)
(* stream and GenerationWorker.  A step is one database transaction, one   *)
(* Redis command, or one of those with the local computation before it; a  *)
(* transaction that locks the task's row is atomic.  The user and platform *)
(* limits of the lease are in module Lease, the relay's claim protocol in  *)
(* Outbox, the execution log in EventLog.                                  *)
(***************************************************************************)
EXTENDS Naturals, FiniteSets

CONSTANTS Task,        \* generation_tasks of the conversation, at most one per submission
          Worker,      \* slots of the workers' semaphores, over all processes
          Root,        \* the conversation's first branch; a fork is named by its task
          NoTask,
          Faults,      \* the kinds of fault this instance is exposed to, and whether
                       \* its user may delete the conversation
          Budget       \* bound: the leases granted and the faults of one behaviour, together

FaultKinds == {"apiCrash", "workerCrash", "workerShutdown", "publishError", "databaseError",
               "redelivery", "relayCrash", "giveUp", "contextExpiry", "leaseExpiry", "deletion"}

ASSUME GenerationAssumption ==
    /\ Root \notin Task /\ NoTask \notin Task
    /\ Faults \subseteq FaultKinds
    /\ Budget \in Nat

Branch == Task \cup {Root}
NoLease == 0
NoContext == [lease |-> NoLease, attempt |-> 0]

Waiting == {"WAITING_SELECTION", "WAITING_INPUT"}
Ended == {"COMPLETED", "FAILED", "STOPPED"}
Active == {"QUEUED", "PREPARING", "EXECUTING", "STREAMING", "STOP_REQUESTED"}
TaskStatus == {"none"} \cup Active \cup Waiting \cup Ended
MessageStatus == {"none", "PENDING", "STREAMING", "COMPLETED", "FAILED", "STOPPED"}

VARIABLES
    (* Redis *)
    lock,        \* the conversation's lease, NoLease when nobody holds it
    lastLease,   \* leases are numbered in the order they are granted
    context,     \* chat:task_context:{t}
    cancelled,   \* tasks with a chat:cancel:{t} key
    stream,      \* deliveries of t no worker slot has begun
    unacked,     \* deliveries of t whose consumer died
    (* PostgreSQL *)
    status, message,
    selection,   \* pending_entity_selections.status
    diagnosis,   \* metadata_json.diagnosis_confirmation.status
    outbox,      \* attempts of t whose generation.enqueue row is unpublished
    branch, leaf, active,
    conversation, \* its status, or "deleting" while delete() holds the row's lock
    (* requests being served and workers *)
    submitting,  \* the lease of the send, edit or regenerate call creating t
    stopping, choosing, flagging,
    givingUp,    \* tasks whose row the relay has marked FAILED and not yet the task
    worker,
    faults       \* how many have happened, and of which kinds

redis == <<lock, lastLease, context, cancelled, stream, unacked>>
database == <<status, message, selection, diagnosis, outbox, branch, leaf, active, conversation>>
callers == <<submitting, stopping, choosing, flagging, givingUp>>
vars == <<redis, database, callers, worker, faults>>

Idle == [pc |-> "idle", task |-> NoTask, context |-> NoContext]
NotChoosing == [pc |-> "idle", lease |-> NoLease]

Init ==
    /\ lock = NoLease /\ lastLease = 0
    /\ context = [t \in Task |-> NoContext]
    /\ cancelled = {}
    /\ stream = [t \in Task |-> 0] /\ unacked = [t \in Task |-> 0]
    /\ status = [t \in Task |-> "none"] /\ message = [t \in Task |-> "none"]
    /\ selection = [t \in Task |-> "none"] /\ diagnosis = [t \in Task |-> "none"]
    /\ outbox = [t \in Task |-> {}]
    /\ branch = [t \in Task |-> Root] /\ leaf = [b \in Branch |-> NoTask]
    /\ active = Root /\ conversation = "ACTIVE"
    /\ submitting = [t \in Task |-> NoLease]
    /\ stopping = [t \in Task |-> "idle"]
    /\ choosing = [t \in Task |-> NotChoosing]
    /\ flagging = {} /\ givingUp = {}
    /\ worker = [w \in Worker |-> Idle]
    /\ faults = [count |-> 0, kinds |-> {}]

InBudget == lastLease + faults.count < Budget
Fault(kind) ==
    /\ kind \in Faults /\ InBudget
    /\ faults' = [count |-> faults.count + 1, kinds |-> faults.kinds \cup {kind}]

\* ConcurrencyService.acquire and release, as specified by LeaseAbs.
AcquireLease ==
    /\ lock = NoLease /\ InBudget
    /\ lastLease' = lastLease + 1
    /\ lock' = lastLease'
Freed(l) == IF lock = l THEN NoLease ELSE lock

\* A transaction that locks the conversation's row waits for delete().
Locked == conversation = "deleting"

SetTask(t, s, m) ==
    /\ status' = [status EXCEPT ![t] = s]
    /\ message' = [message EXCEPT ![t] = m]

-----------------------------------------------------------------------------
(* send, edit_and_resubmit, regenerate *)

SubmitAcquire(t) ==
    /\ status[t] = "none" /\ submitting[t] = NoLease
    /\ AcquireLease
    /\ submitting' = [submitting EXCEPT ![t] = lastLease']
    /\ UNCHANGED <<context, cancelled, stream, unacked, database, stopping, choosing, flagging,
                   givingUp, worker, faults>>

(***************************************************************************)
(* The part of the three transactions that is the same.  The Redis context *)
(* is written before COMMIT; publish_fast after it is the relay's Publish. *)
(***************************************************************************)
CreateTask(t) ==
    /\ submitting[t] # NoLease /\ status[t] = "none" /\ conversation = "ACTIVE"
    /\ SetTask(t, "QUEUED", "PENDING")
    /\ context' = [context EXCEPT ![t] = [lease |-> submitting[t], attempt |-> 0]]
    /\ outbox' = [outbox EXCEPT ![t] = {0}]
    /\ submitting' = [submitting EXCEPT ![t] = NoLease]
    /\ UNCHANGED <<lock, lastLease, cancelled, stream, unacked, selection, conversation,
                   stopping, choosing, flagging, givingUp, worker, faults>>

PendingSelection(t) == status[t] = "WAITING_SELECTION" /\ selection[t] = "PENDING"
PendingDiagnosis(t) == status[t] = "COMPLETED" /\ diagnosis[t] = "PENDING"

\* A variant without the pending-selection check.
SendUnchecked(t) ==
    /\ CreateTask(t)
    /\ diagnosis' = [u \in Task |-> IF u = leaf[active] /\ PendingDiagnosis(u)
                                    THEN "SUPERSEDED" ELSE diagnosis[u]]
    /\ branch' = [branch EXCEPT ![t] = active]
    /\ leaf' = [leaf EXCEPT ![active] = t]
    /\ UNCHANGED active

\* A new turn on the active branch supersedes the diagnosis question at its leaf.
Send(t) ==
    /\ CreateTask(t)
    /\ ~ \E u \in Task : PendingSelection(u)
    /\ diagnosis' = [u \in Task |-> IF u = leaf[active] /\ PendingDiagnosis(u)
                                    THEN "SUPERSEDED" ELSE diagnosis[u]]
    /\ branch' = [branch EXCEPT ![t] = active]
    /\ leaf' = [leaf EXCEPT ![active] = t]
    /\ UNCHANGED active

\* regenerate and edit_and_resubmit put the turn on a branch of its own.
BranchOff(t) ==
    /\ branch' = [branch EXCEPT ![t] = t]
    /\ leaf' = [leaf EXCEPT ![t] = t]
    /\ active' = t

\* Either starts from an existing message and leaves every question as it is.
Fork(t) ==
    /\ CreateTask(t)
    /\ \E u \in Task : status[u] # "none"
    /\ BranchOff(t)
    /\ UNCHANGED diagnosis

\* Any conflict or error rolls back and releases; a dead process does neither.
SubmitRefused(t) ==
    /\ submitting[t] # NoLease
    /\ lock' = Freed(submitting[t])
    /\ submitting' = [submitting EXCEPT ![t] = NoLease]
    /\ UNCHANGED <<lastLease, context, cancelled, stream, unacked, database, stopping, choosing,
                   flagging, givingUp, worker, faults>>

SubmitCrash(t) ==
    /\ Fault("apiCrash")
    /\ submitting[t] # NoLease
    /\ submitting' = [submitting EXCEPT ![t] = NoLease]
    /\ UNCHANGED <<redis, database, stopping, choosing, flagging, givingUp, worker>>

-----------------------------------------------------------------------------
(* The outbox relay and the stream *)

\* A variant that marks the row although nothing was added to the stream.
PublishLost(t, a) ==
    /\ a \in outbox[t]
    /\ outbox' = [outbox EXCEPT ![t] = @ \ {a}]
    /\ UNCHANGED <<redis, status, message, selection, diagnosis, branch, leaf, active,
                   conversation, callers, worker, faults>>

\* XADD, the task.queued event and the row's PUBLISHED mark.
Publish(t, a) ==
    /\ a \in outbox[t] /\ context[t] # NoContext
    /\ stream' = [stream EXCEPT ![t] = @ + 1]
    /\ outbox' = [outbox EXCEPT ![t] = @ \ {a}]
    /\ UNCHANGED <<lock, lastLease, context, cancelled, unacked, status, message, selection,
                   diagnosis, branch, leaf, active, conversation, callers, worker, faults>>

\* XADD succeeds; the event or the mark after it does not, and the row is retried.
PublishUnmarked(t, a) ==
    /\ Fault("redelivery")
    /\ a \in outbox[t] /\ context[t] # NoContext
    /\ stream' = [stream EXCEPT ![t] = @ + 1]
    /\ UNCHANGED <<lock, lastLease, context, cancelled, unacked, database, callers, worker>>

\* The last attempt fails and the row is marked FAILED, ...
GiveUp(t, a) ==
    /\ \/ context[t] = NoContext /\ UNCHANGED faults
       \/ Fault("giveUp")
    /\ a \in outbox[t]
    /\ outbox' = [outbox EXCEPT ![t] = @ \ {a}]
    /\ givingUp' = givingUp \cup {t}
    /\ UNCHANGED <<redis, status, message, selection, diagnosis, branch, leaf, active,
                   conversation, submitting, stopping, choosing, flagging, worker>>

\* ... then its task, unless it has ended; release() without a lease id frees nothing.
FailGivenUp(t) ==
    /\ t \in givingUp
    /\ givingUp' = givingUp \ {t}
    /\ IF status[t] \in Ended THEN UNCHANGED <<status, message>>
                              ELSE SetTask(t, "FAILED", "FAILED")
    /\ UNCHANGED <<redis, selection, diagnosis, outbox, branch, leaf, active, conversation,
                   submitting, stopping, choosing, flagging, worker, faults>>

RelayCrash ==
    /\ "relayCrash" \in Faults
    /\ givingUp # {} /\ givingUp' = {}
    /\ faults' = [count |-> faults.count, kinds |-> faults.kinds \cup {"relayCrash"}]
    /\ UNCHANGED <<redis, database, submitting, stopping, choosing, flagging, worker>>

\* A variant that claims an entry another starting worker claimed already.
ClaimTwice(t) ==
    /\ unacked' = [unacked EXCEPT ![t] = @ - 1]
    /\ stream' = [stream EXCEPT ![t] = @ + 1]
    /\ UNCHANGED <<lock, lastLease, context, cancelled, database, callers, worker, faults>>

\* XAUTOCLAIM when a worker process starts: what a dead consumer left, or a
\* delivery whose consumer is alive but has it waiting for a semaphore slot,
\* before the heartbeat that would keep it from looking idle.
ClaimUnacked(t) ==
    /\ unacked[t] > 0
    /\ unacked' = [unacked EXCEPT ![t] = @ - 1]
    /\ stream' = [stream EXCEPT ![t] = @ + 1]
    /\ UNCHANGED <<lock, lastLease, context, cancelled, database, callers, worker, faults>>

ClaimWaiting(t) ==
    /\ Fault("redelivery")
    /\ stream[t] > 0
    /\ stream' = [stream EXCEPT ![t] = @ + 1]
    /\ UNCHANGED <<lock, lastLease, context, cancelled, unacked, database, callers, worker>>

-----------------------------------------------------------------------------
(* GenerationWorker._process *)

At(w, pcs) == worker[w].pc \in pcs
Goto(w, pc) ==
    worker' = [worker EXCEPT ![w] =
                 [pc |-> pc, task |-> worker[w].task, context |-> worker[w].context]]

\* A slot begins a delivery and reads its context.
Take(w, t) ==
    /\ At(w, {"idle"}) /\ stream[t] > 0
    /\ stream' = [stream EXCEPT ![t] = @ - 1]
    /\ worker' = [worker EXCEPT ![w] =
                    [pc |-> IF context[t] = NoContext THEN "expired" ELSE "loading",
                     task |-> t, context |-> context[t]]]
    /\ UNCHANGED <<lock, lastLease, context, cancelled, unacked, database, callers, faults>>

\* No context: the task fails, whatever its status, and no lease is released.
FailExpired(w) ==
    /\ At(w, {"expired"})
    /\ SetTask(worker[w].task, "FAILED", "FAILED")
    /\ worker' = [worker EXCEPT ![w] = Idle]
    /\ UNCHANGED <<redis, selection, diagnosis, outbox, branch, leaf, active, conversation,
                   callers, faults>>

\* A variant that starts any task that has not ended.
LoadStartAny(w) ==
    /\ At(w, {"loading"})
    /\ status[worker[w].task] \notin Ended
    /\ status' = [status EXCEPT ![worker[w].task] = "PREPARING"]
    /\ Goto(w, "started")
    /\ UNCHANGED <<redis, message, selection, diagnosis, outbox, branch, leaf, active,
                   conversation, callers, faults>>

\* _load_and_start, under the task's row lock
LoadStart(w) ==
    /\ At(w, {"loading"})
    /\ status[worker[w].task] = "QUEUED"
    /\ status' = [status EXCEPT ![worker[w].task] = "PREPARING"]
    /\ Goto(w, "started")
    /\ UNCHANGED <<redis, message, selection, diagnosis, outbox, branch, leaf, active,
                   conversation, callers, faults>>

LoadStopped(w) ==
    /\ At(w, {"loading"})
    /\ status[worker[w].task] = "STOP_REQUESTED"
    /\ SetTask(worker[w].task, "STOPPED", "STOPPED")
    /\ Goto(w, "announcing")
    /\ UNCHANGED <<redis, selection, diagnosis, outbox, branch, leaf, active, conversation,
                   callers, faults>>

\* A variant that ignores a task somebody asked to stop.
LoadIgnoredStop(w) ==
    /\ At(w, {"loading"})
    /\ status[worker[w].task] # "QUEUED"
    /\ worker' = [worker EXCEPT ![w] = Idle]
    /\ UNCHANGED <<redis, database, callers, faults>>

LoadIgnored(w) ==
    /\ At(w, {"loading"})
    /\ status[worker[w].task] \notin {"QUEUED", "STOP_REQUESTED"}
    /\ worker' = [worker EXCEPT ![w] = Idle]
    /\ UNCHANGED <<redis, database, callers, faults>>

\* task.started and graph.selected are published, then the cancel key is read.
Begin(w) ==
    /\ At(w, {"started"})
    /\ IF worker[w].task \in cancelled
          THEN SetTask(worker[w].task, "STOPPED", "STOPPED") /\ Goto(w, "announcing")
          ELSE UNCHANGED <<status, message>> /\ Goto(w, "running")
    /\ UNCHANGED <<redis, selection, diagnosis, outbox, branch, leaf, active, conversation,
                   callers, faults>>

\* The graph's status callbacks write unconditionally (PLANNING like EXECUTING).
Progress(w) ==
    /\ At(w, {"running"})
    /\ \/ SetTask(worker[w].task, "STREAMING", "STREAMING")
       \/ status' = [status EXCEPT ![worker[w].task] = "EXECUTING"] /\ UNCHANGED message
    /\ UNCHANGED <<redis, selection, diagnosis, outbox, branch, leaf, active, conversation,
                   callers, worker, faults>>

PersistFinal(t, s, m) ==
    /\ ~Locked
    /\ SetTask(t, s, m)
    /\ leaf' = [leaf EXCEPT ![branch[t]] = t]
    /\ UNCHANGED <<redis, selection, diagnosis, outbox, branch, active, conversation, callers,
                   faults>>

FinishAnswered(w) ==
    /\ At(w, {"running"})
    /\ \E s \in {"COMPLETED", "WAITING_INPUT"} : PersistFinal(worker[w].task, s, "COMPLETED")
    /\ Goto(w, "announcing")

FinishStopped(w) ==
    /\ At(w, {"running"}) /\ worker[w].task \in cancelled
    /\ PersistFinal(worker[w].task, "STOPPED", "STOPPED")
    /\ Goto(w, "announcing")

FinishFailed(w) ==
    /\ At(w, {"running"})
    /\ PersistFinal(worker[w].task, "FAILED", "FAILED")
    /\ Goto(w, "failing")

\* Only a new row of pending_entity_selections refers to the conversation's row.
WaitForSelection(w) ==
    /\ At(w, {"running"}) /\ context[worker[w].task] # NoContext
    /\ Locked => selection[worker[w].task] # "none"
    /\ SetTask(worker[w].task, "WAITING_SELECTION", "PENDING")
    /\ selection' = [selection EXCEPT ![worker[w].task] = "PENDING"]
    /\ Goto(w, "announcing")
    /\ UNCHANGED <<redis, diagnosis, outbox, branch, leaf, active, conversation, callers,
                   faults>>

WaitForDiagnosis(w) ==
    /\ At(w, {"running"})
    /\ IF status[worker[w].task] \in {"STOP_REQUESTED", "STOPPED"}
          THEN /\ SetTask(worker[w].task, "STOPPED", "STOPPED")
               /\ Goto(w, "announcing")
               /\ UNCHANGED diagnosis
          ELSE /\ ~Locked
               /\ SetTask(worker[w].task, "COMPLETED", "COMPLETED")
               /\ diagnosis' = [diagnosis EXCEPT ![worker[w].task] = "PENDING"]
               /\ Goto(w, "confirming")
    /\ UNCHANGED <<redis, selection, outbox, branch, leaf, active, conversation, callers,
                   faults>>

\* "The UI can send immediately after seeing the prompt": released before the events.
ReleaseEarly(w) ==
    /\ At(w, {"confirming"})
    /\ lock' = Freed(worker[w].context.lease)
    /\ Goto(w, "announcing")
    /\ UNCHANGED <<lastLease, context, cancelled, stream, unacked, database, callers, faults>>

\* The outcome's events, after its transaction; one of them may raise.
Announce(w) ==
    /\ At(w, {"announcing"})
    /\ Goto(w, "releasing")
    /\ UNCHANGED <<redis, database, callers, faults>>

AnnounceError(w) ==
    /\ Fault("publishError")
    /\ At(w, {"announcing"})
    /\ Goto(w, "failing")
    /\ UNCHANGED <<redis, database, callers>>

\* except AppError, except Exception
RunError(w) ==
    /\ At(w, {"started", "running"})
    /\ Goto(w, "failing")
    /\ UNCHANGED <<redis, database, callers, faults>>

FailTask(w) ==
    /\ At(w, {"failing"})
    /\ SetTask(worker[w].task, "FAILED", "FAILED")
    /\ Goto(w, "releasing")
    /\ UNCHANGED <<redis, selection, diagnosis, outbox, branch, leaf, active, conversation,
                   callers, faults>>

\* finally: close the task's open spans, release the lease read at the start, XACK
ReleaseRun(w) ==
    /\ At(w, {"releasing"})
    /\ lock' = Freed(worker[w].context.lease)
    /\ worker' = [worker EXCEPT ![w] = Idle]
    /\ UNCHANGED <<lastLease, context, cancelled, stream, unacked, database, callers, faults>>

WorkerCrash(w) ==
    /\ Fault("workerCrash")
    /\ ~At(w, {"idle"})
    /\ unacked' = [unacked EXCEPT ![worker[w].task] = @ + 1]
    /\ worker' = [worker EXCEPT ![w] = Idle]
    /\ UNCHANGED <<lock, lastLease, context, cancelled, stream, database, callers>>

\* run_worker.py stops: the deliveries the read loop still took are cancelled, and
\* finally releases what _load_and_start had started and acknowledges the delivery.
WorkerShutdown(w) ==
    /\ Fault("workerShutdown")
    /\ ~At(w, {"idle"})
    /\ lock' = IF At(w, {"loading", "expired"}) THEN lock ELSE Freed(worker[w].context.lease)
    /\ worker' = [worker EXCEPT ![w] = Idle]
    /\ UNCHANGED <<lastLease, context, cancelled, stream, unacked, database, callers>>

-----------------------------------------------------------------------------
(* TaskService.stop: the transaction, then the cancel key, then the release *)

\* A variant that forgets the assistant message.
StopWaitingTaskOnly(t) ==
    /\ stopping[t] = "idle" /\ ~Locked /\ status[t] \in Waiting
    /\ status' = [status EXCEPT ![t] = "STOPPED"]
    /\ stopping' = [stopping EXCEPT ![t] = "stopped"]
    /\ UNCHANGED <<redis, message, selection, diagnosis, outbox, branch, leaf, active,
                   conversation, submitting, choosing, flagging, givingUp, worker, faults>>

\* A variant that accepts a task that has ended.
StopRequestAny(t) ==
    /\ stopping[t] = "idle" /\ ~Locked /\ status[t] \notin Waiting \cup {"none"}
    /\ status' = [status EXCEPT ![t] = "STOP_REQUESTED"]
    /\ stopping' = [stopping EXCEPT ![t] = "requested"]
    /\ UNCHANGED <<redis, message, selection, diagnosis, outbox, branch, leaf, active,
                   conversation, submitting, choosing, flagging, givingUp, worker, faults>>

StopWaiting(t) ==
    /\ stopping[t] = "idle" /\ ~Locked /\ status[t] \in Waiting
    /\ SetTask(t, "STOPPED", "STOPPED")
    /\ stopping' = [stopping EXCEPT ![t] = "stopped"]
    /\ UNCHANGED <<redis, selection, diagnosis, outbox, branch, leaf, active, conversation,
                   submitting, choosing, flagging, givingUp, worker, faults>>

StopRequest(t) ==
    /\ stopping[t] = "idle" /\ ~Locked /\ status[t] \in Active
    /\ status' = [status EXCEPT ![t] = "STOP_REQUESTED"]
    /\ stopping' = [stopping EXCEPT ![t] = "requested"]
    /\ UNCHANGED <<redis, message, selection, diagnosis, outbox, branch, leaf, active,
                   conversation, submitting, choosing, flagging, givingUp, worker, faults>>

StopFlag(t) ==
    /\ stopping[t] \in {"requested", "stopped"}
    /\ cancelled' = cancelled \cup {t}
    /\ stopping' = [stopping EXCEPT ![t] = IF @ = "stopped" THEN "releasing" ELSE "idle"]
    /\ UNCHANGED <<lock, lastLease, context, stream, unacked, database, submitting, choosing,
                   flagging, givingUp, worker, faults>>

\* A variant that releases whatever lease the conversation has.
StopReleaseAny(t) ==
    /\ stopping[t] = "releasing"
    /\ lock' = NoLease
    /\ stopping' = [stopping EXCEPT ![t] = "idle"]
    /\ UNCHANGED <<lastLease, context, cancelled, stream, unacked, database, submitting,
                   choosing, flagging, givingUp, worker, faults>>

\* The lease id comes from the context as it is now.
StopRelease(t) ==
    /\ stopping[t] = "releasing"
    /\ lock' = IF context[t] = NoContext THEN lock ELSE Freed(context[t].lease)
    /\ stopping' = [stopping EXCEPT ![t] = "idle"]
    /\ UNCHANGED <<lastLease, context, cancelled, stream, unacked, database, submitting,
                   choosing, flagging, givingUp, worker, faults>>

\* The process dies, or publishing the stop event raises after the cancel key.
StopCrash(t) ==
    /\ \/ Fault("apiCrash")
       \/ stopping[t] = "releasing" /\ Fault("publishError")
    /\ stopping[t] # "idle"
    /\ stopping' = [stopping EXCEPT ![t] = "idle"]
    /\ UNCHANGED <<redis, database, submitting, choosing, flagging, givingUp, worker>>

-----------------------------------------------------------------------------
(* select_entity and select_diagnosis_mode *)

ChooseAcquire(t) ==
    /\ choosing[t] = NotChoosing
    /\ PendingSelection(t) \/ PendingDiagnosis(t)
    /\ AcquireLease
    /\ choosing' = [choosing EXCEPT ![t] = [pc |-> "acquired", lease |-> lastLease']]
    /\ UNCHANGED <<context, cancelled, stream, unacked, database, submitting, stopping,
                   flagging, givingUp, worker, faults>>

ChoicePc(t, pc) ==
    choosing' = [choosing EXCEPT ![t] = [pc |-> pc, lease |-> choosing[t].lease]]
AtLeaf(t) == leaf[branch[t]] = t
ResumeContext(t) == [lease |-> choosing[t].lease, attempt |-> context[t].attempt + 1]

\* Both write the context and drop the cancel key before COMMIT.
Requeue(t) ==
    /\ choosing[t].pc = "acquired" /\ context[t] # NoContext /\ ~Locked
    /\ SetTask(t, "QUEUED", "PENDING")
    /\ context' = [context EXCEPT ![t] = ResumeContext(t)]
    /\ cancelled' = cancelled \ {t}
    /\ outbox' = [outbox EXCEPT ![t] = @ \cup {context[t].attempt + 1}]
    /\ UNCHANGED <<lock, lastLease, stream, unacked, branch, leaf, active, conversation,
                   submitting, stopping, flagging, givingUp, worker, faults>>

\* A variant that requeues the task and adds no outbox row.
SelectEntityNoRow(t) ==
    /\ PendingSelection(t) /\ AtLeaf(t)
    /\ choosing[t].pc = "acquired" /\ context[t] # NoContext /\ ~Locked
    /\ SetTask(t, "QUEUED", "PENDING")
    /\ context' = [context EXCEPT ![t] = ResumeContext(t)]
    /\ selection' = [selection EXCEPT ![t] = "SELECTED"]
    /\ ChoicePc(t, "announcing")
    /\ UNCHANGED <<lock, lastLease, cancelled, stream, unacked, diagnosis, outbox, branch, leaf,
                   active, conversation, submitting, stopping, flagging, givingUp, worker,
                   faults>>

SelectEntity(t) ==
    /\ PendingSelection(t) /\ AtLeaf(t)
    /\ Requeue(t)
    /\ selection' = [selection EXCEPT ![t] = "SELECTED"]
    /\ ChoicePc(t, "announcing")
    /\ UNCHANGED diagnosis

\* entity.selection.completed is published inside the try that releases the lease.
SelectAnnounced(t) ==
    /\ choosing[t].pc = "announcing"
    /\ choosing' = [choosing EXCEPT ![t] = NotChoosing]
    /\ \/ UNCHANGED <<lock, faults>>
       \/ Fault("publishError") /\ lock' = Freed(choosing[t].lease)
    /\ UNCHANGED <<lastLease, context, cancelled, stream, unacked, database, submitting,
                   stopping, flagging, givingUp, worker>>

ChoosableDiagnosis(t) == PendingDiagnosis(t) /\ active = branch[t] /\ AtLeaf(t)

SelectDiagnosis(t) ==
    /\ ChoosableDiagnosis(t)
    /\ Requeue(t)
    /\ diagnosis' = [diagnosis EXCEPT ![t] = "SELECTED"]
    /\ choosing' = [choosing EXCEPT ![t] = NotChoosing]
    /\ UNCHANGED selection

CancelDiagnosis(t) ==
    /\ choosing[t].pc = "acquired" /\ ChoosableDiagnosis(t) /\ ~Locked
    /\ SetTask(t, "STOPPED", "STOPPED")
    /\ diagnosis' = [diagnosis EXCEPT ![t] = "SELECTED"]
    /\ ChoicePc(t, "refused")
    /\ UNCHANGED <<redis, selection, outbox, branch, leaf, active, conversation, submitting,
                   stopping, flagging, givingUp, worker, faults>>

\* A variant that reports the conflict and keeps the lease.
ChoiceRefusedKeepsLease(t) ==
    /\ choosing[t].pc \in {"acquired", "refused"}
    /\ choosing' = [choosing EXCEPT ![t] = NotChoosing]
    /\ UNCHANGED <<redis, database, submitting, stopping, flagging, givingUp, worker, faults>>

\* Stale, expired or unknown choice: nothing was written.
ChoiceRefused(t) ==
    /\ choosing[t].pc \in {"acquired", "refused"}
    /\ lock' = Freed(choosing[t].lease)
    /\ choosing' = [choosing EXCEPT ![t] = NotChoosing]
    /\ UNCHANGED <<lastLease, context, cancelled, stream, unacked, database, submitting,
                   stopping, flagging, givingUp, worker, faults>>

\* The leaf check of select_entity, or the database, fails after the Redis writes.
ChoiceRolledBack(t) ==
    /\ choosing[t].pc = "acquired" /\ context[t] # NoContext /\ ~Locked
    /\ \/ PendingSelection(t) /\ ~AtLeaf(t) /\ UNCHANGED faults
       \/ (PendingSelection(t) \/ ChoosableDiagnosis(t)) /\ Fault("databaseError")
    /\ context' = [context EXCEPT ![t] = ResumeContext(t)]
    /\ cancelled' = cancelled \ {t}
    /\ ChoicePc(t, "refused")
    /\ UNCHANGED <<lock, lastLease, stream, unacked, database, submitting, stopping, flagging,
                   givingUp, worker>>

ChoiceCrash(t) ==
    /\ Fault("apiCrash")
    /\ choosing[t] # NotChoosing
    /\ choosing' = [choosing EXCEPT ![t] = NotChoosing]
    /\ UNCHANGED <<redis, database, submitting, stopping, flagging, givingUp, worker>>

ExpireDiagnosis(t) ==
    /\ PendingDiagnosis(t) /\ ~Locked
    /\ diagnosis' = [diagnosis EXCEPT ![t] = "EXPIRED"]
    /\ UNCHANGED <<redis, status, message, selection, outbox, branch, leaf, active,
                   conversation, callers, worker, faults>>

-----------------------------------------------------------------------------
(* ConversationService *)

\* delete() locks the conversation and reads which tasks have not ended ...
DeleteStart ==
    /\ "deletion" \in Faults
    /\ conversation = "ACTIVE" /\ \E t \in Task : status[t] # "none"
    /\ conversation' = "deleting"
    /\ flagging' = {t \in Task : status[t] \in Active \cup Waiting}
    /\ UNCHANGED <<redis, status, message, selection, diagnosis, outbox, branch, leaf, active,
                   submitting, stopping, choosing, givingUp, worker, faults>>

\* ... and updates those without looking at their status again.
DeleteCommit ==
    /\ conversation = "deleting"
    /\ conversation' = "DELETED"
    /\ status' = [t \in Task |-> IF t \in flagging THEN "STOP_REQUESTED" ELSE status[t]]
    /\ UNCHANGED <<redis, message, selection, diagnosis, outbox, branch, leaf, active, callers,
                   worker, faults>>

\* The cancel keys are written one by one after COMMIT.
FlagDeleted(t) ==
    /\ conversation = "DELETED" /\ t \in flagging
    /\ flagging' = flagging \ {t}
    /\ cancelled' = cancelled \cup {t}
    /\ UNCHANGED <<lock, lastLease, context, stream, unacked, database, submitting, stopping,
                   choosing, givingUp, worker, faults>>

DeleteCrash ==
    /\ Fault("apiCrash")
    /\ flagging # {} \/ Locked
    /\ flagging' = {}
    /\ conversation' = IF Locked THEN "ACTIVE" ELSE conversation
    /\ UNCHANGED <<redis, status, message, selection, diagnosis, outbox, branch, leaf, active,
                   submitting, stopping, choosing, givingUp, worker>>

ActivateBranch(b) ==
    /\ conversation = "ACTIVE" /\ b # active
    /\ b = Root \/ (b \in Task /\ branch[b] = b)
    /\ \A t \in Task : status[t] \in Ended \cup {"none"}
    /\ active' = b
    /\ UNCHANGED <<redis, status, message, selection, diagnosis, outbox, branch, leaf,
                   conversation, callers, worker, faults>>

-----------------------------------------------------------------------------
(* Redis expiry.  A slot's heartbeat renews the lease its task's context     *)
(* names now, as long as there is a context.                                 *)

Renewed(l) == \E w \in Worker : ~At(w, {"idle"}) /\ context[worker[w].task].lease = l

ExpireLease ==
    /\ Fault("leaseExpiry")
    /\ lock # NoLease /\ ~Renewed(lock)
    /\ lock' = NoLease
    /\ UNCHANGED <<lastLease, context, cancelled, stream, unacked, database, callers, worker>>

ExpireContext(t) ==
    /\ Fault("contextExpiry")
    /\ context[t] # NoContext
    /\ context' = [context EXCEPT ![t] = NoContext]
    /\ UNCHANGED <<lock, lastLease, cancelled, stream, unacked, database, callers, worker>>

-----------------------------------------------------------------------------
Submissions(t) == SubmitAcquire(t) \/ Send(t) \/ Fork(t) \/ SubmitRefused(t) \/ SubmitCrash(t)

Relay(t) ==
    \/ \E a \in outbox[t] : Publish(t, a) \/ PublishUnmarked(t, a) \/ GiveUp(t, a)
    \/ FailGivenUp(t)
    \/ ClaimUnacked(t) \/ ClaimWaiting(t)

Process(w) ==
    \/ \E t \in Task : Take(w, t)
    \/ FailExpired(w) \/ LoadStart(w) \/ LoadStopped(w) \/ LoadIgnored(w)
    \/ Begin(w) \/ FinishAnswered(w) \/ FinishStopped(w) \/ FinishFailed(w)
    \/ WaitForSelection(w) \/ WaitForDiagnosis(w) \/ ReleaseEarly(w)
    \/ Announce(w) \/ RunError(w) \/ FailTask(w) \/ ReleaseRun(w)

Stops(t) == StopWaiting(t) \/ StopRequest(t) \/ StopFlag(t) \/ StopRelease(t) \/ StopCrash(t)

Choices(t) ==
    \/ ChooseAcquire(t) \/ SelectEntity(t) \/ SelectAnnounced(t) \/ SelectDiagnosis(t)
    \/ CancelDiagnosis(t) \/ ChoiceRefused(t) \/ ChoiceRolledBack(t) \/ ChoiceCrash(t)
    \/ ExpireDiagnosis(t)

Next ==
    \/ \E t \in Task : Submissions(t) \/ Relay(t) \/ Stops(t) \/ Choices(t)
    \/ \E w \in Worker : Process(w) \/ Progress(w) \/ AnnounceError(w) \/ WorkerCrash(w)
                       \/ WorkerShutdown(w)
    \/ RelayCrash
    \/ DeleteStart \/ DeleteCommit \/ DeleteCrash \/ \E t \in Task : FlagDeleted(t)
    \/ \E b \in Branch : ActivateBranch(b)
    \/ ExpireLease \/ \E t \in Task : ExpireContext(t)

Spec == Init /\ [][Next]_vars

(***************************************************************************)
(* What the event loops owe: a coroutine that was started runs to its end  *)
(* (a run within agent_timeout_seconds, so Process leaves "running"), the  *)
(* relay polls, the worker reads the stream.  Nothing is owed by users, by *)
(* the startup claim, or by expiry.                                        *)
(***************************************************************************)
Fairness ==
    /\ \A t \in Task :
        /\ WF_vars(Send(t) \/ Fork(t) \/ SubmitRefused(t))
        /\ WF_vars(\E a \in outbox[t] : Publish(t, a))
        /\ WF_vars(FailGivenUp(t))
        /\ WF_vars(StopFlag(t) \/ StopRelease(t))
        /\ WF_vars(SelectEntity(t) \/ SelectAnnounced(t) \/ SelectDiagnosis(t)
                     \/ CancelDiagnosis(t) \/ ChoiceRefused(t))
        /\ WF_vars(FlagDeleted(t))
    /\ WF_vars(DeleteCommit)
    /\ \A w \in Worker : WF_vars(Process(w))

FairSpec == Spec /\ Fairness

-----------------------------------------------------------------------------
Executing(w) == At(w, {"started", "running"})
None(kinds) == faults.kinds \cap kinds = {}

\* The faults after which a task may have a second delivery, or a run lose its lease.
Duplicating == {"redelivery", "workerCrash"}
LeaseLoss == Duplicating \cup {"workerShutdown", "publishError", "contextExpiry", "leaseExpiry"}
RunsOn(w, t) == worker[w].task = t

\* Every variable holds a value of its type, and a busy slot has a task.
TypeOK ==
    /\ lock \in Nat /\ lastLease \in Nat
    /\ context \in [Task -> [lease : Nat, attempt : Nat]]
    /\ cancelled \subseteq Task
    /\ stream \in [Task -> Nat] /\ unacked \in [Task -> Nat]
    /\ status \in [Task -> TaskStatus] /\ message \in [Task -> MessageStatus]
    /\ selection \in [Task -> {"none", "PENDING", "SELECTED"}]
    /\ diagnosis \in [Task -> {"none", "PENDING", "SELECTED", "SUPERSEDED", "EXPIRED"}]
    /\ outbox \in [Task -> SUBSET Nat]
    /\ branch \in [Task -> Branch] /\ leaf \in [Branch -> Task \cup {NoTask}]
    /\ active \in Branch /\ conversation \in {"ACTIVE", "deleting", "DELETED"}
    /\ submitting \in [Task -> Nat]
    /\ stopping \in [Task -> {"idle", "requested", "stopped", "releasing"}]
    /\ choosing \in [Task -> [pc : {"idle", "acquired", "announcing", "refused"}, lease : Nat]]
    /\ flagging \subseteq Task /\ givingUp \subseteq Task
    /\ worker \in [Worker ->
           [pc : {"idle", "expired", "loading", "started", "running", "confirming",
                  "announcing", "failing", "releasing"},
            task : Task \cup {NoTask}, context : [lease : Nat, attempt : Nat]]]
    /\ \A w \in Worker : ~At(w, {"idle"}) => worker[w].task \in Task
    /\ faults \in [count : Nat, kinds : SUBSET FaultKinds]

(***************************************************************************)
(* However often a task is delivered, at most one slot executes it: the    *)
(* row lock of _load_and_start and the states the task can be requeued     *)
(* from keep every other delivery out until the first run has written its  *)
(* outcome.                                                                *)
(***************************************************************************)
OneRunPerTask ==
    \A v, w \in Worker :
        Executing(v) /\ Executing(w) /\ worker[v].task = worker[w].task => v = w

Deliverable(t) ==
    \/ outbox[t] # {} \/ t \in givingUp
    \/ stream[t] > 0 \/ unacked[t] > 0
    \/ \E w \in Worker : At(w, {"loading", "expired"}) /\ RunsOn(w, t)
QueuedAreDeliverable == \A t \in Task : status[t] = "QUEUED" => Deliverable(t)

(***************************************************************************)
(* A committed QUEUED task is never forgotten: a row the relay will still  *)
(* publish, a delivery in the stream or in a dead consumer's pending list, *)
(* a slot that has taken it, or a relay about to fail it stands for it,    *)
(* across every fault but two: a worker's shutdown acknowledges a delivery *)
(* it has only read, and a relay can die between its last two steps.       *)
(***************************************************************************)
QueuedIsDeliverable == None({"workerShutdown", "relayCrash"}) => QueuedAreDeliverable

(***************************************************************************)
(* The assistant message a reader sees agrees with its task: whoever ends, *)
(* pauses or requeues a task, worker, relay or API, writes both.           *)
(***************************************************************************)
MessageAgrees ==
    \A t \in Task :
        /\ status[t] \in Ended => message[t] = status[t]
        /\ status[t] \in {"QUEUED", "PREPARING", "WAITING_SELECTION"} => message[t] = "PENDING"
        /\ status[t] = "WAITING_INPUT" => message[t] = "COMPLETED"

(***************************************************************************)
(* The conversation's lease follows the run.  As long as no fault can      *)
(* duplicate a delivery or lose a lease: a run executes under the lease,   *)
(* and the context it read before it locked the task's row is still the    *)
(* task's context.  And "waiting never occupies a worker lease": unless a  *)
(* delivery was duplicated, or an API process died between the rollback of *)
(* a choice and the return of its lease, once the run that asked the       *)
(* question has left, a task that waits for the user holds no lease, also  *)
(* after a choice that was refused or rolled back.                         *)
(***************************************************************************)
LeaseFollowsRun ==
    /\ None(LeaseLoss) =>
        \A w \in Worker : Executing(w) =>
            /\ lock = worker[w].context.lease
            /\ context[worker[w].task] = worker[w].context
    /\ None(Duplicating \cup {"apiCrash"}) => \A t \in Task :
        /\ status[t] \in Waiting \/ PendingDiagnosis(t)
        /\ choosing[t] = NotChoosing
        /\ \A w \in Worker : ~RunsOn(w, t)
        => lock # context[t].lease \/ lock = NoLease

(***************************************************************************)
(* As long as no fault can duplicate a delivery or lose a lease: a turn    *)
(* that is under way, or may be resumed by an answer, is the latest of its *)
(* branch, so it is never resumed into a newer conversational state.       *)
(***************************************************************************)
TurnIsLatestOnBranch ==
    None(LeaseLoss) /\ conversation # "DELETED" => \A t \in Task :
        status[t] \in Active \cup {"WAITING_SELECTION"} \/ PendingDiagnosis(t) => AtLeaf(t)

(***************************************************************************)
(* "A duplicate queue delivery does not own the executing worker's spans": *)
(* a slot that closes a task's open spans and releases its lease leaves no *)
(* other slot executing it.  (The early release of a diagnosis question is *)
(* left aside.)                                                            *)
(***************************************************************************)
DuplicateOwnsNoSpans ==
    \A v, w \in Worker :
        At(v, {"releasing"}) /\ Executing(w) /\ diagnosis[worker[w].task] = "none"
            => worker[v].task # worker[w].task

(***************************************************************************)
(* "While WAITING_SELECTION, the conversation-level concurrency fence      *)
(* blocks a new turn": no other task is under way meanwhile.               *)
(***************************************************************************)
SelectionBlocksNewTurn ==
    \A t, u \in Task : PendingSelection(t) /\ status[u] \in Active => t = u

(***************************************************************************)
(* An ended task changes only when its own pending diagnosis question is   *)
(* answered: no late worker, relay or API write reopens or relabels it.    *)
(* Only delete(), which updates tasks it has not locked, may, and a run    *)
(* that was duplicated or whose announcement failed.                       *)
(***************************************************************************)
EndedIsFinal ==
    [][None(Duplicating \cup {"publishError"}) => \A t \in Task : status[t] \in Ended =>
          \/ status'[t] = status[t]
          \/ PendingDiagnosis(t) /\ diagnosis'[t] = "SELECTED"
          \/ DeleteCommit]_vars

(***************************************************************************)
(* As long as no fault happens and the conversation is not deleted: a turn *)
(* under way reaches an end or a question to the user; and the lease of    *)
(* the conversation always comes back.                                     *)
(***************************************************************************)
TurnEnds ==
    /\ \A t \in Task :
         status[t] \in Active ~>
            \/ status[t] \in Ended \cup Waiting
            \/ conversation = "DELETED" \/ faults.count > 0
    /\ lock # NoLease ~> lock = NoLease \/ faults.count > 0
=============================================================================
