------------------------------- MODULE Outbox -------------------------------
(***************************************************************************)
(* The transactional outbox: OutboxService, OutboxRepository and           *)
(* OutboxWorker.  A row is claimed in one transaction, put on its Redis    *)
(* stream, and marked in another; the relay does so for a batch of due     *)
(* rows at a time, and the request that wrote a row may do it at once      *)
(* (publish_fast).  Time shows only as a lock going stale                  *)
(* (outbox_lock_timeout_seconds) and a backoff ending.                     *)
(***************************************************************************)
EXTENDS Naturals, FiniteSets

CONSTANTS Row,           \* outbox_events
          GenerationRow, \* those with event_type generation.enqueue
          Relay,         \* OutboxWorker processes
          Api,           \* stands for every caller of publish_fast
          BatchSize,     \* outbox_batch_size
          MaxAttempts,   \* outbox_max_attempts
          Faults,        \* the kinds of fault this instance is exposed to
          MaxFaults      \* bound: faults in one behaviour

FaultKinds == {"crash", "slow", "redisError", "databaseError", "contextExpiry"}
Publisher == Relay \cup {Api}

ASSUME OutboxAssumption ==
    /\ GenerationRow \subseteq Row
    /\ Api \notin Relay /\ IsFiniteSet(Relay)
    /\ BatchSize \in Nat \ {0} /\ MaxAttempts \in Nat \ {0}
    /\ Faults \subseteq FaultKinds /\ MaxFaults \in Nat

VARIABLES
    status,    \* outbox_events.status, "none" before the row is committed
    attempts,  \* attempt_count
    lock,      \* locked_at: none, recent, or older than the timeout
    due,       \* rows whose available_at has come
    sent,      \* entries added to the row's stream
    task,      \* the generation task the row enqueues
    expired,   \* rows whose task context has expired
    fast,      \* rows whose request may still call publish_fast
    work,      \* what each publisher is doing with each row
    faultCount,
    suffered   \* the kinds of fault each row has been exposed to

rows == <<status, attempts, lock, due>>
faults == <<faultCount, suffered>>
vars == <<rows, sent, task, expired, fast, work, faults>>

Rest == [pc |-> "rest", attempt |-> 0]

Init ==
    /\ status = [r \in Row |-> "none"] /\ attempts = [r \in Row |-> 0]
    /\ lock = [r \in Row |-> "none"] /\ due = {}
    /\ sent = [r \in Row |-> 0] /\ task = [r \in Row |-> "queued"]
    /\ expired = {} /\ fast = {}
    /\ work = [p \in Publisher |-> [r \in Row |-> Rest]]
    /\ faultCount = 0 /\ suffered = [r \in Row |-> {}]

Fault(kind, S) ==
    /\ kind \in Faults /\ faultCount < MaxFaults
    /\ faultCount' = faultCount + 1
    /\ suffered' = [r \in Row |-> IF r \in S THEN suffered[r] \cup {kind} ELSE suffered[r]]

Is(p, r, pcs) == work[p][r].pc \in pcs
Goto(p, r, pc) ==
    work' = [work EXCEPT ![p] = [work[p] EXCEPT ![r] = [pc |-> pc, attempt |-> work[p][r].attempt]]]
Leave(p, r) == work' = [work EXCEPT ![p] = [work[p] EXCEPT ![r] = Rest]]

-----------------------------------------------------------------------------
\* add(), committed with the state it announces; publish_fast may follow.
Add(r) ==
    /\ status[r] = "none"
    /\ status' = [status EXCEPT ![r] = "PENDING"]
    /\ due' = due \cup {r}
    /\ fast' \in {fast, fast \cup {r}}
    /\ UNCHANGED <<attempts, lock, sent, task, expired, work, faults>>

\* A variant that also claims rows whose lock is recent.
ClaimableLocked(r) == status[r] \in {"PENDING", "PROCESSING"}

\* A variant that never claims a row again.
ClaimableOnce(r) == status[r] = "PENDING"

Claimable(r) == status[r] = "PENDING" \/ (status[r] = "PROCESSING" /\ lock[r] = "stale")

\* A variant that does not count the attempt.
ClaimUncounted(p, S) ==
    /\ status' = [r \in Row |-> IF r \in S THEN "PROCESSING" ELSE status[r]]
    /\ lock' = [r \in Row |-> IF r \in S THEN "recent" ELSE lock[r]]
    /\ work' = [work EXCEPT ![p] =
                  [r \in Row |-> IF r \in S THEN [pc |-> "claimed", attempt |-> attempts[r] + 1]
                                            ELSE work[p][r]]]
    /\ UNCHANGED <<attempts, due, sent, task, expired, faults>>

Claim(p, S) ==
    /\ status' = [r \in Row |-> IF r \in S THEN "PROCESSING" ELSE status[r]]
    /\ lock' = [r \in Row |-> IF r \in S THEN "recent" ELSE lock[r]]
    /\ attempts' = [r \in Row |-> IF r \in S THEN attempts[r] + 1 ELSE attempts[r]]
    /\ work' = [work EXCEPT ![p] =
                  [r \in Row |-> IF r \in S THEN [pc |-> "claimed", attempt |-> attempts[r] + 1]
                                            ELSE work[p][r]]]
    /\ UNCHANGED <<due, sent, task, expired, faults>>

\* The relay claims again when every row of its last batch is done with.  Which
\* rows it gets is open: SKIP LOCKED passes over those in another transaction.
ClaimBatch(p) ==
    /\ \A r \in Row : Is(p, r, {"rest"})
    /\ \E S \in SUBSET {r \in due : Claimable(r)} :
         /\ S # {} /\ Cardinality(S) <= BatchSize
         /\ Claim(p, S)
    /\ UNCHANGED fast

\* publish_fast looks at neither available_at nor the batch.
ClaimFast(r) ==
    /\ r \in fast /\ fast' = fast \ {r}
    /\ Claimable(r) /\ Is(Api, r, {"rest"})
    /\ Claim(Api, {r})

\* Claimed by others, locked, or the request's process died first.
MissFast(r) ==
    /\ r \in fast /\ fast' = fast \ {r}
    /\ UNCHANGED <<rows, sent, task, expired, work, faults>>

-----------------------------------------------------------------------------
(* _publish_claimed *)

Deliverable(r) == r \notin GenerationRow \cap expired

Sent(r) == sent' = [sent EXCEPT ![r] = @ + 1]

Dispatch(p, r) ==
    /\ Is(p, r, {"claimed"}) /\ Deliverable(r)
    /\ Sent(r)
    /\ Goto(p, r, "sent")
    /\ UNCHANGED <<rows, task, expired, fast, faults>>

\* The entry is in the stream, but its task.queued event cannot be published.
DispatchHalf(p, r) ==
    /\ Fault("databaseError", {r})
    /\ Is(p, r, {"claimed"}) /\ r \in GenerationRow /\ Deliverable(r)
    /\ Sent(r)
    /\ Goto(p, r, "failing")
    /\ UNCHANGED <<rows, task, expired, fast>>

\* A variant that takes a failed dispatch for a success.
DispatchFailedUnseen(p, r) ==
    /\ Is(p, r, {"claimed"})
    /\ Goto(p, r, "sent")
    /\ \/ ~Deliverable(r) /\ UNCHANGED faults
       \/ Fault("redisError", {r})
    /\ UNCHANGED <<rows, sent, task, expired, fast>>

DispatchFailed(p, r) ==
    /\ Is(p, r, {"claimed"})
    /\ Goto(p, r, "failing")
    /\ \/ ~Deliverable(r) /\ UNCHANGED faults
       \/ Fault("redisError", {r})
    /\ UNCHANGED <<rows, sent, task, expired, fast>>

\* Neither mark checks that the row is still locked by this publisher.
MarkPublished(p, r) ==
    /\ Is(p, r, {"sent"})
    /\ status' = [status EXCEPT ![r] = "PUBLISHED"]
    /\ lock' = [lock EXCEPT ![r] = "none"]
    /\ Leave(p, r)
    /\ UNCHANGED <<attempts, due, sent, task, expired, fast, faults>>

MarkRetry(p, r) ==
    /\ Is(p, r, {"failing"}) /\ work[p][r].attempt < MaxAttempts
    /\ status' = [status EXCEPT ![r] = "PENDING"]
    /\ lock' = [lock EXCEPT ![r] = "none"]
    /\ due' = due \ {r}
    /\ Leave(p, r)
    /\ UNCHANGED <<attempts, sent, task, expired, fast, faults>>

\* A variant that forgets the task.
MarkFailedOnly(p, r) ==
    /\ Is(p, r, {"failing"}) /\ work[p][r].attempt >= MaxAttempts
    /\ status' = [status EXCEPT ![r] = "FAILED"]
    /\ lock' = [lock EXCEPT ![r] = "none"]
    /\ Leave(p, r)
    /\ UNCHANGED <<attempts, due, sent, task, expired, fast, faults>>

MarkFailed(p, r) ==
    /\ Is(p, r, {"failing"}) /\ work[p][r].attempt >= MaxAttempts
    /\ status' = [status EXCEPT ![r] = "FAILED"]
    /\ lock' = [lock EXCEPT ![r] = "none"]
    /\ IF r \in GenerationRow THEN Goto(p, r, "givingUp") ELSE Leave(p, r)
    /\ UNCHANGED <<attempts, due, sent, task, expired, fast, faults>>

\* _fail_generation_task, a transaction of its own
FailGenerationTask(p, r) ==
    /\ Is(p, r, {"givingUp"})
    /\ task' = [task EXCEPT ![r] = IF @ = "queued" THEN "failed" ELSE @]
    /\ Leave(p, r)
    /\ UNCHANGED <<rows, sent, expired, fast, faults>>

\* A mark that raises leaves the row as it is.
Abandon(p, r) ==
    /\ Fault("databaseError", {r})
    /\ Is(p, r, {"sent", "failing", "givingUp"})
    /\ Leave(p, r)
    /\ UNCHANGED <<rows, sent, task, expired, fast>>

Crash(p) ==
    /\ \E r \in Row : ~Is(p, r, {"rest"})
    /\ Fault("crash", {r \in Row : ~Is(p, r, {"rest"})})
    /\ work' = [work EXCEPT ![p] = [r \in Row |-> Rest]]
    /\ UNCHANGED <<rows, sent, task, expired, fast>>

-----------------------------------------------------------------------------
(* Time, Redis, and the worker that runs the task *)

Working(p, r) == Is(p, r, {"claimed", "sent", "failing"})

\* Publishing takes longer than the lock timeout only as a fault.
LockExpires(r) ==
    /\ status[r] = "PROCESSING" /\ lock[r] = "recent"
    /\ \/ (\A p \in Publisher : ~Working(p, r)) /\ UNCHANGED faults
       \/ Fault("slow", {r})
    /\ lock' = [lock EXCEPT ![r] = "stale"]
    /\ UNCHANGED <<status, attempts, due, sent, task, expired, fast, work>>

BackoffEnds(r) ==
    /\ status[r] \notin {"none"} /\ r \notin due
    /\ due' = due \cup {r}
    /\ UNCHANGED <<status, attempts, lock, sent, task, expired, fast, work, faults>>

ExpireContext(r) ==
    /\ Fault("contextExpiry", {r})
    /\ r \notin expired /\ expired' = expired \cup {r}
    /\ UNCHANGED <<rows, sent, task, fast, work>>

TaskEnds(r) ==
    /\ task[r] = "queued" /\ sent[r] > 0
    /\ task' = [task EXCEPT ![r] = "ended"]
    /\ UNCHANGED <<rows, sent, expired, fast, work, faults>>

-----------------------------------------------------------------------------
Publish(p, r) ==
    \/ Dispatch(p, r) \/ DispatchFailed(p, r) \/ MarkPublished(p, r)
    \/ MarkRetry(p, r) \/ MarkFailed(p, r) \/ FailGenerationTask(p, r)

Next ==
    \/ \E r \in Row : Add(r) \/ ClaimFast(r) \/ MissFast(r)
    \/ \E p \in Relay : ClaimBatch(p)
    \/ \E p \in Publisher, r \in Row : Publish(p, r) \/ DispatchHalf(p, r) \/ Abandon(p, r)
    \/ \E p \in Publisher : Crash(p)
    \/ \E r \in Row : LockExpires(r) \/ BackoffEnds(r) \/ ExpireContext(r) \/ TaskEnds(r)

Spec == Init /\ [][Next]_vars

(***************************************************************************)
(* Relays poll, a claimed row's coroutine runs to its end, time passes.    *)
(***************************************************************************)
Fairness ==
    /\ WF_vars(\E p \in Relay : ClaimBatch(p))
    /\ \A p \in Publisher, r \in Row : WF_vars(Publish(p, r))
    /\ \A r \in Row : WF_vars(LockExpires(r)) /\ WF_vars(BackoffEnds(r))

FairSpec == Spec /\ Fairness

-----------------------------------------------------------------------------
\* Every variable holds a value of its type, and the attempt a publisher works
\* on, from which it computes backoff and give-up, is one that was counted.
TypeOK ==
    /\ status \in [Row -> {"none", "PENDING", "PROCESSING", "PUBLISHED", "FAILED"}]
    /\ attempts \in [Row -> Nat]
    /\ lock \in [Row -> {"none", "recent", "stale"}]
    /\ due \subseteq Row
    /\ sent \in [Row -> Nat]
    /\ task \in [Row -> {"queued", "ended", "failed"}]
    /\ expired \subseteq Row /\ fast \subseteq Row
    /\ work \in [Publisher -> [Row ->
           [pc : {"rest", "claimed", "sent", "failing", "givingUp"}, attempt : Nat]]]
    /\ \A p \in Publisher, r \in Row : work[p][r].attempt <= attempts[r]
    /\ faultCount \in Nat /\ suffered \in [Row -> SUBSET FaultKinds]

\* Rows that a publisher had in hand for longer than the lock timeout.
Late == {r \in Row : "slow" \in suffered[r]}

(***************************************************************************)
(* Unless somebody published it for longer than the lock timeout, a row is *)
(* in the hands of one publisher, so a mark is always its holder's,        *)
(* although neither mark asks who holds the row.                           *)
(***************************************************************************)
OnePublisherPerRow ==
    \A p, q \in Publisher, r \in Row \ Late : Working(p, r) /\ Working(q, r) => p = q

(***************************************************************************)
(* A row is put on its stream at most once per counted attempt, also where *)
(* locks are stolen and processes crash: what its consumers may see twice  *)
(* is bounded by attempt_count.                                            *)
(***************************************************************************)
SentOncePerAttempt == \A r \in Row : sent[r] <= attempts[r]

(***************************************************************************)
(* Unless a crash or a database error hit it: a task whose row was given   *)
(* up on does not stay queued, whatever attempts reached the stream and    *)
(* whoever else was marking the row; somebody is about to fail it.         *)
(***************************************************************************)
NoTaskStranded ==
    \A r \in GenerationRow :
        /\ suffered[r] \cap {"crash", "databaseError"} = {}
        /\ status[r] = "FAILED" /\ task[r] = "queued"
        => \E p \in Publisher : Is(p, r, {"givingUp"})

(***************************************************************************)
(* Whatever crashes or is late, every committed row is settled in the end: *)
(* a row its claimer left behind is claimed again, and attempts run out.   *)
(***************************************************************************)
EveryRowSettles ==
    \A r \in Row : status[r] = "PENDING" ~> status[r] \in {"PUBLISHED", "FAILED"}

-----------------------------------------------------------------------------
\* The refinement mapping: PROCESSING is still pending.
Outcome(r) == CASE status[r] = "none" -> "absent"
                [] status[r] \in {"PENDING", "PROCESSING"} -> "pending"
                [] status[r] = "PUBLISHED" -> "published"
                [] status[r] = "FAILED" -> "failed"

Abs == INSTANCE OutboxAbs WITH outcome <- [r \in Row |-> Outcome(r)], sent <- sent, late <- Late

(***************************************************************************)
(* The claim protocol keeps the outbox's promise for every row that nobody *)
(* published for longer than the lock timeout: published only after it was *)
(* sent, settled once, never sent again after that.                        *)
(***************************************************************************)
ImplementsOutboxAbs == Abs!Spec
=============================================================================
