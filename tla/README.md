# XiaoAO: specifications, model checking and proofs

XiaoAO is an assistant for the operation and maintenance of equipment. A user
talks to it in conversations; each turn is executed by a worker that runs an
agent graph over tools and language models and streams its progress to the
browser. This directory holds TLA+ specifications of the parts of XiaoAO whose
correctness depends on the order of things: leases, the life of a turn, the
transactional outbox, the event log with its stream, the deployer; the graph of
a turn with its supervisor, the topics of a conversation and the way an answer
reaches the customer; and the services around them: idempotency, attachments,
summaries, the circuit breaker, a shared cache, the diagnosis of an equipment
point by point, and dictation. TLC checks small instances of all of them, and
TLAPS proves every invariant that TLC checks for all instances.

Paths below are relative to `src/source/conversation_management/app/` unless
they start with `upgrade/` or `phm_`.

* [1. The system](#1-the-system)
* [2. Plan](#2-plan)
* [3. Modules and code](#3-modules-and-code)
* [4. Runs](#4-runs)
* [5. Fairness](#5-fairness)
* [6. Theorems](#6-theorems)
* [7. Where code and text disagree](#7-where-code-and-text-disagree)
* [8. What is not modelled](#8-what-is-not-modelled)

## 1. The system

### 1.1 Parts and how they interact

```
 browser --HTTP--> API process --SQL--> PostgreSQL <--SQL-- generation worker
    ^               |    |  ^               ^                  |   |   ^
    |               |    |  |               |                  |   |   |
    +---SSE---------+    |  +--XREAD (wake) |                  |   |   |
                         v                  |                  v   |   |
                       Redis: leases, task contexts, cancel keys   |   |
                              streams  <--XADD-- outbox relay -----+---+
                                                        XREADGROUP ----+
```

`conversation_management` is the core: a FastAPI application, a generation
worker, an outbox relay, and background workers for summaries, titles and
cleanup. It calls four query and analysis services (`phm_assert_mcp`,
`phm_data_mcp`, `phm_feature_mcp`, `phm_diagnosis_mcp`), which answer
requests and start none, and external agents and models. `upgrade/` installs a new
release over an old one.

The processes share two stores. PostgreSQL holds what must survive:
conversations, branches, messages, tasks, outbox rows, events. Redis holds what
may be lost: a lease per conversation, the context of each task, cancel keys,
and streams of work. No transaction spans both, and that is where most of the
hazards come from.

| Component | State | Operations | Hard behaviour | Correct when |
|---|---|---|---|---|
| **Concurrency leases** `services/concurrency_service.py` | a lock key per conversation, a sorted set of leases per user and one global, all with expiry | acquire, release, renew (Lua scripts) | three keys with two kinds of expiry; callers that crash, or come back after their lease ran out | one lease per conversation, limits hold, no slot stays occupied, nobody's lease is taken |
| **Submitting a turn** `services/generation_service.py` | task, messages, branch and its leaf, context, outbox row | send, edit, regenerate | lease before transaction, Redis before COMMIT, publish after it; crash anywhere | a turn that was committed is executed or failed; no turn beside another one |
| **Stop and choices** `services/task_service.py`, `diagnosis_confirmation.py` | task status, pending selection, diagnosis question, cancel key | stop, select an entity, choose a diagnosis mode, cancel, expire | several stores in several steps, against a worker that writes the same task | a paused turn is resumed once, by its own answer, under a lease, or ended |
| **Generation worker** `workers/generation_worker.py` | deliveries in hand, spans | read, claim, load, run, pause, persist, fail, shut down | redelivery, duplicate runs, late writes, crash, heartbeat | a task is executed by one slot; its end is final; its lease comes back |
| **Conversations and branches** `services/conversation_service.py` | conversation status, branches, active branch | create, rename, pin, delete, activate | delete reads without locks, and flags its tasks after COMMIT | deletion stops the running turn; a turn under way is its branch's latest |
| **Outbox** `services/outbox_service.py`, `repositories/outbox_repository.py`, `workers/outbox_worker.py` | rows with status, attempts, lock time, due time | add, claim, publish fast, mark, retry, give up | relay against fast path, stale locks, unfenced marks, give-up in two transactions | at least one delivery per row, one outcome, no task left queued |
| **Queues** `services/queue_service.py` | Redis streams and consumer groups | enqueue, read, ack, auto-claim | deliveries lost with consumers, delivered twice | as the worker and the outbox need it |
| **Event log** `services/event_service.py`, `repositories/`, `performance.py` | events numbered per task, performance spans | publish, close open spans, read a batch | several writers of the same end | every span ends once, before the terminal event |
| **SSE stream** `api/v1/tasks.py` | cursor, deferred terminal event | connect, read, drain, recover, end | reconnection, terminal events that are overtaken or never published | nothing lost or shown twice, and the end is told |
| **Deployer** `upgrade/full_replace.py` | code of each component, revision, services, backups | apply, rollback | failing commands, kills, a way back that needs the code that failed | what it reports done is done; the old release is never lost |
| **Request idempotency** `services/idempotency.py` | claims per user and key | claim, finish, abort | a claim that expires under a running request | a request takes effect once |
| **Attachments** `attachments/`, `workers/cleanup_worker.py` | files, rows, quota | upload, send, delete, expire, purge | quota read before the row is inserted, two stores, a cleaner beside the users | a file that can be sent is there, nothing is left behind, the quota is passed by a bounded number |
| **Summary** `workers/summary_worker.py`, `services/context_builder.py` | snapshot and its extent, recent messages | process a delivery, build a context | unlocked read and late write by several workers, lost jobs | no message lost or summarized twice, nothing omitted |
| **Topics and evidence** `services/evidence_workspace.py`, `evidence/`, `context/` | topics, three hot slots, evidence with lineage | place a turn, reuse, persist | slots move while a turn waits for its user | slots are the latest topics, versions form chains, lineage stays in a topic |
| **Agent graph and supervisor** `orchestration/` | entity, observations, plan, steps and calls of one run | resolve, decide, execute, gate, ask, resume, answer | budgets that must fit together, one question enforced at many places, several copies of the turn's entity | the loop ends in its budgets, nothing expensive runs unasked, an answer has its evidence |
| **Equipment diagnosis** `tools/phm_workflow_tools.py` | rows of each point in four batches | read, fall back, find speeds, diagnose, report | points that fail or are retried one by one | no point disappears or gets another's speed |
| **Resilient execution** `execution/` | breaker per agent | call with retry and timeout | counters read and written across awaits | an open circuit bounds the load |
| **Answer streaming** `output/streaming.py`, `agents/` | queue, renderers, flush | produce, consume, flush, fall back, execute again | producer and consumer ended by each other, stops and errors | one generation, in order, whole |
| **Dictation** `web/chat/app.js`, `asr/` | the page's recording, two sockets, two pumps | start, stop, speak, finish, break | sessions that overlap across awaits | the text is what was said, the microphone goes off |
| **Shared cache** `phm_assert_mcp/app/providers/cache.py` | values with expiry, computations under way | get, refresh, cancel, close | callers of one key share a computation across awaits, also one that is older than their refresh | a refresh is not answered from the store, a failure is not kept |
| phm_feature_mcp pool `phm_feature_mcp/app/services/analysis_service.py` | semaphore, threads | run a job | a cancelled caller frees the slot of a thread that goes on | no more threads than slots |

The remaining parts keep no protocol state: the other tools, the agent catalogue,
integrations, attachment understanding, routes, configuration, schema, the query
services and the operators' scripts.
`PROJECT.json` lists every part with its status and reason, and every hazard
with its line.

### 1.2 One turn, from end to end

1. The API acquires the conversation's lease, inserts messages, task and an
   outbox row in one transaction, writes the task's context (with the lease) to
   Redis before the COMMIT, and tries to publish the row afterwards.
2. The relay, or that fast path, claims the row, adds the task to the
   generation stream and marks the row.
3. A worker slot reads the delivery, reads the context, locks the task's row
   and starts it only if it is `QUEUED`; the slot's heartbeat renews the lease.
4. The run publishes events, looks at the cancel key between steps, and ends
   with an outcome (`COMPLETED`, `FAILED`, `STOPPED`), or with a question:
   `WAITING_SELECTION` for an ambiguous entity, which the answer resumes, or a
   completed task with a pending diagnosis question, which the answer requeues.
5. The slot closes spans, releases the lease, acknowledges the delivery.
6. Meanwhile a browser streams the events; a user may stop the turn, answer
   it, start another one, switch branches or delete the conversation, and
   every process may die.

## 2. Plan

| Order | Modules | Question | State |
|---|---|---|---|
| 1 | `LeaseAbs`, `Lease`, `LeaseProofs` | do three Lua scripts over expiring keys implement leases with limits | done |
| 2 | `Generation`, `GenerationProofs`, `GenerationLeases` | the life of the turns of one conversation over API, relay, workers and faults | safety proved |
| 3 | `OutboxAbs`, `Outbox`, `OutboxProofs` | does the claim protocol implement at-least-once delivery with one outcome | safety proved |
| 4 | `EventLog`, `EventLogProofs` | order and completeness of events at the browser | safety proved |
| 5 | `Deploy`, `DeployProofs` | does the deployer keep its promises over failures and kills | proved |
| 6 | `Requests`, `Attachments`, `Summary`, `ServicesProofs` | claims that expire, two stores that must agree, reads that are written later | proved |
| 7 | `Supervisor`, `Agent`, `AgentProofs` | do the stages, recipes and gates of a turn's graph keep their promises together | proved |
| 8 | `Workspace`, in `AgentProofs` | topics and evidence of a conversation whose turns wait and resume | proved |
| 9 | `Breaker`, `Memo`, `Points`, in `ServicesProofs` | what is shared by coroutines across their awaits | proved |
| 10 | `Answers`, in `AgentProofs`; `Dictation`, in `ServicesProofs` | an answer's and a recording's pieces across queues and awaits | proved |

Composition. `Generation` uses leases the way `LeaseAbs` specifies them for one
conversation, and outbox rows and deliveries the way `OutboxAbs` specifies
them: a row pending, sent any number of times, then published or failed.
`Lease` and `Outbox` are each shown to implement these two abstractions. So the
protocols' details (sorted sets, claims, locks, backoff) are checked once, where
they are, and `Generation` is left with the state that the turns share.
`EventLog` takes one task and sees the run through the events it publishes.
`Agent` is the inside of the run that `Generation` leaves open, with
`Supervisor` as the pure decision it asks at every step; `Points` is the inside
of one of its recipes, `Answers` of its last step, and `Workspace` is what a run
does to its conversation at its beginning and its end. The other modules share
no state with one another.

Abstract specifications: `LeaseAbs` and `OutboxAbs`. The others' promises are
short enough to be stated as invariants.

Every invariant and action property of the runs is stated by a theorem; what is
left to TLC is liveness (section 6).

## 3. Modules and code

Each module names the code of a definition in `PROJECT.json` (`map`), lines
included. Actions carry the names of the functions where one function is one
step; where a function takes several steps, its actions share a prefix.
Definitions whose comment begins "A variant" are not part of any specification:
each is a plausible bug of the definition that follows it, and shows that the
property it is paired with (`mutants`) can fail.

### Lease

| In the model | In the code |
|---|---|
| `lock`, `lockUntil` | `chat:lock:conversation:{id}` and its `PX` |
| `userSet`, `globalSet` | the sorted sets `chat:leases:v11:*`: member to score |
| `now`, `Tick` | Redis `TIME` |
| `AcquireRefused`, `Acquire` | the acquire script: purge, three refusals, SET and two ZADDs |
| `Release`, `Renew` | the two scripts, each deciding by the lock's value |
| `granted`, `inUse` | not in the code: which lease was returned to whom, and not yet released |

A script is one step because Redis runs it as one. Callers are free: any lease
that was ever granted may be released or renewed at any time, which covers every
crash, delay and repetition of a caller. The sets' own `EXPIRE` (`ttl + 60 s`)
never removes a member that a purge would keep, so it is left out. At the very
millisecond of expiry Redis still serves a key whose member a purge already
drops; the model lets both expire at the same tick.

### Generation

Variables follow the stores: Redis (`lock`, `context`, `cancelled`, `stream`,
`unacked`), PostgreSQL (`status`, `message`, `selection`, `diagnosis`, `outbox`,
`branch`, `leaf`, `active`, `conversation`), and the programs that are in the
middle of something (`submitting`, `stopping`, `choosing`, `flagging`,
`givingUp`, `worker`). A step is one transaction or one Redis command, with the
local computation before it. A transaction that locks the row of the task is one
step; `delete`, which reads the tasks before it updates them and locks only the
conversation, is two (`DeleteStart`, `DeleteCommit`), and transactions that lock
the conversation wait in between.

| Actions | Code |
|---|---|
| `SubmitAcquire`, `Send`, `Fork`, `SubmitRefused`, `SubmitCrash` | `GenerationService.send`, `edit_and_resubmit`, `regenerate` |
| `Publish`, `PublishUnmarked`, `GiveUp`, `FailGivenUp`, `RelayCrash` | `OutboxService` for `generation.enqueue` rows |
| `ClaimUnacked`, `ClaimWaiting` | `XAUTOCLAIM` at the start of a worker |
| `Take` to `ReleaseRun` | `_process` of the worker: context, `_load_and_start`, the run and its callbacks, `_persist_final`, `_wait_for_selection`, `_persist_diagnosis_confirmation_prompt`, `_fail_task`, the `finally` block |
| `StopWaiting`, `StopRequest`, `StopFlag`, `StopRelease` | `TaskService.stop` |
| `ChooseAcquire` to `ChoiceCrash`, `ExpireDiagnosis` | `select_entity`, `select_diagnosis_mode` |
| `DeleteStart`, `DeleteCommit`, `FlagDeleted`, `DeleteCrash`, `ActivateBranch` | `ConversationService` |
| `ExpireLease`, `ExpireContext` | Redis expiry: a lease expires only while no slot's heartbeat renews it |

Faults are named kinds (`FaultKinds`): a process dies, an event cannot be
published, the database refuses, a delivery is repeated, a key expires, the
relay gives a row up. Each instance says which kinds it is exposed to.
Properties that a fault breaks by design name it (`None(...)`): they are then
statements about everything else.

Abstractions. `PLANNING` is taken as `EXECUTING`: no code reads the difference.
`WAITING_CONFIRMATION` and `TIMEOUT` are declared in the code and written
nowhere. A task has at most one stop call and one choice call under way at a
time. What a run computes is left open: it may end in any of its outcomes at
any moment. An exception of `_load_and_start` itself and errors of single Redis
commands, other than the publication of events, are left out.

### Outbox

`status`, `attempts`, `lock`, `due` are the columns of the row, `sent` is how
many entries the stream got, `task` what became of the task the row enqueues,
and `work` what each publisher does with each row it has claimed. Locks have
three ages: none, recent, and older than `outbox_lock_timeout_seconds`. A
publisher outlasts its own lock only as a fault (`slow`). A relay claims its
next batch after it has finished the last one; the requests' fast path is the
publisher `Api`. Neither mark looks at who holds the row, as in the code.
`deduplication_key` is unique in the schema: a row is added once.

### EventLog

The log is the table `task_execution_events` of one task, in order of
`sequence_no`. `PublishTerminal`, `PublishEnd` and `CloseOpenSpans` are the
transactions of `EventService`, which all lock the task's row. `Commit` to
`Finish` are the run's last writes in the order the worker makes them; the tracer
brackets a step with the start and end of a span and writes the end in a
`finally` block. The stream's loop is `Connect` to `ReadAgain`. A page is read
row by row, which is the same because the log only grows. Redis only wakes a
reader, so that a lost or late wake-up is a read of nothing.

Leaving out: pauses for a selection, which do not end the stream, and deletion,
after which the stream raises `NotFound`. `EndElsewhere` is the relay's give-up or
a duplicate run, which end the task from outside.

### Deploy

`code` is each component's tree: `old`, `new`, or `partial` while its directory
is being emptied or filled. `job` is the program counter of one run of
`full_replace.py`, `--apply` or `--rollback`, with or without services
(`--no-services`), `backups` what has a complete `rollback.json`. `site` says what
the old release knows and what ails the new one: nothing, imports that fail, or
settings that it cannot load with the `.env` file that is kept. Any command may
fail and the process may be killed at any step. Alembic runs in the code of the
core component, so whether it works depends on the code that is in place
(`AlembicWorks`); with partial code it may go either way. A migration is one
transaction (`migrations/env.py`).

One deployer runs at a time: `--apply` takes a lock; `--rollback` does not, and
is assumed to be started by an operator who waits. The support scripts and
`--check` are left out, and each component has one service.

### Requests

`claim` is the Redis record of one idempotency key with its owner and whether it
was accepted. `Begin` to `Refuse` are `IdempotencyGuard.begin` and what `send`
makes of its result, `Commit` the transaction, `FailSend` and `FailCommitted` an
error before and after it, `Finish` and `Abort` the fenced scripts. A call that
names no conversation makes its own (`fresh`), so that there the unique index of
the tasks does not help.

### Attachments

`row` and `sentTo` are the table, `object` the object store. An upload is three
steps (quota, `Put`, `Insert`), deletion by the owner two, the cleaner lists under
row locks, commits and then erases. `marred` marks the files of uploads that died
or of an erasure that failed: nothing ever looks for such objects again.
Uploads side by side do pass the limit, by no more than one file each, which is
what `StoresAgree` states.

### Summary

`path` counts the messages that may be in a context, `latest` is the newest
snapshot (by `created_at`, the begin of its transaction), with how often it has
each message. `Take` reads without a lock, `Merge` calls the model, `BeginWrite`
and `Write` are the transaction. Two jobs at once do fold messages twice
(`overlapped`); the property says what holds nevertheless. `Omitted` is what
`ContextBuilder.build` shows neither in the summary nor as a recent message.

### Breaker

The counters of one key in `ResilientAgentExecutor` and `ResilientToolExecutor`;
an action is what a coroutine does between two awaits. `load` is not in the code:
it counts the attempts begun since the circuit opened. The reset time is one
event (`elapsed`), after which the next call is let through.

### Memo

`AsyncMemo` of `phm_assert_mcp`: `values` in order, `pending` the shared
computation of each key, and what each caller waits for. The shield around the
wait is why a cancelled caller does not take the computation along (`Cancel`).

### Points

The batches of an equipment's diagnosis as a workflow of four tools. `bundle` is
the one read for the equipment, `task` each point's coroutine under the semaphore,
`data`, `speed` and `diagnosis` the rows the batches hand over, `told` the hours
that the report states. The executor's retries (`tries`) begin a batch anew. A
speed is named by the point from whose waveform it was found, so that a mix-up
shows.

### Answers

The model's stream (`model`), the bounded queue (`box`), what the renderers hold
back (`held`), what is ready for the flush, and what the event log has of each
channel (`shown`). Both users of `AnswerStreamSession` are there: the final
answer, and `GeneralContentAgent` with its ways to ask a model and the executor's
second execution. A piece carries its generation and its number in its channel,
the answer's or the reasoning's. What is published at a time is as much of one
channel as `append` has put together (`IsDelta`).

Three things the model brings out that no property forbids: a publication that
fails or is cancelled in the middle of a flush may leave the recorded text with
a piece twice (`torn`); a native stream that ends empty counts as streamed, so
the blocking way is not tried; and a stopped flush still publishes what was
released.

### Dictation

The page's functions are cut at their awaits: `StartRecording` until the status
and the microphone are granted (`asking`), `abortAsrSession` and
`finishAsrSessionCleanup` while the audio context closes (`closing`). `up` and
`down` are the two directions of a session's socket, `proxy` and `recogniser` what
is behind it. A second click while the first start still waits leaves the first
session's microphone on when the second fails or ends (`crossed`): `page` has
forgotten it. Partial results are left out.

### Supervisor and Agent

A turn's graph in the mode `normal`. An intent is what task understanding made of
the message: the kinds of request the stages look for, the evidence its
completion contract needs, the recipe that was chosen, the level of entity it
needs, and the depth it asked for. An entity is the level it identifies (area,
equipment, point). `Supervisor` holds `next_react_action` with its stages
(`OneShot`, `Explain`, `Overview`, `Single`, `Before`, `Diagnosis`, `Model`,
`Checked`), the recipes, `plan_completion_gap` and the gate; where the code looks
at a text or asks a model, any answer of its form is possible. `Agent` has the
nodes: `Resolve` with the one entity layer, `Decide` with its bounds, the
repairs, signatures and the parallel batch, `Execute` with the lookups that
change who the turn is about, `AskForDepth` and both resumptions, `Finalize`.

The waveform stands with the vibration snapshot. Left out: targeted repairs by
explicit codes, sensor identity, area level and collections, the fallback to the
branch's `active_entity`, evidence of earlier turns as a substitute for a call,
fields that are missing in a result, enrichment with knowledge. Two pieces of
the code were found to be out of reach: the second place that asks for the
confirmation (`nodes.py:3250`), and the stages for an entity that was not found,
since the graph leaves for `entity_resolution_failure` first.

### Workspace

`topics` in order of creation with their subject, `hot` the three context slots,
`facts` the evidence with its topic, subject, the one it supersedes and what it
is derived from, `anchor` the branch's `active_entity`. `AskTurn` is
`prepare_context` with the decision the model takes, `ActivateNew` and
`ActivateOld` are `activate_turn`, `PersistTurn` and `PersistFirst`
`persist_turn`. `Migrate` gives a conversation from before the topics one topic for
its history, with the results found there as evidence of no turn (0). Their
subject names no asset: the code takes the last of `recent_entities`, which is a
record of its message around the entity, or nothing. `anchor` may be set from the
beginning. A turn waits after it was placed (`Suspend`), comes back with what
was decided before, and is placed again. While it waits, turns of other branches
may run (`edit_and_resubmit` and `regenerate` do not look for a pending question).
`placed` is not in the code: it remembers the order.

Which evidence is needed, fresh and complete is left open; attachments' evidence
is left out.

## 4. Runs

| Run | Instance | Distinct states | Shows |
|---|---|---|---|
| `lease` | 4 conversations of 3 users (one user has two), 3 leases, TTL 2, limits 1 and 2, clock to 4 | 30 thousand | types, agreement of the keys (`KeysTellOneStory`), `WithinLimits`, `NoTheft`, refinement of `LeaseAbs` |
| `generation` | 2 turns, 2 slots, all faults but deletion, `Budget` 3 | 0.9 million | the safety of turns: `OneRunPerTask`, `MessageAgrees`, `QueuedIsDeliverable`, `LeaseFollowsRun`, `TurnIsLatestOnBranch`, `EndedIsFinal` |
| `generation_live` | 2 turns, 1 slot, deletion and API crashes, `Budget` 2 | 0.1 million | `TurnEnds`: a turn reaches an end or a question, and its lease comes back |
| `generation_spans` | 2 turns, 2 slots, redelivery, `Budget` 2 | until found | a violation, section 7 |
| `generation_fence` | 2 turns, no fault, `Budget` 2 | until found | a violation, section 7 |
| `outbox` | 2 rows, 1 relay and the API, batches of 2, 2 attempts, any 2 faults | 0.1 million | `OnePublisherPerRow`, `SentOncePerAttempt`, `NoTaskStranded`, `EveryRowSettles`, refinement of `OutboxAbs` |
| `event_log` | 2 spans, 3 events before the end, any 2 faults | 0.6 million | `SpansEnd`, `ReceivedInOrder`, `EndIsTold` |
| `deploy` | 2 components, 3 runs of the deployer, 2 faults | 0.9 million | `EndsWhole`, `OldVersionKept`, `StartsOnWholeCode` |
| `deploy_failure` | the same | until found | a violation, section 7 |
| `services` | ten parts, see below | 2.0 million | `OneTaskPerRequest`, `StoresAgree`, `ContextIsWhole`, `LoadWhileOpen`, `AnswersAreSound`, `PointsReported`, `DictationSound`, `AnswerIsShown`, `StaysWithinBounds`, `DiagnosisIsAsked`, `AnswersMeetContract`, `WorkspaceIsSound` |
| `agent_point` | 1 intent, 3 steps, 3 calls | until found | a violation, section 7 |
| `workspace_resume` | 1 turn, 3 placings | until found | a violation, section 7 |

Each property is stated in its module, with the code behaviour it is about in
the comment above it.

### Bounds, and why they are enough

* `lease`. Two conversations of one user reach the user limit, three the
  global one, a fourth is refused by each reason. Three leases and a clock to 4
  with a TTL of 2 allow a lease to be granted, to run out, to be granted anew and
  to run out again, with the first holder coming back at any time. Leases are
  interchangeable (symmetry); users and conversations are not, because `OwnerOf`
  tells them apart.
* `generation`. `Budget` bounds leases and faults together, because each lease is
  one submission or one resumption: 3 allows two turns and one fault, or one turn
  that asks, is answered and meets a fault, or one turn under two faults. Two
  slots are what a duplicate run needs. Statuses, contexts and rows are finite,
  so nothing else is bounded. Deletion is in `generation_live` instead. Larger
  instances were also tried: deletion with two slots (2.9 million states) holds;
  one slot, all faults and one unit of budget more was stopped after 12 million
  states without an error.
* `outbox`. Two rows are a batch, and let the relay have one row in hand while
  the fast path has the other. Two attempts are the least with a retry before
  the give-up. Two faults are what a stolen lock needs to do harm: one to be slow
  and one to fail afterwards.
* `event_log`. Two spans can be nested, overlap, or end in either order. Three
  events before the end leave room for a span's start and end with something in
  between. Two faults are, for example, a worker that dies and a connection that
  breaks; the events after the end are bounded by the spans.
* `deploy`. Two components are the core, on which alembic depends, and another;
  the loops are the same for more (and the theorems hold for any number). Three
  runs are a failed apply, a second one over the mixture, and a rollback.

* `services`. `MCServices` runs ten parts that share no state: a behaviour picks
  one with its initial state (`part`), and the others stay. So the states add up
  and do not multiply. Model values are shared among the parts.

  | Part | Instance | States |
  |---|---|---|
  | `requests` | 3 calls, one of them with other content: the first, a repetition, and a third that meets what both left | 10 thousand |
  | `files` | 3 files, 2 uploads at once, 1 conversation, limit 1: a sent file beside two that pass the limit together | 255 thousand |
  | `summary` | 2 workers, trigger and recent messages 2, 7 messages: two summaries and a rest | 7 thousand |
  | `breaker` | 3 callers, 1 retry, threshold 2: one call more than opens it | 3 thousand |
  | `memo` | 2 callers, 2 keys, room for 1: an eviction, and one computation for two | 32 thousand |
  | `points` | 3 points, 2 reads and 1 speed at once, 2 executions: one point that waits, one that fails, one that works | 470 thousand |
  | `dictation` | 2 recordings, 2 pieces each: an old and a new session, and an order | 488 thousand |
  | `answers` | 3 pieces, a queue of 1, 2 executions: one piece shown, one queued, one that waits for room | 292 thousand |
  | `agent` | 12 intents, 4 steps, 5 calls, batches of 3: every stage and recipe, with each bound met before the others | 163 thousand |
  | `workspace` | 2 turns, 1 asset, 5 placings, 3 facts: four topics, so that one leaves the slots and is fetched back; a reading, a newer one, and what comes of them, or a history with a result | 277 thousand |

* `agent_point`, `workspace_resume`. The least instances with the
  counterexample: one message about a point, one turn that resumes once.

`CHECK_DEADLOCK FALSE` is given where the system stops by itself: when all turns
have ended, all rows are settled, the stream has told the end, all runs of the
deployer are over, or a turn, an answer, a workflow or a bounded number of
recordings and calls has come to its end. `lease` stops when the clock does, but a release can
always be repeated, so there deadlock is checked.

## 5. Fairness

* **Generation**: weak fairness of the steps of calls that have begun (send,
  stop, choice, delete), of the relay's publication, of its failing a task it
  gave up, and of each slot's next step. The code justifies it by its event
  loops: a coroutine that was started is run to its end, the graph under
  `agent_timeout_seconds`, the relay polls every row that is due. Nothing is owed
  by users, by the claim at a worker's start, by Redis expiry, by progress
  callbacks or by faults. `TurnEnds` accordingly says nothing
  once a fault has happened: after a worker's death the code has no recovery
  while it runs, and leaves the lease to its TTL.
* **Outbox**: relays poll (`WF` of claiming a batch), a claimed row's coroutine
  runs to its end, locks age, backoffs end. `EveryRowSettles` needs no more, in
  the presence of faults, because faults are finite: the code gives up after
  `outbox_max_attempts`.
* **EventLog**: the browser reconnects and the response is served (`WF`). The
  status check is strongly fair, because the loop does other reads in between
  and makes it at least every `max(5 s, heartbeat)`. Nothing is asked of the
  worker: `EndIsTold` also holds where it died.

## 6. Theorems

All are proved by TLAPS for every value of the constants that satisfies the
modules' assumptions. The assumptions type the parameters, and beyond that say:

* a value that stands for "none" is none of the values it is told apart from
  (`GenerationAssumption`, `RequestsAssumption`, `PointsAssumption`,
  `MemoAssumption`, `AttachmentsAssumption`);
* the callers, uploads and files that are counted are finitely many
  (`BreakerAssumption`, `AttachmentsAssumption`);
* the depth that a message asks for is one of the three that the schema of a task
  understanding allows (`IntentAssumption`, `workflows/contracts.py:326`);
* settings are in an order that the shipped ones have: a summary is asked for
  before a message leaves the recent ones (`SummaryAssumption`, 10 and 12), a short
  trend is shorter than a long one and no more speeds than reads go on at once
  (`PointsAssumption`), the loop has two steps and room for a call
  (`BoundsAssumption`).

| Module | Theorem | Property | Inductive invariant, and why it is needed |
|---|---|---|---|
| `LeaseProofs` | `KeysAgree` | `KeysTellOneStory` | `TypeOK`, `LiveLockIsCounted` and `NoSlotLeaked` together: a purge keeps a live lock only if both sets know its expiry, and a release leaves no member behind only if the member's lock was the one released |
| | `TypeCorrect` | `TypeOK` | itself |
| | `LimitsHold` | `WithinLimits` | as `KeysAgree`, with a counting argument: live locks map one to one into the members of the user's set and of the global one, which acquire counts |
| | `LeaseIsNotStolen` | `NoTheft` | the same: only the owner's release passes `IsOwner`, and an owner in use has not released |
| | `LeaseImplementsLeaseAbs` | `ImplementsLeaseAbs` | `LimitsHold` gives the abstract guards; a tick maps to `End` of the leases that run out |
| `GenerationProofs` | `TypeCorrect` | `TypeOK` | itself |
| | `RunsAreExclusive` | `OneRunPerTask` | with `ExecutingStatus`: the task of an executing slot has a status that is neither `QUEUED` nor one from which a choice requeues. Without it, a second `LoadStart` is not excluded |
| | `MessagesAgree` | `MessageAgrees` | with `TypeOK` |
| | `QueuedTasksAreDeliverable` | `QueuedIsDeliverable` | with `TypeOK` and the fact that faults accumulate |
| | `DeliveredOnce` | | `OneDelivery`: a task has one token, its outbox row, its stream entry or a slot at work. `Calm`: a task with a token is under way. The two say why a late writer never meets an ended task |
| | `EndedStaysEnded` | `EndedIsFinal` | `DeliveredOnce` and `RunsAreExclusive`: each action that writes a status belongs to a token, to a choice that has checked the status under the row's lock, or to `delete` |
| `GenerationLeases` | `LeasesFollow` | | `LeaseInv`: which call, slot or task holds which lease at every pc, that no two hold the same, and that a task's context has the lease it was submitted or resumed under |
| | `LeaseIsTheRuns` | `LeaseFollowsRun` | `LeaseInv` |
| | `TurnsAreLatest` | `TurnIsLatestOnBranch` | `LeaseInv`: whoever adds a turn holds the lease, so no turn is under way meanwhile |
| `OutboxProofs` | `TypeCorrect` | `TypeOK` | itself, including that a publisher's attempt was counted |
| | `SendsAreCounted` | `SentOncePerAttempt` | counts sends against the attempts that still may send |
| | `ClaimsAreExclusive` | `OnePublisherPerRow` | whoever works on a row that is not late holds it `PROCESSING` with a recent lock |
| | `GivenUpTasksFail` | `NoTaskStranded` | what becomes of a row's task at each of its publisher's steps, also where a stolen lock gives it two |
| | `OutboxImplementsOutboxAbs` | `ImplementsOutboxAbs` | `ClaimsAreExclusive`, and that a publisher at "sent" has sent |
| `EventLogProofs` | `EventsAreTyped` | `TypeOK` | with `LogInv`, since the stream's page is a part of the log |
| | `NothingIsLost` | `ReceivedInOrder` | `StreamInv`: what was received lies below the cursor, page and deferred terminal above it |
| | `EverySpanEnds` | `SpansEnd` | `LogInv`: a span has at most one end, and an open one is of the step the run is in. `BoundaryInv`: what the stream has yet to read once it saw the end has the ends of the spans that are open for the browser |
| `DeployProofs` | `TypeCorrect` | `TypeOK` | with `BackupsInStep`: a step that restores has a backup to restore |
| | `OldVersionIsKept` | `OldVersionKept` | with: as soon as there is a backup, one of them is whole and old. The step that matters is the first backup, made before any code is touched |
| | `ReportsAreTrue` | `EndsWhole` | what each loop has done so far: the components before its index are replaced, restored, stopped or started |
| | `StartsAreWhole` | `StartsOnWholeCode` | the same, at the steps that start services |
| `ServicesProofs` | `RequestsHaveOneTask` | `OneTaskPerRequest` | `ClaimsStand`: a call that sends or has committed holds the claim until it is lost |
| | `LoadIsBounded` | `LoadWhileOpen` | `LoadAndLeft`: the load together with the attempts that calls under way have left, as a cardinality, stays within the bound; the load alone is not inductive |
| | `CacheIsSound` | `AnswersAreSound` | `MemoInv`: only values are stored, a reader waits for a computation of its own key, and cancellation means that close began |
| | `PointsAreReported` | `PointsReported` | `RowsInHand`: which points have a coroutine or a row at each tool of the workflow, through retries that start over |
| | `StoresDoAgree` | `StoresAgree` | `UploadsApart`, `CleanerSound`: what an upload, an owner's deletion and the cleaner hold between their steps. `WithinLimit`: the limit with the uploads under way |
| | `ContextsAreWhole` | `ContextIsWhole` | `JobsAreWhole` for any overlap, `JobsAreExact` while jobs never overlapped; that transactions begin in the order of the clock makes the written snapshot the newest |
| | `DictationShown` | `DictationSound` | `DictationInv`: for the session the page shows, `Bridge` ties the states of socket, proxy and recogniser, `Audio` counts what is on its way up, `Letters` says in which order greeting, texts and end stand on the way down and that the texts are the pieces from the page's last to the recogniser's, `Shown` where nothing can be missing any more. `Alone`: what the microphone and the page's two cleanups may be doing while recordings did not cross |
| | `DictationTyped` | `DictationTypeOK` | `DictationInv` |
| | `PartsAreTyped` | `TypesOK` | `PartInv`: of the part that runs, the invariant of its theorem, with what that leaves open: how far a file's life goes (`LifeTyped`), a snapshot reaches (`SummaryBounded`), a store grows (`MemoCounted`), how many points and executions are counted (`PointsCounted`), which entities, observations and calls a turn may have in hand (`AgentTyped`) |
| `AgentProofs` | `LoopStaysWithinBounds` | `StaysWithinBounds` | `HopsCounted`: the nodes run so far are at most twice the steps and a few. `CallsCounted`: each call took a signature, and a batch is as long as the calls that are left. That a batch is within its limit is proved of `Batch` and `Independent` by the rank of an index in a finite set |
| | `ExpensiveIsAskedFor` | `DiagnosisIsAsked` | `DepthInv`: where a confirmation is required only the two locating tools have run, and neither `Execute` nor `Finalize` is next |
| | `AnswersAreComplete` | `AnswersMeetContract` | with `LoopInv`, for what a step counts against the bounds. `GateKeepsContract`: what the gate lets through, for every verdict of every stage. `CompleteIsAnswered`: with all the evidence, the first stage that speaks answers or has calls to make. `BoundIsAnswered`: at a bound every verdict over what was acquired is an answer |
| | `EvidenceIsSound` | `WorkspaceIsSound` | `SlotsInv`: the slots are the last placed, and all of them were placed. `CourseInv`: a turn is on one of its topics, and its INPUTs are of them. `FactsInv`: evidence is of turns that are done, that of one turn in a row; without that a reading that another turn has superseded could still count as one of the latest turn's. `Superseding`, `Lineage`: the property, and that only readings are superseded. `Reordered` says what a placing does to the slots, whatever topic it is of |
| | `AnswerShown` | `AnswerIsShown` | `AnswersInv`. `Flow`: of each channel, what is shown, released, held and queued are, in this order, consecutive pieces from the first to the last that was made; the property alone says nothing of those on their way. `Phases`: a call of the model begins with nothing shown, so that whatever is shown is of one generation, and the answer is flushed when nothing else is in hand |
| | `AnswersTypes` | `AnswersTypeOK` | `AnswersInv` |

A proof has one step per action, and under it one per conjunct that the action
disturbs; TLC checked every invariant on the run of its module before. The
theorems of `ServicesProofs` and `AgentProofs` are about the specifications of the
single parts (`RequestsSpec`, `BreakerSpec`, ...), of which the run `services`
takes one at a time; `PartsAreTyped` is about that run's own specification, whose
steps it takes apart into the parts' (`OwnSteps`). 41 theorems rest on 374 lemmas.

What the proofs changed in the models:

* `LeaseFollowsRun` used to say that a waiting task holds no lease unless a
  delivery was duplicated. Its invariant would not go through at `ChoiceCrash`: an
  API process that dies after a database error rolled its choice back, and before it
  returns the lease, leaves the task waiting with the lease until its TTL. TLC
  shows it with one unit of `Budget` more than the run has. The property now names
  `apiCrash`.
* `NoTaskStranded` also holds of rows whose locks were stolen, and says so.
* `RequestsAssumption` and `PointsAssumption` now say that their "none" values are
  apart from the others, which model values had hidden.
* The filters of `OpenSpanEnds` (`EventLog`), `Without` (`Memo`) and the first
  verdict that is not silent (`FirstSaid`, `Supervisor`) are written without
  `SelectSeq`, of which no installed prover can use the definition; `Others`
  (`Workspace`) takes a topic out of its slot by the slot's index.
* `Answers` used to number the pieces of a generation through both channels and to
  keep one list of what was shown, from which `SelectSeq` took the answer's. Each
  channel now has its own numbers and its own list, and what is published at a
  time is described (`IsDelta`) and no longer computed. `AnswerIsShown` thereby
  says of the reasoning what it said of the answer only.
* `IntentAssumption` was tacit: `AgentTypeOK` of the depth a turn goes to does not
  follow for an intent with some other depth.

Only model-checked:

* liveness: `TurnEnds`, `EveryRowSettles`, `EndIsTold` (TLAPS does not reason about
  fairness and ENABLED);
* the counterexamples of section 7.

## 7. Where code and text disagree

Five runs end in a counterexample. Each checks one statement that a comment, a
message or a document of the repository makes.

* `generation_spans`: "A duplicate queue delivery does not own the executing
  worker's spans" (`workers/generation_worker.py:581`). A duplicate delivery that
  finds `STOP_REQUESTED` is treated as the task's own run: its `finally` block
  closes the spans and frees the lease of the slot that is still executing.
* `generation_fence`: "While WAITING_SELECTION, the conversation-level
  concurrency fence blocks a new turn" (`workers/generation_worker.py:415`). The
  pause releases the lease, and of the three calls that start a turn only `send`
  looks for a pending selection.
* `deploy_failure`: "the deployment failed, restoring all the code of before it"
  (`upgrade/full_replace.py:567`). If the new release does not work with the kept
  settings, which its own import check detects, the way back starts with an alembic
  command that needs those same settings, fails, and restores nothing.
* `agent_point`: "the next iteration sees the resolved point and can issue the
  original MCP capability safely" (`orchestration/nodes.py:3425`). The lookup inside
  the loop stores the point as `resolved_entity`, which `current_turn_entity` reads
  last: the next iteration still sees the equipment, repairs the call into the
  same lookup, and drops it as a duplicate.
* `workspace_resume`: "Saving these model decisions keeps the resumed attempt
  deterministic" (`workers/generation_worker.py:689`). The decision names a slot, or
  a new topic; the first placing of the turn has moved the slots. Placed again when
  it resumes, the turn opens a second topic, or lands on the topic that was
  current before it.

## 8. What is not modelled

* Titles (a rule and a model's suggestion that gives way to the user's title), the
  cleanup of external conversations, whose error loses the rest of a delivery,
  and the thread pool of `phm_feature_mcp`: it has as many threads as slots, so
  that a surplus job only waits.
* The page beside dictation: its stream client, drafts and lists.
* Graphs of the other modes, the tools beside the equipment's diagnosis, and the
  resolver of assets, whose rules are about texts.
* Row locks inside a transaction. `_persist_final` locks task, message and
  conversation in this order, `delete` the conversation and then the tasks, so
  PostgreSQL may have to abort one of the two. What the aborted side leaves
  behind is covered by the faults `databaseError` and `apiCrash`, the deadlock
  itself is not.
* Recovery the code does not have. Some hazards leave a damage that nothing in the
  code repairs, and the properties listed with them except that very fault; what
  they show is that nothing else does the damage. A task under way whose worker
  dies stays under way, and a delivery acknowledged at shutdown is lost
  (`QueuedIsDeliverable`, `TurnEnds`). A crash or a cancellation between the lease
  and the transaction leaves the lease to its TTL (`TurnEnds`). A relay that dies
  between its two marks strands a queued task (`NoTaskStranded`,
  `QueuedIsDeliverable`). A publisher that outlasted its lock may mark the row of
  another (`ImplementsOutboxAbs`). A refresh joins a computation that is under way
  (`AnswersAreSound`). The notes of these hazards in `PROJECT.json` say the same.
* Two deployers at once.
* Data: texts, prompts, rankings, numerical analysis, SQL rendering, parsing of
  files. Nothing in the properties depends on them.
* External services and pure I/O. They enter as outcomes (a run may end in any
  way), as faults, or not at all.
* Vendored code (`sqlglot`) and validation scripts.
