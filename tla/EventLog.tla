------------------------------ MODULE EventLog ------------------------------
(***************************************************************************)
(* The execution events of one task: EventService.publish numbers them     *)
(* under the task's row lock, and GET /tasks/{id}/events (api/v1/tasks.py) *)
(* streams them to a browser that reconnects with Last-Event-ID.  Redis    *)
(* only wakes a blocked reader, which reads PostgreSQL again: a wake-up    *)
(* that is lost, late or out of order shows as an empty read.              *)
(***************************************************************************)
EXTENDS Naturals, Sequences, FiniteSets

CONSTANTS Span,      \* performance spans of the run
          MaxLog,    \* bound: events before the end of the task
          Faults,    \* the kinds of fault this instance is exposed to
          MaxFaults  \* bound: faults in one behaviour

FaultKinds == {"workerCrash", "endedElsewhere", "disconnect"}

ASSUME EventLogAssumption ==
    /\ MaxLog \in Nat /\ Faults \subseteq FaultKinds /\ MaxFaults \in Nat

VARIABLES
    log,       \* task_execution_events by sequence_no
    ended,     \* who gave generation_tasks.status its first terminal value, if it has one
    worker,    \* how far the run has come
    tracer,    \* spans whose start, or whose end, the run has published
    sse,       \* the open response, if any
    received,  \* the ids of the events the browser received
    told,      \* the terminal event it received: none, a logged one, or a snapshot
    faults

vars == <<log, ended, worker, tracer, sse, received, told, faults>>

HasEnded == ended # "not"
Closed == [pc |-> "closed", cursor |-> 0, deferred |-> 0, recovered |-> FALSE]

Init ==
    /\ log = <<>> /\ ended = "not"
    /\ worker = "running" /\ tracer = [s \in Span |-> "new"]
    /\ sse = Closed /\ received = <<>> /\ told = "none"
    /\ faults = 0

Fault(kind) == kind \in Faults /\ faults < MaxFaults /\ faults' = faults + 1

-----------------------------------------------------------------------------
(* EventService *)

Started(s) == [kind |-> "started", span |-> s]
Ended(s) == [kind |-> "ended", span |-> s]
Plain(kind) == [kind |-> kind]

Logged(e) == \E i \in DOMAIN log : log[i] = e

OpenStarts == {i \in DOMAIN log : log[i].kind = "started" /\ ~Logged(Ended(log[i].span))}
Nth(S, n) == CHOOSE i \in S : Cardinality({h \in S : h <= i}) = n

\* The end records of _close_open_spans_locked, in the order of the starts.
OpenSpanEnds ==
    [n \in 1 .. Cardinality(OpenStarts) |-> Ended(log[Nth(OpenStarts, n)].span)]

CloseOpenSpans == log' = log \o OpenSpanEnds

Publish(e) == log' = Append(log, e)

\* An end that is there already is not written again.
PublishEnd(s) == IF Logged(Ended(s)) THEN UNCHANGED log ELSE Publish(Ended(s))

\* The ends of the open spans and the terminal event commit together.
PublishTerminal == log' = Append(log \o OpenSpanEnds, Plain("terminal"))

-----------------------------------------------------------------------------
(* GenerationWorker, seen through the events of its run *)

Streaming == worker = "running" /\ Len(log) < MaxLog

SpanStarts(s) ==
    /\ Streaming
    /\ tracer[s] = "new" /\ tracer' = [tracer EXCEPT ![s] = "started"]
    /\ Publish(Started(s))
    /\ UNCHANGED <<ended, worker, sse, received, told, faults>>

\* Also in a finally block, after the run has committed its outcome; a start
\* that is cancelled before its commit leaves the end alone in the log.
SpanEnds(s) ==
    /\ worker # "dead"
    /\ tracer[s] = "started" \/ (tracer[s] = "new" /\ Streaming)
    /\ tracer' = [tracer EXCEPT ![s] = "ended"]
    /\ PublishEnd(s)
    /\ UNCHANGED <<ended, worker, sse, received, told, faults>>

Stream ==
    /\ Streaming
    /\ \E kind \in {"reasoning", "delta"} : Publish(Plain(kind))
    /\ UNCHANGED <<ended, worker, tracer, sse, received, told, faults>>

\* _persist_final, which does not ask whether the task has ended already
Commit ==
    /\ worker = "running" /\ worker' = "committed"
    /\ ended' = IF ended = "not" THEN "byRun" ELSE ended
    /\ UNCHANGED <<log, tracer, sse, received, told, faults>>

CompleteAnswer ==
    /\ worker = "committed" /\ worker' = "answered"
    /\ Publish(Plain("answer"))
    /\ UNCHANGED <<ended, tracer, sse, received, told, faults>>

CompleteTask ==
    /\ worker = "answered" /\ worker' = "finishing"
    /\ PublishTerminal
    /\ UNCHANGED <<ended, tracer, sse, received, told, faults>>

\* The finally block's close_open_spans.
Finish ==
    /\ worker = "finishing" /\ worker' = "done"
    /\ CloseOpenSpans
    /\ UNCHANGED <<ended, tracer, sse, received, told, faults>>

WorkerCrash ==
    /\ Fault("workerCrash")
    /\ worker \notin {"done", "dead"} /\ worker' = "dead"
    /\ UNCHANGED <<log, ended, tracer, sse, received, told>>

\* The relay or a second run ends the task, and may fail to say so.
EndElsewhere ==
    /\ Fault("endedElsewhere")
    /\ ended = "not" /\ ended' = "elsewhere"
    /\ log' \in {log, Append(log \o OpenSpanEnds, Plain("terminal"))}
    /\ UNCHANGED <<worker, tracer, sse, received, told>>

-----------------------------------------------------------------------------
(* The stream *)

LastEventId == IF received = <<>> THEN 0 ELSE received[Len(received)]

Connect ==
    /\ sse.pc = "closed" /\ told = "none"
    /\ sse' = [pc |-> "read", cursor |-> LastEventId, deferred |-> 0, recovered |-> FALSE]
    /\ UNCHANGED <<log, ended, worker, tracer, received, told, faults>>

Disconnect ==
    /\ Fault("disconnect")
    /\ sse.pc # "closed" /\ sse' = Closed
    /\ UNCHANGED <<log, ended, worker, tracer, received, told>>

\* One row of the page: the log only grows, so that a page read row by row is
\* the page.  Reasoning is withheld from this browser, a terminal event put off.
ReadRow ==
    /\ sse.pc = "read" /\ sse.cursor < Len(log)
    /\ LET id == sse.cursor + 1
           kind == log[id].kind
       IN /\ sse' = [sse EXCEPT !.cursor = id,
                                !.deferred = IF kind = "terminal" THEN id ELSE @]
          /\ received' = IF kind \in {"reasoning", "terminal"} THEN received
                                                               ELSE Append(received, id)
    /\ UNCHANGED <<log, ended, worker, tracer, told, faults>>

ReadNothing ==
    /\ sse.pc = "read" /\ sse.cursor = Len(log)
    /\ sse' = [sse EXCEPT !.pc = "drained"]
    /\ UNCHANGED <<log, ended, worker, tracer, received, told, faults>>

\* A variant that leaves open spans to the worker.
RecoverBoundaryOnly ==
    /\ sse.pc = "drained" /\ ~sse.recovered
    /\ sse.deferred # 0 \/ HasEnded
    /\ sse' = [sse EXCEPT !.pc = "read", !.recovered = TRUE]
    /\ UNCHANGED <<log, ended, worker, tracer, received, told, faults>>

\* The task has ended: end the spans nobody ended and read once more.
RecoverBoundary ==
    /\ sse.pc = "drained" /\ ~sse.recovered
    /\ sse.deferred # 0 \/ HasEnded
    /\ CloseOpenSpans
    /\ sse' = [sse EXCEPT !.pc = "read", !.recovered = TRUE]
    /\ UNCHANGED <<ended, worker, tracer, received, told, faults>>

\* A variant that sends the terminal event under its own id whatever came after.
SendDeferredRewinding ==
    /\ sse.pc = "drained" /\ sse.recovered /\ sse.deferred # 0
    /\ told' = "event" /\ received' = Append(received, sse.deferred)
    /\ sse' = Closed
    /\ UNCHANGED <<log, ended, worker, tracer, faults>>

\* A terminal event that later rows overtook goes without an id.
SendDeferred ==
    /\ sse.pc = "drained" /\ sse.recovered /\ sse.deferred # 0
    /\ IF sse.deferred = sse.cursor
         THEN told' = "event" /\ received' = Append(received, sse.deferred)
         ELSE told' = "snapshot" /\ UNCHANGED received
    /\ sse' = Closed
    /\ UNCHANGED <<log, ended, worker, tracer, faults>>

\* A variant that numbers the snapshot as if it were logged.
SynthesizeNumbered ==
    /\ sse.pc = "drained" /\ sse.recovered /\ sse.deferred = 0
    /\ HasEnded
    /\ told' = "snapshot" /\ received' = Append(received, sse.cursor + 1)
    /\ sse' = Closed
    /\ UNCHANGED <<log, ended, worker, tracer, faults>>

\* A variant that waits for the terminal event to be published.
SynthesizeNot == FALSE /\ UNCHANGED vars

\* The terminal event nobody published is made from the task's status.
Synthesize ==
    /\ sse.pc = "drained" /\ sse.recovered /\ sse.deferred = 0
    /\ HasEnded
    /\ told' = "snapshot"
    /\ sse' = Closed
    /\ UNCHANGED <<log, ended, worker, tracer, received, faults>>

\* The status is still open, or was checked too recently to be read again.
ReadAgain ==
    /\ sse.pc = "drained" /\ ~sse.recovered /\ sse.deferred = 0
    /\ sse' = [sse EXCEPT !.pc = "read"]
    /\ UNCHANGED <<log, ended, worker, tracer, received, told, faults>>

-----------------------------------------------------------------------------
Run == \/ Stream \/ Commit \/ CompleteAnswer \/ CompleteTask \/ Finish
       \/ \E s \in Span : SpanStarts(s) \/ SpanEnds(s)
Serve == \/ Connect \/ ReadRow \/ ReadNothing \/ RecoverBoundary
         \/ SendDeferred \/ Synthesize

Next == Run \/ Serve \/ ReadAgain \/ WorkerCrash \/ EndElsewhere \/ Disconnect

Spec == Init /\ [][Next]_vars

(***************************************************************************)
(* The browser reconnects, the response is served.  The status is read at  *)
(* least every max(5 s, heartbeat): ReadAgain is left for RecoverBoundary, *)
(* which needs strong fairness.  Nothing is asked of the worker.           *)
(***************************************************************************)
Fairness ==
    /\ WF_vars(Connect) /\ WF_vars(ReadRow) /\ WF_vars(ReadNothing)
    /\ WF_vars(SendDeferred) /\ WF_vars(Synthesize) /\ WF_vars(ReadAgain)
    /\ SF_vars(RecoverBoundary)

FairSpec == Spec /\ Fairness

-----------------------------------------------------------------------------
Kinds == {"reasoning", "delta", "answer", "terminal"}
Events == [kind : Kinds] \cup [kind : {"started", "ended"}, span : Span]

\* Every variable holds a value of its type, and no id is one the log lacks.
TypeOK ==
    /\ log \in Seq(Events) /\ ended \in {"not", "byRun", "elsewhere"}
    /\ worker \in {"running", "committed", "answered", "finishing", "done", "dead"}
    /\ tracer \in [Span -> {"new", "started", "ended"}]
    /\ sse \in [pc : {"closed", "read", "drained"}, cursor : 0..Len(log),
                deferred : 0..Len(log), recovered : BOOLEAN]
    /\ received \in Seq(1..Len(log))
    /\ told \in {"none", "event", "snapshot"}
    /\ faults \in Nat

Received(e) == \E i \in DOMAIN received : log[received[i]] = e

(***************************************************************************)
(* A span ends once in the log, although the run, the worker's finally     *)
(* block, the terminal event and the stream may each write its end; one    *)
(* that started before a terminal event ended before it, also where the    *)
(* task was ended by somebody else than its run.  Unless that happened, a  *)
(* browser that was told the end has the end of every span it saw start,   *)
(* also when the worker died after it.                                     *)
(***************************************************************************)
SpansEnd ==
    /\ \A i, j \in DOMAIN log : log[i] = log[j] /\ log[i].kind = "ended" => i = j
    /\ \A i, t \in DOMAIN log : i < t /\ log[i].kind = "started" /\ log[t].kind = "terminal" =>
          \E j \in i..t : log[j] = Ended(log[i].span)
    /\ told # "none" /\ ended # "elsewhere" =>
          \A s \in Span : Received(Started(s)) => Received(Ended(s))

(***************************************************************************)
(* Over all its connections the browser's event ids only grow, so nothing  *)
(* is shown twice, and no event is missing below the stream's cursor or    *)
(* Last-Event-ID but reasoning and terminal events.                        *)
(***************************************************************************)
ReceivedInOrder ==
    /\ \A i, j \in DOMAIN received : i < j => received[i] < received[j]
    /\ \A id \in DOMAIN log : id <= sse.cursor \/ id <= LastEventId =>
          \/ log[id].kind \in {"reasoning", "terminal"}
          \/ \E i \in DOMAIN received : received[i] = id

(***************************************************************************)
(* A task that has ended is told to the browser, also when the worker died *)
(* before it published its terminal event, or the connection broke after   *)
(* later rows had overtaken it.                                            *)
(***************************************************************************)
EndIsTold == HasEnded ~> told # "none"

=============================================================================
