------------------------------- MODULE Answers -------------------------------
(***************************************************************************)
(* How an answer reaches the customer while its model still writes it:     *)
(* AnswerStreamSession between the model's stream and the event log, for   *)
(* the supervisor's final answer, or for the quick answer of               *)
(* GeneralContentAgent, which has other ways to ask the model and which    *)
(* ResilientAgentExecutor may execute again.  A piece is what the model    *)
(* sends at a time; the sections an answer leaves out are no pieces.       *)
(***************************************************************************)
EXTENDS Naturals, Sequences

CONSTANTS MaxPieces,  \* bound: pieces of one generation
          QueueSize,  \* of the queue between the model and the session
          MaxAttempts \* executions of the agent: agent_default_max_retries + 1

ASSUME AnswersAssumption ==
    MaxPieces \in Nat \ {0} /\ QueueSize \in Nat \ {0} /\ MaxAttempts \in Nat \ {0}

VARIABLES
    turn,    \* what is asked: by which path, whether reasoning is streamed
    execution, \* of the agent, by the executor
    way,     \* how the model is asked: "native", "blocking", "text", "final"
    stage,   \* of the turn: "call", "streaming", "flushing" or "over"
    then,    \* what follows the flush: the loop, the answer, or what was raised
    model,   \* the generation, how many pieces of each channel it has made,
             \* whether it makes more
    box,     \* the queue of the session
    held,    \* what the renderer of each channel holds back
    ready,   \* what was released and is to be flushed
    sent,    \* pieces of ready this flush has published
    meta,    \* _answer_generation: content, reasoning_available
    shown,   \* pieces the event log has, of each channel
    torn,    \* publishing a delta has failed or was cancelled
    outcome  \* what the turn ends with

session == <<then, box, held, ready, sent>>
answerVars == <<turn, execution, way, stage, model, session, meta, shown, torn, outcome>>

Channel == {"final", "reasoning"}
Piece(channel, gen, n) == [channel |-> channel, gen |-> gen, n |-> n]

NoHeld == [final |-> <<>>, reasoning |-> <<>>]
NoneMade == [final |-> 0, reasoning |-> 0]
NoMeta == [content |-> <<>>, reasoning |-> FALSE]
Unanswered == [status |-> "open", text |-> <<>>]

Ways == {"native", "text", "final"}
FirstWay == IF turn.path = "final" THEN "final" ELSE IF turn.attached THEN "native" ELSE "text"

AnswersInit ==
    /\ turn \in [path : {"quick", "final"}, attached : BOOLEAN, images : BOOLEAN, reasoning : BOOLEAN]
    /\ turn.images => turn.attached
    /\ turn.attached => turn.path = "quick"
    /\ execution = 1 /\ way = FirstWay /\ stage = "call" /\ then = "loop"
    /\ model = [gen |-> 0, made |-> NoneMade, over |-> TRUE]
    /\ box = <<>> /\ held = NoHeld /\ ready = <<>> /\ sent = 0
    /\ meta = NoMeta /\ shown = NoHeld /\ torn = FALSE /\ outcome = Unanswered

TurnOver(status, text) ==
    /\ stage' = "over" /\ outcome' = [status |-> status, text |-> text]
    /\ UNCHANGED <<execution, way>>

-----------------------------------------------------------------------------
(* ResilientAgentExecutor.execute and GeneralContentAgent.execute          *)

\* A variant that executes again whatever was shown.
StreamedNever == FALSE

\* Something of this generation is public: a restart would show it twice.
Streamed == meta.content # <<>> \/ meta.reasoning

\* The agent has failed; of a final answer, the task has.
Fails(retryable) ==
    IF turn.path = "quick" /\ retryable /\ ~Streamed /\ execution < MaxAttempts
    THEN execution' = execution + 1 /\ way' = FirstWay /\ stage' = "call" /\ UNCHANGED outcome
    ELSE TurnOver("FAILED", meta.content)

\* An AppError of the model.  A native stream with nothing public is followed
\* by a blocking call, and that by a stream of the text of the files.
ModelFails ==
    IF (way = "native" /\ ~Streamed) \/ (way = "blocking" /\ ~turn.images)
    THEN /\ way' = (IF way = "native" THEN "blocking" ELSE "text")
         /\ stage' = "call" /\ UNCHANGED <<execution, outcome>>
    ELSE \E retryable \in BOOLEAN : Fails(retryable)

Raised(error) ==
    \/ error = "stopped" /\ TurnOver("STOPPED", meta.content)
    \/ error \in {"other", "timeout"} /\ Fails(TRUE)
    \/ error = "model" /\ ModelFails

\* answer.started is published before anything else of the session.
Ask ==
    /\ stage = "call" /\ way \in Ways
    /\ model' = [gen |-> model.gen + 1, made |-> NoneMade, over |-> FALSE]
    /\ meta' = NoMeta
    /\ then' = "loop" /\ box' = <<>> /\ held' = NoHeld /\ ready' = <<>> /\ sent' = 0
    /\ stage' = "streaming" /\ UNCHANGED <<turn, execution, way, shown, torn, outcome>>

AskFails ==
    /\ stage = "call"
    /\ \E error \in (IF way = "blocking" THEN {"model", "other"} ELSE {"other"})
                    \cup (IF turn.path = "quick" THEN {"timeout"} ELSE {}) : Raised(error)
    /\ UNCHANGED <<turn, model, session, meta, shown, torn>>

\* The answer of a blocking call is published whole by the quick path; the
\* task fails with what the meta has when that fails.
AskBlocking ==
    /\ stage = "call" /\ way = "blocking"
    /\ LET piece == Piece("final", model.gen + 1, 1)
           whole == [shown EXCEPT !.final = Append(@, piece)]
       IN
       /\ model' = [gen |-> piece.gen, made |-> [NoneMade EXCEPT !.final = 1], over |-> TRUE]
       /\ \/ shown' = whole /\ TurnOver("COMPLETED", <<piece>>) /\ UNCHANGED torn
          \/ /\ shown' \in {shown, whole} /\ torn' = TRUE
             /\ TurnOver("FAILED", meta.content)
    /\ UNCHANGED <<turn, session, meta>>

-----------------------------------------------------------------------------
(* AnswerStreamSession.run *)

\* The producer: what the model sends, its end or its failure, in that order.
Produce ==
    /\ stage \in {"streaming", "flushing"} /\ ~model.over /\ Len(box) < QueueSize
    /\ \/ \E channel \in Channel :
            /\ model.made.final + model.made.reasoning < MaxPieces
            /\ model' = [model EXCEPT !.made[channel] = @ + 1]
            /\ box' = Append(box, Piece(channel, model.gen, model.made[channel] + 1))
       \/ \E end \in {"end", "model", "other"} :
            /\ model' = [model EXCEPT !.over = TRUE]
            /\ box' = Append(box, Piece(end, model.gen, 0))
    /\ UNCHANGED <<turn, execution, way, stage, then, held, ready, sent, meta, shown, torn, outcome>>

Flush(next) == stage' = "flushing" /\ then' = next /\ sent' = 0

\* A piece goes through its renderer, which may hold back the last it has.
TakePiece(piece) ==
    LET all == Append(held[piece.channel], piece) IN
    \E k \in {Len(all) - 1, Len(all)} :
       /\ held' = [held EXCEPT ![piece.channel] = SubSeq(all, k + 1, Len(all))]
       /\ ready' = ready \o SubSeq(all, 1, k)

\* A variant that leaves what the renderers hold at the end.
RemainderLost == <<>>
Remainder == held.final \o held.reasoning

TakeItem ==
    /\ stage = "streaming" /\ box # <<>> /\ box' = Tail(box)
    /\ LET item == Head(box) IN
       CASE item.channel \in Channel ->
              TakePiece(item) /\ (Flush("loop") \/ UNCHANGED <<stage, then, sent>>)
         [] item.channel = "end" -> /\ ready' = ready \o Remainder
                                    /\ held' = NoHeld /\ Flush("answer")
         [] OTHER -> Flush(item.channel) /\ UNCHANGED <<held, ready>>
    /\ UNCHANGED <<turn, execution, way, model, meta, shown, torn, outcome>>

\* The interval is over, or a stop is seen, or the executor's time is up.
Interrupt ==
    /\ stage = "streaming"
    /\ \/ ready # <<>> /\ Flush("loop")
       \/ Flush("stopped")
       \/ turn.path = "quick" /\ Flush("timeout")
    /\ UNCHANGED <<turn, execution, way, model, box, held, ready, meta, shown, torn, outcome>>

\* What is published at a time: pieces of one channel, as many as append has
\* put together.
IsDelta(k, channel) ==
    \A i \in 1 .. Len(ready) :
       /\ i \in sent + 1 .. sent + k => ready[i].channel = channel
       /\ i = sent + k + 1 => ready[i].channel # channel

Publishable(channel) == channel = "final" \/ turn.reasoning

\* _delta takes down what it publishes before it publishes it.
TakeDown(channel, delta) ==
    meta' = IF channel = "final" THEN [meta EXCEPT !.content = @ \o delta]
            ELSE [meta EXCEPT !.reasoning = TRUE]

Publish ==
    /\ stage = "flushing"
    /\ \E k \in 1 .. Len(ready) - sent, channel \in Channel :
         LET delta == SubSeq(ready, sent + 1, sent + k) IN
         /\ IsDelta(k, channel) /\ sent' = sent + k
         /\ IF Publishable(channel)
            THEN TakeDown(channel, delta) /\ shown' = [shown EXCEPT ![channel] = @ \o delta]
            ELSE UNCHANGED <<meta, shown>>
    /\ UNCHANGED <<turn, execution, way, stage, then, model, box, held, ready, torn, outcome>>

\* Pending is kept, and flushed again when an error or a cancellation comes
\* out of the loop; out of that flush it ends the session.
PublishFails ==
    /\ stage = "flushing" /\ torn' = TRUE
    /\ \E k \in 1 .. Len(ready) - sent, channel \in Channel :
         LET delta == SubSeq(ready, sent + 1, sent + k) IN
         /\ IsDelta(k, channel) /\ Publishable(channel) /\ TakeDown(channel, delta)
         /\ shown' \in {shown, [shown EXCEPT ![channel] = @ \o delta]}
    /\ \E error \in {"other"} \cup IF turn.path = "quick" /\ then # "timeout" THEN {"timeout"} ELSE {} :
         IF then \in {"loop", "answer"} THEN Flush(error) /\ UNCHANGED <<execution, way, outcome>>
         ELSE /\ UNCHANGED <<then, sent>>
              /\ TurnOver("FAILED", meta'.content)
    /\ UNCHANGED <<turn, model, box, held, ready>>

\* The session ends: the producer is cancelled and the end is published, which
\* may fail.  Of an empty text the graph makes a sentence that is no piece.
EndFlush ==
    /\ stage = "flushing" /\ sent = Len(ready) /\ ready' = <<>> /\ sent' = 0
    /\ IF then = "loop" THEN stage' = "streaming" /\ UNCHANGED <<execution, way, outcome>>
       ELSE \/ Raised("other")
            \/ then # "answer" /\ Raised(then)
            \/ then = "answer" /\ IF way = "native" /\ meta.content = <<>>
                                  THEN Fails(FALSE)   \* an empty native stream
                                  ELSE TurnOver("COMPLETED", meta.content)
    /\ UNCHANGED <<turn, model, then, box, held, meta, shown, torn>>

AnswersNext ==
    Ask \/ AskFails \/ AskBlocking \/ Produce \/ TakeItem
    \/ Interrupt \/ Publish \/ PublishFails \/ EndFlush

AnswersSpec == AnswersInit /\ [][AnswersNext]_answerVars

-----------------------------------------------------------------------------
AnswersTypeOK ==
    /\ execution \in 1 .. MaxAttempts /\ way \in Ways \cup {"blocking"}
    /\ stage \in {"call", "streaming", "flushing", "over"}
    /\ then \in {"loop", "answer", "model", "other", "stopped", "timeout"}
    /\ model.made.final + model.made.reasoning <= MaxPieces /\ Len(box) <= QueueSize /\ sent <= Len(ready)
    /\ stage = "over" <=> outcome # Unanswered

\* What is shown of a channel when n pieces of the generation are.
Beginning(channel, n) == [i \in 1 .. n |-> Piece(channel, model.gen, i)]

(***************************************************************************)
(* What is shown of an answer, and of the reasoning before it, comes from  *)
(* one generation, the last, however many were made.  Unless publishing a  *)
(* piece failed, it is the beginning of that generation, each piece once,  *)
(* and what the turn keeps as its answer, stopped or failed as well; a     *)
(* completed answer is shown whole, with the reasoning where it is public  *)
(* (output/streaming.py, general_content.py, resilient_executor.py).       *)
(***************************************************************************)
AnswerIsShown ==
    /\ \A channel \in Channel :
         /\ \A i \in 1 .. Len(shown[channel]) : shown[channel][i].gen = model.gen
         /\ ~torn => /\ Len(shown[channel]) <= model.made[channel]
                     /\ shown[channel] = Beginning(channel, Len(shown[channel]))
         /\ outcome.status = "COMPLETED" /\ Publishable(channel) =>
              shown[channel] = Beginning(channel, model.made[channel])
    /\ stage = "over" /\ (~torn \/ outcome.status = "COMPLETED") => outcome.text = shown.final
=============================================================================
