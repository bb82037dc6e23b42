------------------------------ MODULE Dictation ------------------------------
(***************************************************************************)
(* Speaking a message: the page's recording sessions (app.js), the proxy   *)
(* that bridges each to a recogniser (DashScopeRealtimeAsrProxy) and what  *)
(* lies between them.  The sessions share the page's one state, and its    *)
(* functions wait for the server, the user's permission and the audio      *)
(* context's end in between.  Partial results are left out.                *)
(***************************************************************************)
EXTENDS Naturals, Sequences

CONSTANTS MaxSessions, \* bound: recordings begun
          MaxWaiting,  \* bound: calls that wait for a context when another is refused
          MaxSaid      \* bound: pieces said in a recording

ASSUME DictationAssumption == MaxSessions \in Nat \ {0} /\ MaxSaid \in Nat \ {0} /\ MaxWaiting \in Nat

Session == 1 .. MaxSessions   \* asrSessionId

VARIABLES
    page,    \* the page's asr state: whether it has a stream, or a socket, of
             \* its newest session; whether the timer of a stop runs
    asking,  \* calls of startAsrRecording that wait
    closing, \* calls of abort and finish that wait, the oldest first
    mic,     \* sessions whose tracks are live
    said,    \* pieces a session's capture has taken in
    tail,    \* the capture holds a piece that is no block yet
    up,      \* what a session's page has sent and the proxy not read
    down,    \* what the proxy has sent and the page not read
    socket,  \* the page's end of a session's socket
    proxy,   \* what DashScopeRealtimeAsrProxy.run does for a session
    recogniser,
    faults,  \* sessions hit by a fault of a service, the network or a timer
    crossed  \* a session began while calls of another were not over

pageVars == <<page, closing, mic, said, tail>>
servers == <<proxy, recogniser, faults>>
dictationVars == <<pageVars, asking, up, down, socket, servers, crossed>>

DictationInit ==
    /\ page = [id |-> 0, mode |-> "idle", stream |-> FALSE, socket |-> FALSE,
               timer |-> FALSE, capture |-> FALSE, text |-> <<>>]
    /\ asking = 0 /\ closing = <<>> /\ mic = {} /\ tail = FALSE
    /\ said = [s \in Session |-> 0]
    /\ up = [s \in Session |-> <<>>] /\ down = [s \in Session |-> <<>>]
    /\ socket = [s \in Session |-> "none"] /\ proxy = [s \in Session |-> "none"]
    /\ recogniser = [s \in Session |-> [state |-> "none", heard |-> 0, told |-> 0]]
    /\ faults = {} /\ crossed = FALSE

-----------------------------------------------------------------------------
(* The page: a function up to its first await is one step                  *)

Open(s) == s \in Session /\ socket[s] = "open"

\* socket.close: no message is handled any more.
CloseSocket(s) ==
    /\ socket' = [x \in Session |-> IF x = s /\ socket[x] \in {"opening", "open"} THEN "closing" ELSE socket[x]]
    /\ up' = IF Open(s) THEN [up EXCEPT ![s] = Append(@, "close")] ELSE up

Released == [page EXCEPT !.stream = FALSE, !.socket = FALSE, !.capture = FALSE]
Socket == IF page.socket THEN page.id ELSE 0

\* abortAsrSession and finishAsrSessionCleanup wait for the audio context's
\* end; where it is gone they get through at once.
EndSession(kind) ==
    /\ page' = [(IF page.stream THEN page ELSE Released) EXCEPT !.mode = "idle", !.timer = FALSE]
    /\ closing' = IF page.stream THEN Append(closing, [kind |-> kind, socket |-> Socket]) ELSE closing
    /\ mic' = IF page.stream THEN mic \ {page.id} ELSE mic
    /\ tail' = FALSE /\ UNCHANGED said

EndAndClose(kind) ==
    /\ EndSession(kind)
    /\ IF page.stream THEN UNCHANGED <<socket, up>> ELSE CloseSocket(Socket)

\* Abort closes the socket the page has by then, finish the one it had.
ContextClosed ==
    /\ closing # <<>> /\ closing' = Tail(closing)
    /\ page' = Released
    /\ CloseSocket(IF Head(closing).kind = "abort" THEN Socket ELSE Head(closing).socket)
    /\ UNCHANGED <<mic, said, tail, asking, down, servers, crossed>>

StartRecording ==
    /\ page.mode = "idle" /\ page.id + asking < MaxSessions
    /\ asking' = asking + 1
    /\ UNCHANGED <<pageVars, up, down, socket, servers, crossed>>

Crosses == crossed' = (crossed \/ page.mode # "idle" \/ closing # <<>>)

\* The server has said yes, and the user.  What an earlier capture brings is
\* dropped from now on.
BeginRecording ==
    /\ asking > 0 /\ asking' = asking - 1 /\ Crosses
    /\ LET s == page.id + 1 IN
       /\ page' = [page EXCEPT !.id = s, !.mode = "connecting", !.stream = TRUE,
                               !.socket = TRUE, !.capture = FALSE, !.text = <<>>]
       /\ mic' = mic \cup {s} /\ socket' = [socket EXCEPT ![s] = "opening"]
    /\ tail' = FALSE
    /\ UNCHANGED <<closing, said, up, down, servers>>

Refused ==
    /\ asking > 0 /\ asking' = asking - 1 /\ Crosses
    /\ Len(closing) < MaxWaiting
    /\ EndAndClose("abort")
    /\ UNCHANGED <<down, servers>>

\* The button, newChat, or the timer of the connection.
Stop ==
    /\ \/ page.mode = "connecting" /\ EndAndClose("abort")
       \/ /\ page.mode = "recording"
          /\ page' = [page EXCEPT !.mode = "finalizing", !.timer = TRUE]
          /\ UNCHANGED <<closing, mic, said, tail, up, socket>>
    /\ UNCHANGED <<asking, down, servers, crossed>>

Say ==
    /\ page.mode = "recording" /\ page.capture /\ page.id \in mic
    /\ ~tail /\ said[page.id] < MaxSaid
    /\ tail' = TRUE /\ said' = [said EXCEPT ![page.id] = @ + 1]
    /\ UNCHANGED <<page, closing, mic, asking, up, down, socket, servers, crossed>>

\* A block of the capture is full, or flushed.
SendBlock ==
    /\ tail /\ tail' = FALSE
    /\ up' = IF Open(Socket) /\ page.mode \in {"recording", "finalizing"}
             THEN [up EXCEPT ![page.id] = Append(@, "audio")] ELSE up
    /\ UNCHANGED <<page, closing, mic, said, asking, down, socket, servers, crossed>>

\* A variant that does not wait for the flush.
FlushedAnyway == TRUE

\* The grace of 120 ms is enough for the flush.
Flushed == ~tail

FinishAudio ==
    /\ page.timer /\ Flushed
    /\ IF Open(Socket)
       THEN /\ up' = [up EXCEPT ![page.id] = Append(@, "finish")]
            /\ page' = [page EXCEPT !.timer = FALSE]
            /\ mic' = mic \ {page.id}
            /\ UNCHANGED <<closing, said, tail, socket>>
       ELSE EndAndClose("finish")
    /\ UNCHANGED <<asking, down, servers, crossed>>

\* handleRealtimeAsrMessage, of a message of the newest session.
Handle(m) ==
    \/ /\ \/ m.type = "connected" /\ page' = [page EXCEPT !.mode = "connecting"]
          \/ m.type = "ready" /\ page' = [page EXCEPT !.mode = "recording", !.capture = page.stream]
          \/ m.type = "final" /\ page' = [page EXCEPT !.text = Append(@, m.piece)]
       /\ UNCHANGED <<closing, mic, said, tail, up, socket>>
    \/ m.type = "error" /\ EndAndClose("abort")
    \/ m.type = "finished" /\ EndAndClose("finish")

\* A variant that handles what an earlier session still brings.
NewestAny(s) == TRUE
Newest(s) == s = page.id

Receive(s) ==
    /\ socket[s] = "open" /\ down[s] # <<>> /\ Head(down[s]).type # "close"
    /\ down' = [down EXCEPT ![s] = Tail(@)]
    /\ IF Newest(s) THEN Handle(Head(down[s])) ELSE UNCHANGED <<pageVars, up, socket>>
    /\ UNCHANGED <<asking, servers, crossed>>

\* onclose; what a closing socket still brings is dropped.
Closed(s) ==
    /\ socket[s] \in {"open", "closing"} /\ down[s] # <<>>
    /\ Head(down[s]).type = "close" \/ socket[s] = "closing"
    /\ down' = [down EXCEPT ![s] = Tail(@)]
    /\ IF Head(down[s]).type # "close" THEN UNCHANGED <<pageVars, socket>>
       ELSE /\ socket' = [socket EXCEPT ![s] = "closed"]
            /\ \/ (~Newest(s) \/ page.mode = "idle") /\ UNCHANGED pageVars
               \/ Newest(s) /\ page.mode \in {"recording", "connecting"} /\ EndSession("abort")
               \/ Newest(s) /\ page.mode = "finalizing" /\ EndSession("finish")
    /\ UNCHANGED <<asking, up, servers, crossed>>

-----------------------------------------------------------------------------
(* The proxy and the recogniser *)

Msg(type) == [type |-> type, piece |-> 0]
Tell(s, m) == down' = [down EXCEPT ![s] = Append(@, m)]
Is(s, state) == recogniser' = [recogniser EXCEPT ![s].state = state]

\* The socket is accepted, or cannot be opened.
Accept(s) ==
    /\ proxy[s] = "none" /\ socket[s] \in {"opening", "closing"}
    /\ \/ /\ socket' = [socket EXCEPT ![s] = IF @ = "opening" THEN "open" ELSE @]
          /\ up' = IF socket[s] = "closing" THEN [up EXCEPT ![s] = <<"close">>] ELSE up
          /\ proxy' = [proxy EXCEPT ![s] = "dialing"]
          /\ UNCHANGED <<down, faults>>
       \/ /\ socket' = [socket EXCEPT ![s] = "closing"] /\ Tell(s, Msg("close"))
          /\ proxy' = [proxy EXCEPT ![s] = "over"] /\ faults' = faults \cup {s}
          /\ UNCHANGED up
    /\ UNCHANGED <<pageVars, asking, recogniser, crossed>>

\* run, whose last act is to close the browser's socket.
EndRun(s, ms) ==
    /\ down' = [down EXCEPT ![s] = @ \o ms \o <<Msg("close")>>]
    /\ proxy' = [proxy EXCEPT ![s] = "over"] /\ Is(s, "over")

Dial(s) ==
    /\ proxy[s] = "dialing"
    /\ \/ /\ proxy' = [proxy EXCEPT ![s] = "bridging"]
          /\ Is(s, "starting") /\ Tell(s, Msg("connected")) /\ UNCHANGED faults
       \/ EndRun(s, <<Msg("error")>>) /\ faults' = faults \cup {s}
    /\ UNCHANGED <<pageVars, asking, up, socket, crossed>>

\* _browser_to_qwen_audio, and what the bridge does when it returns: after a
\* finish, and after a disconnect, the recogniser may finish.
PumpUp(s) ==
    /\ proxy[s] = "bridging" /\ up[s] # <<>>
    /\ up' = [up EXCEPT ![s] = Tail(@)]
    /\ IF Head(up[s]) = "audio"
       THEN recogniser' = [recogniser EXCEPT ![s].heard = @ + 1] /\ UNCHANGED proxy
       ELSE Is(s, "finishing") /\ proxy' = [proxy EXCEPT ![s] = "finishing"]
    /\ UNCHANGED <<pageVars, asking, down, socket, faults, crossed>>

\* _qwen_audio_to_browser: task-started, a sentence's end, task-finished.
PumpDown(s) ==
    /\ proxy[s] \in {"bridging", "finishing"}
    /\ \/ recogniser[s].state = "starting" /\ Is(s, "running") /\ Tell(s, Msg("ready")) /\ UNCHANGED proxy
       \/ /\ recogniser[s].state \in {"running", "finishing"} /\ recogniser[s].told < recogniser[s].heard
          /\ recogniser' = [recogniser EXCEPT ![s].told = @ + 1]
          /\ Tell(s, [type |-> "final", piece |-> recogniser[s].told + 1]) /\ UNCHANGED proxy
       \/ /\ recogniser[s].state = "finishing" /\ recogniser[s].told = recogniser[s].heard
          /\ EndRun(s, <<Msg("finished")>>)
    /\ UNCHANGED <<pageVars, asking, up, socket, faults, crossed>>

\* task-failed and a send that fails are told; an upstream that closes, or
\* does not finish in time, is not.
Break(s) ==
    /\ proxy[s] \in {"bridging", "finishing"}
    /\ \E ms \in {<<Msg("error")>>, <<>>} : EndRun(s, ms)
    /\ faults' = faults \cup {s}
    /\ UNCHANGED <<pageVars, asking, up, socket, crossed>>

DictationNext ==
    \/ StartRecording \/ BeginRecording \/ Refused \/ Stop \/ Say \/ SendBlock \/ FinishAudio \/ ContextClosed
    \/ \E s \in Session : Receive(s) \/ Closed(s) \/ Accept(s) \/ Dial(s) \/ PumpUp(s) \/ PumpDown(s) \/ Break(s)

DictationSpec == DictationInit /\ [][DictationNext]_dictationVars

-----------------------------------------------------------------------------
DictationTypeOK ==
    /\ page.id \in 0 .. MaxSessions /\ page.mode \in {"idle", "connecting", "recording", "finalizing"}
    /\ asking \in 0 .. MaxSessions /\ mic \subseteq Session /\ faults \subseteq Session
    /\ \A s \in Session : /\ socket[s] \in {"none", "opening", "open", "closing", "closed"}
                          /\ proxy[s] \in {"none", "dialing", "bridging", "finishing", "over"}
                          /\ recogniser[s].told <= recogniser[s].heard

(***************************************************************************)
(* What the page shows of a recording is what was said in it, from the     *)
(* beginning, each piece once, whatever earlier recordings still bring;    *)
(* when its socket has closed the page does not go on recording.  Unless a *)
(* recording began while calls for another were not over, all that was     *)
(* said in one that ended without a fault is shown, and the microphone is  *)
(* off when the page is idle (app.js, asr/realtime.py).                    *)
(***************************************************************************)
DictationSound ==
    /\ page.text = [k \in 1 .. Len(page.text) |-> k]
    /\ page.id # 0 =>
         /\ Len(page.text) <= said[page.id]
         /\ socket[page.id] = "closed" => page.mode = "idle"
    /\ ~crossed =>
         /\ page.mode = "idle" => mic = {}
         /\ page.id # 0 /\ socket[page.id] = "closed" /\ page.id \notin faults =>
              Len(page.text) = said[page.id]
=============================================================================
