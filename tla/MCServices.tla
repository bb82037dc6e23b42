----------------------------- MODULE MCServices -----------------------------
(***************************************************************************)
(* Small instances, for TLC, of parts that share no state.  A behaviour is *)
(* one of one of them, chosen with its initial state; the others stay as   *)
(* they are.                                                               *)
(***************************************************************************)
EXTENDS Requests, Attachments, Summary, Breaker, Memo, Points, Dictation, Answers,
        MCAgent, Workspace

VARIABLE part

Parts == {"requests", "files", "summary", "breaker", "memo", "points", "dictation", "answers",
          "agent", "workspace"}

\* Four parts have several initial states, which only a behaviour of theirs takes.
Init ==
    /\ part \in Parts
    /\ RequestsInit /\ FilesInit /\ SummaryInit /\ BreakerInit /\ MemoInit
    /\ PointsInit /\ DictationInit /\ AnswersInit /\ AgentInit /\ WorkspaceInit
    /\ part # "requests" => fresh
    /\ part # "answers" => ~turn.attached /\ turn.path = "final" /\ ~turn.reasoning
    /\ part # "agent" => intent = Asking
    /\ part # "workspace" => anchor = NoAsset

\* What the other parts do while p takes its steps.
Rest(p) ==
    /\ p # "requests" => UNCHANGED requestVars
    /\ p # "files" => UNCHANGED fileVars
    /\ p # "summary" => UNCHANGED summaryVars
    /\ p # "breaker" => UNCHANGED breakerVars
    /\ p # "memo" => UNCHANGED memoVars
    /\ p # "points" => UNCHANGED pointVars
    /\ p # "dictation" => UNCHANGED dictationVars
    /\ p # "answers" => UNCHANGED answerVars
    /\ p # "agent" => UNCHANGED agentVars
    /\ p # "workspace" => UNCHANGED workspaceVars

Next ==
    /\ UNCHANGED part
    /\ \/ part = "requests" /\ RequestsNext
       \/ part = "files" /\ FilesNext
       \/ part = "summary" /\ SummaryNext
       \/ part = "breaker" /\ BreakerNext
       \/ part = "memo" /\ MemoNext
       \/ part = "points" /\ PointsNext
       \/ part = "dictation" /\ DictationNext
       \/ part = "answers" /\ AnswersNext
       \/ part = "agent" /\ AgentNext
       \/ part = "workspace" /\ WorkspaceNext
    /\ Rest(part)

vars == <<part, requestVars, fileVars, summaryVars, breakerVars, memoVars,
          pointVars, dictationVars, answerVars, agentVars, workspaceVars>>

Spec == Init /\ [][Next]_vars

\* Every variable of the part that runs holds a value of its type, with what
\* the part assumes of its own state; the others stay as they began.
TypesOK ==
    /\ part = "requests" => RequestsTypeOK
    /\ part = "files" => FilesTypeOK
    /\ part = "summary" => SummaryTypeOK
    /\ part = "breaker" => BreakerTypeOK
    /\ part = "memo" => MemoTypeOK
    /\ part = "points" => PointsTypeOK
    /\ part = "dictation" => DictationTypeOK
    /\ part = "answers" => AnswersTypeOK
    /\ part = "agent" => AgentTypeOK
    /\ part = "workspace" => WorkspaceTypeOK
=============================================================================
