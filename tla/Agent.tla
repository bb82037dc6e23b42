-------------------------------- MODULE Agent --------------------------------
(***************************************************************************)
(* The graph of a turn in the mode "normal": the entity is resolved, then  *)
(* deciding and executing alternate within bounds until the turn can be    *)
(* answered, or waits for the user to choose an entity or an analysis      *)
(* depth.  Tools, the asset service and the user may do anything.          *)
(***************************************************************************)
EXTENDS Supervisor

\* A recursion limit of LangGraph: the run fails once it takes more steps.
RecursionLimit == IF 3 * MaxSteps > 24 THEN 3 * MaxSteps ELSE 24

AgentInit ==
    /\ place = "resolve"
    /\ intent \in Intent /\ depth = intent.depth
    /\ who = [action |-> "", anchor |-> "none", fuzzy |-> "none", resolved |-> "none", selected |-> "none"]
    /\ lookup = [status |-> "none", among |-> "none"]
    /\ obs = {} /\ hasSpeed = FALSE /\ visited = {} /\ plan = {} /\ verdict = "none"
    /\ step = 0 /\ calls = 0
    /\ hops = 2   \* load_context and prepare_content
    /\ status = "none"

\* route_after_entity_resolution and route_after_agent_execution.
Route(result) ==
    CASE result = "MULTIPLE" -> "wait"
      [] result \in {"ERROR", "NOT_FOUND"} -> "failure"
      [] OTHER -> "decide"

-----------------------------------------------------------------------------
(* Looking an entity up *)

FoundLevels(need) == IF need = "point" THEN {"point"} ELSE {"equipment", "point"}
Seen(t, result) == [tool |-> t, recipe |-> FALSE, status |-> result]

\* What the one entity layer of the turn brings.
LookUp(need) ==
    \/ \E action \in {"reuse", "replace"}, found \in FoundLevels(need) :
         /\ who' = [who EXCEPT !.action = action, !.fuzzy = found, !.resolved = found,
                               !.anchor = IF action = "reuse" THEN found ELSE "none"]
         /\ lookup' = [status |-> "UNIQUE", among |-> "none"]
         /\ obs' = obs \cup {Seen("fuzzy", "COMPLETED")}
    \/ \E result \in {"MULTIPLE", "NOT_FOUND"} :
         /\ who' = [who EXCEPT !.action = "replace", !.resolved = "none", !.anchor = "none"]
         /\ lookup' = [status |-> result, among |-> IF result = "MULTIPLE" THEN need ELSE "none"]
         /\ obs' = obs \cup {Seen("fuzzy", "COMPLETED")}
    \/ /\ who' = [who EXCEPT !.action = "none", !.resolved = "none", !.anchor = "none"]
       /\ lookup' = [status |-> "ERROR", among |-> "none"]
       /\ obs' = obs \cup {Seen("fuzzy", "FAILED")}

\* resolve_entity_context; activate_evidence_context runs with it.
Resolve ==
    /\ place = "resolve"
    /\ \/ intent.need # "none" /\ LookUp(intent.need)
       \/ /\ intent.need = "none"   \* the asset service is skipped
          /\ who' = [who EXCEPT !.action = "none"]
          /\ lookup' = [status |-> "NO_LOOKUP", among |-> "none"]
          /\ UNCHANGED obs
       \/ /\ lookup' = [status |-> "ERROR", among |-> "none"]   \* the classifier failed
          /\ UNCHANGED <<who, obs>>
    /\ place' = Route(lookup'.status)
    /\ hops' = hops + IF place' = "decide" THEN 2 ELSE 1
    /\ UNCHANGED <<intent, depth, hasSpeed, visited, plan, verdict, step, calls, status>>

-----------------------------------------------------------------------------
(* normal_react_decide *)

\* _repair_react_missing_entity_call, and _repair_react_entity_capability_call,
\* which expands the same calls to the same lookup.
Repaired(c) ==
    IF c.tool = "fuzzy" \/ Has(Need(c.tool)) THEN c
    ELSE IF Need(c.tool) = "point" /\ Has("equipment") THEN DownDrill
    ELSE Locate(Need(c.tool))

\* _react_action_signature: knowledge is not bound to an entity.
Signature(c) == [call |-> c, bound |-> IF c.tool = "knowledge" THEN "none" ELSE CurrentEntity]

Safe(c) == c.tool \in DataTools \cup {"knowledge", "info"}   \* PARALLEL_READS

\* A variant: a batch is only clipped to what may run in parallel.
ParallelLimit == MaxParallel

\* A batch is clipped to what is left of the calls.
Limit == IF MaxCalls - calls < MaxParallel THEN MaxCalls - calls ELSE MaxParallel

\* independent_calls, of the calls cs[i] with i in ready: the first alone, or
\* reads of different tools up to the limit.
Independent(cs, ready, limit) ==
    LET first == CHOOSE i \in ready : \A j \in ready : i <= j
        safe == {i \in ready : /\ Safe(cs[i])
                               /\ \A j \in ready : j < i /\ Safe(cs[j]) => cs[j].tool # cs[i].tool}
    IN  IF ready = {} THEN {}
        ELSE IF ~Safe(cs[first]) THEN {cs[first]}
        ELSE {cs[i] : i \in {j \in safe : Cardinality({h \in safe : h <= j}) <= limit}}

\* The calls to run: allowed at this depth, repaired, and none a second time.
Batch(cs) ==
    LET fixed == [i \in DOMAIN cs |-> Repaired(cs[i])]
        allowed == {i \in DOMAIN cs : depth = "detailed" \/ ~RequiresDetailed(cs[i])}
        ready == {i \in allowed : /\ Signature(fixed[i]) \notin visited
                                  /\ \A j \in allowed : j < i => fixed[j] # fixed[i]}
    IN  Independent(fixed, ready, Limit)

AtBound == step >= MaxSteps \/ calls >= MaxCalls

\* A variant: a bound fails the run, whatever it acquired.
VerdictsBoundFails ==
    IF AtBound THEN {Cannot}
    ELSE IF Recipe # "none" /\ ~HardFailed
      THEN {IF NextRecipeCalls # <<>> THEN More(NextRecipeCalls) ELSE Answerable}
    ELSE NextReactAction

\* A bound, else a recipe that still works, else the supervisor.
Verdicts ==
    IF AtBound THEN {IF obs # {} THEN Answerable ELSE Cannot}
    ELSE IF Recipe # "none" /\ ~HardFailed
      THEN {IF NextRecipeCalls # <<>> THEN More(NextRecipeCalls) ELSE Answerable}
    ELSE NextReactAction

\* A verdict that passed the gate; when all its calls were run before, what
\* was acquired has to do.
Decide ==
    /\ place = "decide" /\ ~ConfirmationRequired
    /\ \E w \in Verdicts : \E v \in Gate(w, ~AtBound) :
         /\ plan' = Batch(v.calls)
         /\ \E u \in IF v.calls # <<>> /\ plan' = {} THEN Gate(Answerable, FALSE) ELSE {v} :
              verdict' = u.type
    /\ place' = IF plan' # {} THEN "execute" ELSE "finalize"
    /\ step' = step + 1 /\ hops' = hops + 1
    /\ UNCHANGED <<intent, depth, who, lookup, obs, hasSpeed, visited, calls, status>>

AskForDepth ==
    /\ place = "decide" /\ ConfirmationRequired
    /\ place' = "over" /\ status' = "WAITING_CONFIRMATION" /\ plan' = {}
    /\ hops' = hops + 1
    /\ UNCHANGED <<intent, depth, who, lookup, obs, hasSpeed, visited, verdict, step, calls>>

-----------------------------------------------------------------------------
(* normal_react_execute *)

\* _point_down_drill_state_updates: the points of the equipment.  One becomes
\* the resolved entity; of several the user chooses.
DrillDown ==
    \/ /\ who' = [who EXCEPT !.resolved = "point"]
       /\ lookup' = [status |-> "UNIQUE", among |-> "none"]
       /\ obs' = obs \cup {Seen("points", "SUCCESS")}
    \/ /\ lookup' = [status |-> "MULTIPLE", among |-> "point"]
       /\ obs' = obs \cup {Seen("points", "SUCCESS")} /\ UNCHANGED who
    \/ obs' = obs \cup {Seen("points", "FAILED")} /\ UNCHANGED <<who, lookup>>

\* An entity the turn has is used again; in an equipment points are looked up.
FindEntity(level) ==
    IF Has(level)
      THEN /\ who' = [who EXCEPT !.fuzzy = CurrentEntity, !.resolved = CurrentEntity]
           /\ lookup' = [status |-> "UNIQUE", among |-> "none"]
           /\ obs' = obs \cup {Seen("fuzzy", "COMPLETED")}
    ELSE IF level = "point" /\ Has("equipment") THEN DrillDown
    ELSE LookUp(level)

\* What a tool needs of the results before it.
Lacks(t) ==
    \/ ~Has(Need(t))
    \/ t \in {"rpm", "diagnosePoint"} /\ ~Done("snapshot")
    \/ t = "diagnoseDevice" /\ ~Done("deviceData")

ResultsOf(c) ==
    IF RequiresDetailed(c) /\ depth # "detailed" THEN {"REJECTED"}
    ELSE IF Lacks(c.tool) THEN {"NEEDS_INPUT"} ELSE {"SUCCESS", "FAILED"}

\* Alone or side by side; what fails does not keep the others from ending.
RunTools ==
    \E result \in [plan -> {"REJECTED", "NEEDS_INPUT", "SUCCESS", "FAILED"}] :
       /\ \A c \in plan : result[c] \in ResultsOf(c)
       /\ obs' = obs \cup {[tool |-> c.tool, recipe |-> c.args = "recipe", status |-> result[c]] : c \in plan}
       /\ \/ UNCHANGED hasSpeed
          \/ (\E c \in plan : c.tool = "rpm" /\ result[c] = "SUCCESS") /\ hasSpeed' = TRUE

Execute ==
    /\ place = "execute"
    /\ \/ /\ \E c \in plan : c.tool = "fuzzy" /\ FindEntity(c.level)
          /\ UNCHANGED hasSpeed
       \/ DownDrill \in plan /\ DrillDown /\ UNCHANGED hasSpeed
       \/ /\ \A c \in plan : c.tool # "fuzzy" /\ c # DownDrill
          /\ RunTools /\ UNCHANGED <<who, lookup>>
    /\ visited' = visited \cup {Signature(c) : c \in plan}
    /\ calls' = calls + Cardinality(plan)
    /\ plan' = {} /\ place' = Route(lookup'.status) /\ hops' = hops + 1
    /\ UNCHANGED <<intent, depth, verdict, step, status>>

-----------------------------------------------------------------------------
(* The ends of a run, and what the user answers *)

\* normal_react_finalize; the user may stop the answer while it is streamed.
Finalize ==
    /\ place = "finalize" /\ place' = "over" /\ hops' = hops + 1
    /\ status' \in {"STOPPED", IF IdentityFailed THEN "FAILED"
                               ELSE IF verdict = "NEED_USER_INPUT" THEN "WAITING_INPUT" ELSE "COMPLETED"}
    /\ UNCHANGED <<intent, depth, who, lookup, obs, hasSpeed, visited, plan, verdict, step, calls>>

\* entity_resolution_failure: with attachments, their explanation is an answer.
ResolutionFails ==
    /\ place = "failure" /\ place' = "over" /\ hops' = hops + 1
    /\ status' \in IF IdentityFailed THEN {"FAILED", "COMPLETED"} ELSE {"COMPLETED"}
    /\ obs' = IF status' = "FAILED" THEN obs ELSE obs \cup {Seen("fuzzy", "FAILED")}
    /\ UNCHANGED <<intent, depth, who, lookup, hasSpeed, visited, plan, verdict, step, calls>>

WaitForSelection ==
    /\ place = "wait" /\ place' = "over" /\ hops' = hops + 1
    /\ status' = "WAITING_SELECTION"
    /\ UNCHANGED <<intent, depth, who, lookup, obs, hasSpeed, visited, plan, verdict, step, calls>>

\* The graph runs again, from its first node.
ResumeAt(node) ==
    /\ place' = node /\ hops' = (IF node = "decide" THEN 4 ELSE 3)
    /\ status' = "none" /\ verdict' = "none"
    /\ visited' = {} /\ step' = 0 /\ calls' = 0 /\ hasSpeed' = FALSE
    /\ UNCHANGED <<intent, plan>>

\* _selected_entity_resume_update, of a candidate of the level looked for.
Select ==
    /\ status = "WAITING_SELECTION" /\ ResumeAt("decide")
    /\ \E found \in FoundLevels(lookup.among) :
         who' = [action |-> "reuse", anchor |-> found, fuzzy |-> "none", resolved |-> found, selected |-> found]
    /\ lookup' = [status |-> "UNIQUE", among |-> "none"]
    /\ obs' = {} /\ UNCHANGED depth

\* An equipment chosen for its points: its own points remain to choose from.
SelectParent ==
    /\ status = "WAITING_SELECTION" /\ lookup.among = "point" /\ ResumeAt("wait")
    /\ who' = [action |-> "reuse", anchor |-> "equipment", fuzzy |-> "none", resolved |-> "none", selected |-> "none"]
    /\ obs' = {} /\ UNCHANGED <<depth, lookup>>

\* With the button the saved entity is kept, but not how it was resolved;
\* with a message in the same sense that is kept too.
ChooseDepth ==
    /\ status = "WAITING_CONFIRMATION" /\ ResumeAt("decide")
    /\ depth' \in {"quick", "detailed"}
    /\ \/ who' = [who EXCEPT !.action = "", !.anchor = "none"]
       \/ UNCHANGED who
    /\ UNCHANGED <<lookup, obs>>

AgentNext ==
    \/ Resolve \/ Decide \/ AskForDepth \/ Execute
    \/ Finalize \/ ResolutionFails \/ WaitForSelection
    \/ Select \/ SelectParent \/ ChooseDepth

AgentSpec == AgentInit /\ [][AgentNext]_agentVars

-----------------------------------------------------------------------------
(* Properties *)

\* The fields hold what the graph's state declares.
AgentTypeOK ==
    /\ intent \in Intent /\ depth \in {"unspecified", "quick", "detailed"}
    /\ place \in {"resolve", "decide", "execute", "finalize", "failure", "wait", "over"}
    /\ {who.anchor, who.fuzzy, who.resolved, who.selected} \subseteq Level
    /\ who.action \in {"", "none", "reuse", "replace"}
    /\ \A c \in plan : c.args \in {"recipe", "own", "other"} /\ c.level \in Level
    /\ step \in Nat /\ calls \in Nat /\ hops \in Nat /\ hasSpeed \in BOOLEAN

\* The loop of normal_react_decide and normal_react_execute ends by its own
\* bounds: no batch, however a model, a recipe or the completion gate fills it,
\* takes the calls of a run over normal_max_agent_calls, no call is run twice
\* (each took a signature of its own), and the graph never reaches LangGraph's
\* recursion limit, which would fail the turn without an answer.
StaysWithinBounds ==
    /\ calls + Cardinality(plan) <= MaxCalls /\ Cardinality(visited) = calls
    /\ step <= MaxSteps + 1 /\ hops <= RecursionLimit

\* What is expensive ran only in a turn whose user chose the detailed
\* analysis, whichever stage, recipe, gap plan or model asked for it and
\* however often the turn was suspended and resumed (requires_detailed in
\* normal_react_decide and in _execute_call); after "quick" no snapshot either.
DiagnosisIsAsked ==
    \A o \in obs : o.status # "REJECTED" =>
        /\ o.tool \in Expensive => depth = "detailed"
        /\ o.tool = "snapshot" => depth # "quick"

\* A run that has decided to end keeps the contract of its message.  Only an
\* ANSWERABLE verdict is held against it (_apply_completion_gate returns every
\* other one untouched): it has all the evidence the message needs, or the
\* message allows a partial answer, also at the loop's bounds, where a recipe
\* or the model ends the run, and where every call left was run before.  What
\* ends without an answer (CANNOT_ANSWER, NEED_USER_INPUT, and a draft with
\* NEED_MORE_EVIDENCE and no calls) is not asked for the contract, but it never
\* ends a run that acquired all the evidence; and a bound, which "is an internal
\* execution policy, not a user-facing business failure" (nodes.py:3155), never
\* turns down an answer the contract allows from what was acquired.
AnswersMeetContract ==
    place = "finalize" =>
        /\ verdict = "ANSWERABLE" => Missing = {} \/ intent.partial
        /\ GoalReached /\ ~IdentityFailed => verdict = "ANSWERABLE"
        /\ obs # {} /\ (step > MaxSteps \/ calls >= MaxCalls) /\ (Missing = {} \/ intent.partial)
             => verdict = "ANSWERABLE"

\* "The Asset point lookup is executed first; the next iteration sees the
\* resolved point and can issue the original MCP capability safely."
\* (nodes.py:3425, _repair_react_entity_capability_call)
PointIsSeen ==
    place = "decide" /\ lookup.status = "UNIQUE" /\ Seen("points", "SUCCESS") \in obs => Has("point")
=============================================================================
