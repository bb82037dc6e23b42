----------------------------- MODULE Supervisor -----------------------------
(***************************************************************************)
(* What the supervisor of one turn answers when it is asked for the next   *)
(* step: the state of the turn's graph, the entity the turn is about, the  *)
(* recipes, next_react_action with its stages, and the completion          *)
(* contract.  Agent.tla has the nodes of the graph.                        *)
(*                                                                         *)
(* A message is what task understanding made of it (an intent); an entity  *)
(* is the level it identifies; a model may answer anything of its form.    *)
(***************************************************************************)
EXTENDS Naturals, Sequences, FiniteSets

CONSTANTS Intent,       \* what task understanding may return
          Offered,      \* the tools the model may call of its own accord
          MaxSteps,     \* normal_max_execution_steps
          MaxCalls,     \* normal_max_agent_calls
          MaxParallel   \* normal_max_parallel_calls

ASSUME BoundsAssumption ==
    MaxSteps \in Nat /\ MaxSteps >= 2 /\ MaxCalls \in Nat \ {0} /\ MaxParallel \in Nat \ {0}
\* The schema of a task understanding (workflows/contracts.py) fixes the depths.
ASSUME IntentAssumption == \A i \in Intent : i.depth \in {"unspecified", "quick", "detailed"}

VARIABLES
    place,   \* the node of the graph that runs next
    intent, depth,   \* business_intent, and the turn's analysis depth
    who,     \* entity_resolution, resolved_entity, selected_entity, the last fuzzy result
    lookup,  \* entity_result: its status, and the level of its candidates
    obs,     \* observations, each a tool with its status
    hasSpeed, \* whether a reliable speed was read
    visited, \* visited_actions
    plan,    \* next_calls
    verdict, \* the type of supervisor_verdict
    step, calls,   \* current_step, agent_call_count
    hops,    \* nodes of the graph run so far (LangGraph's super-steps)
    status   \* final_status

agentVars == <<place, intent, depth, who, lookup, obs, hasSpeed, visited, plan,
               verdict, step, calls, hops, status>>

Level == {"none", "equipment", "point"}
Or(a, b) == IF a # "none" THEN a ELSE b

-----------------------------------------------------------------------------
(* The entity of this turn, and the calls *)

\* After a replace, only what a lookup of this turn found counts.
CurrentEntity ==
    CASE who.selected # "none" -> who.selected
      [] who.selected = "none" /\ who.action = "reuse" -> Or(who.anchor, who.resolved)
      [] who.selected = "none" /\ who.action = "replace" -> who.fuzzy
      [] OTHER -> Or(IF who.action = "none" THEN who.fuzzy ELSE "none", who.resolved)

Has(need) == need = "none" \/ CurrentEntity = need \/ CurrentEntity = "point"

DataTools == {"alarm", "health", "snapshot", "deviceData"}
DiagnosisTools == {"diagnosePoint", "diagnoseDevice"}
Batches == {"dataBatch", "rpmBatch", "diagnosisBatch"}

Need(t) == CASE t \in {"snapshot", "rpm", "diagnosePoint"} -> "point"
             [] t \in {"fuzzy", "knowledge", "query", "several", "content"} -> "none"
             [] OTHER -> "equipment"

\* A call; args tells a recipe's arguments, the supervisor's own, and others a
\* model gave the same tool.
ToolCall(t, level, args) == [tool |-> t, level |-> level, args |-> args]
Own(t) == ToolCall(t, Need(t), "own")
Locate(level) == ToolCall("fuzzy", level, "own")
DownDrill == ToolCall("points", "equipment", "own")

Attempted(t) == \E o \in obs : o.tool = t
Done(t) == \E o \in obs : o.tool = t /\ o.status = "SUCCESS"
Broken == {"FAILED", "NEEDS_INPUT", "REJECTED"}

IdentityFailed == lookup.status = "ERROR"

-----------------------------------------------------------------------------
(* Analysis depth: diagnosis_choice.py *)

Expensive == {"rpm"} \cup DiagnosisTools \cup Batches

\* A variant: the batches count as ordinary reads.
RequiresDetailedNotBatches(c) ==
    c.tool \in Expensive \ Batches \/ (depth = "quick" /\ c.tool = "snapshot")

\* requires_detailed
RequiresDetailed(c) ==
    c.tool \in Expensive \/ (depth = "quick" /\ c.tool = "snapshot")

\* apply_depth: a quick assessment has no diagnosis and no recipe.
Asks == intent.asks /\ depth # "quick"
Variant == IF depth = "quick" THEN "none" ELSE intent.variant
Recipe == IF intent.recommended THEN Variant ELSE "none"
ConfirmationRequired == (Asks \/ Variant # "none") /\ depth = "unspecified"

-----------------------------------------------------------------------------
(* Verdicts, evidence and recipes *)

Verdict(type, cs) == [type |-> type, calls |-> cs]
Silent == Verdict("none", <<>>)
Answerable == Verdict("ANSWERABLE", <<>>)
Cannot == Verdict("CANNOT_ANSWER", <<>>)
AskUser == Verdict("NEED_USER_INPUT", <<>>)
More(cs) == Verdict("NEED_MORE_EVIDENCE", cs)

Producers == [alarm |-> {"alarm"}, health |-> {"health"}, asset |-> {"info", "points", "catalog"},
              vibration |-> {"deviceData", "snapshot"},
              diagnosis_result |-> DiagnosisTools \cup {"diagnosisBatch"}]
Missing == {e \in intent.evidence : \A t \in Producers[e] : ~Done(t)}

\* The steps in order, each after the one before it.
Steps == CASE Recipe = "point" -> <<"snapshot", "rpm", "diagnosePoint">>
           [] Recipe = "device" -> <<"catalog", "dataBatch", "rpmBatch", "diagnosisBatch">>
           [] OTHER -> <<>>
Continues(t) == t \in {"rpm", "rpmBatch"}   \* failure_policy "continue"
Of(t) == {o.status : o \in {p \in obs : p.recipe /\ p.tool = t}}

ReadyStep(i) ==
    /\ Of(Steps[i]) = {}
    /\ i > 1 => LET before == Of(Steps[i - 1]) IN
                  "SUCCESS" \in before \/ (before # {} /\ Continues(Steps[i - 1]))
NextRecipeCalls ==
    LET ready == {i \in DOMAIN Steps : ReadyStep(i)} IN
    IF ready = {} THEN <<>>
    ELSE LET t == Steps[CHOOSE i \in ready : TRUE] IN <<ToolCall(t, Need(t), "recipe")>>
HardFailed == \E i \in DOMAIN Steps : ~Continues(Steps[i]) /\ Of(Steps[i]) \cap Broken # {}

-----------------------------------------------------------------------------
(* next_react_action: the stages in order, each with a verdict or silent *)

\* The verdict of the first that is not silent.
FirstSaid(vs) ==
    LET said == {i \in DOMAIN vs : vs[i] # Silent} IN
    IF said = {} THEN Silent ELSE vs[CHOOSE i \in said : \A j \in said : i <= j]

LocateFirst(level) == IF lookup.status = "NOT_FOUND" THEN AskUser ELSE More(<<Locate(level)>>)

\* Structured queries and queries about several targets run once.
OneShot(t) ==
    IF t \notin intent.wants THEN Silent
    ELSE IF Attempted(t) THEN Answerable ELSE More(<<Own(t)>>)

Explain ==
    IF "content" \notin intent.wants THEN Silent
    ELSE IF Done("content") THEN Answerable ELSE More(<<Own("content")>>)

GoalReached == intent.evidence # {} /\ Missing = {}

Overview ==
    LET ask(t) == IF Attempted(t) THEN <<>> ELSE <<Own(t)>>
        left == ask("info") \o ask("health") \o ask("alarm") IN
    IF "overview" \notin intent.wants THEN Silent
    ELSE IF ~Has("equipment") THEN LocateFirst("equipment")
    ELSE IF left = <<>> THEN Silent
    ELSE More(left)

\* One tool the question names, tried again until `over`.
Single(t, over, locating) ==
    IF t \notin intent.wants \/ over THEN Silent
    ELSE IF ~Has(Need(t)) THEN locating ELSE More(<<Own(t)>>)

\* _execution_requires_diagnosis
DiagnosisDue == Recipe # "none" \/ (Asks /\ intent.sure)
Prerequisite(t) == IF t = "diagnosePoint" THEN "snapshot" ELSE "deviceData"

Diagnosis ==
    LET t == IF Variant = "point" THEN "diagnosePoint" ELSE "diagnoseDevice"
        input == Prerequisite(t)
    IN  IF ~DiagnosisDue \/ Done(t) THEN Silent
        ELSE IF ~Has(Need(t)) THEN More(<<Locate(Need(t))>>)
        ELSE IF ~Done(input)
          THEN IF \E o \in obs : o.tool = input /\ o.status \in Broken \ {"REJECTED"}
               THEN AskUser ELSE More(<<Own(input)>>)
        ELSE IF t = "diagnosePoint" /\ ~hasSpeed /\ ~Attempted("rpm") THEN More(<<Own("rpm")>>)
        ELSE More(<<Own(t)>>)

\* What a call of the model has to wait for.  Its diagnoses, a device's too,
\* first ask for a point.
Before(c) ==
    LET input == IF c.tool \in DiagnosisTools THEN Prerequisite(c.tool) ELSE "snapshot" IN
    IF c.tool \in DiagnosisTools \cup {"rpm"} /\ ~Done(input)
      THEN More(<<IF Has("point") THEN Own(input) ELSE Locate("point")>>)
    ELSE IF c.tool = "diagnosePoint" /\ ~hasSpeed THEN More(<<Own("rpm")>>)
    ELSE IF c.tool \notin DiagnosisTools \cup Batches /\ ~Has(c.level) THEN LocateFirst(c.level)
    ELSE Silent

Checked(cs) ==
    LET waits == FirstSaid([i \in DOMAIN cs |-> Before(cs[i])]) IN
    IF waits = Silent THEN More(cs) ELSE waits

\* One or two calls, or a draft with any verdict.
ModelCalls == {ToolCall(t, Need(t), a) : t \in Offered, a \in {"own", "other"}}
Model ==
    {Checked(<<c>>) : c \in ModelCalls} \cup {Checked(<<c, d>>) : c, d \in ModelCalls}
      \cup {Answerable, Cannot, AskUser, More(<<>>)}

NextReactAction ==
    LET settled == FirstSaid(
            <<OneShot("query"), OneShot("several"), Explain,
              IF IdentityFailed THEN Cannot ELSE Silent,
              IF GoalReached THEN Answerable ELSE Silent,
              Overview,
              Single("info", Done("info"), LocateFirst("equipment")),
              Single("alarm", Attempted("alarm"), LocateFirst("equipment")),
              Single("health", Done("health"), More(<<Locate("equipment")>>)),
              Diagnosis>>)
    IN  IF settled = Silent THEN Model ELSE {settled}

-----------------------------------------------------------------------------
(* The completion contract *)

\* plan_completion_gap: the only producer of what is missing, or what the
\* model picks, or nothing.
GapCalls ==
    LET barred == IF DiagnosisDue THEN {} ELSE DiagnosisTools \cup {"rpm"}
        able == UNION {Producers[e] : e \in Missing} \ barred
    IN  IF Cardinality(able) = 1 THEN {<<Own(t)>> : t \in able}
        ELSE {<<>>} \cup {<<Own(t)>> : t \in able \cup (Offered \ (barred \cup {"knowledge"}))}

\* A variant: at a bound, or when all calls are repeats, the contract is not asked.
GateWhenPlanning(v, allowGapPlan) ==
    IF v.type # "ANSWERABLE" \/ Missing = {} \/ ~allowGapPlan THEN {v}
    ELSE {IF cs # <<>> THEN More(cs) ELSE IF intent.partial THEN v ELSE Cannot : cs \in GapCalls}

\* _apply_completion_gate
Gate(v, allowGapPlan) ==
    IF v.type # "ANSWERABLE" \/ Missing = {} THEN {v}
    ELSE {IF cs # <<>> THEN More(cs) ELSE IF intent.partial THEN v ELSE Cannot
            : cs \in IF allowGapPlan THEN GapCalls ELSE {<<>>}}
=============================================================================
