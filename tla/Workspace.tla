------------------------------ MODULE Workspace ------------------------------
(***************************************************************************)
(* The evidence of one conversation: its topics, the hot ones among them,  *)
(* what its turns found and answered, and what came from what              *)
(* (EvidenceWorkspaceService with its two repositories).  A turn is placed *)
(* on a topic whenever it is executed, also when it resumes after a        *)
(* question; while it waits, turns of other branches may run, which share  *)
(* the topics.  A subject is the asset that its stable key names.          *)
(***************************************************************************)
EXTENDS Naturals, Sequences, SequencesExt, FiniteSetsExt

CONSTANTS Asset, NoAsset,
          MaxTurns,  \* bound: turns of the conversation
          MaxPlaced, \* bound: placings of turns on topics
          MaxFacts,  \* bound: pieces of evidence, a history's included
          MaxHistory \* bound: results in a history from before the topics

ASSUME WorkspaceAssumption ==
    /\ NoAsset \notin Asset
    /\ MaxTurns \in Nat \ {0} /\ MaxPlaced \in Nat \ {0} /\ MaxFacts \in Nat /\ MaxHistory \in Nat

Turn == 1 .. MaxTurns

VARIABLES
    topics,  \* primary_subject of each topic, in order of creation
    hot,     \* the context slots, the current topic first
    facts,   \* the evidence, in order of creation, each with its turn or 0
    anchor,  \* active_entity of the branch in use
    course,  \* each turn: where it is, what was decided, what it is about, the
             \* evidence it has an INPUT reference to until it ends
    placed   \* the topic of every activation so far

workspaceVars == <<topics, hot, facts, anchor, course, placed>>

Kind == {"reading", "diagnosis", "answer", "history"}
Unasked == [pc |-> "idle", action |-> "NEW_TOPIC", topic |-> 0, asset |-> FALSE,
            about |-> NoAsset, active |-> NoAsset, home |-> 0, homes |-> {}, inputs |-> {}]

\* The branch of an old conversation may have an active_entity already.
WorkspaceInit ==
    /\ topics = <<>> /\ hot = <<>> /\ facts = <<>> /\ anchor \in Asset \cup {NoAsset} /\ placed = <<>>
    /\ course = [t \in Turn |-> Unasked]

Free == \A t \in Turn : course[t].pc \notin {"ready", "active"}
First(a, b) == IF a # NoAsset THEN a ELSE b
Set(t, turn) == course' = [course EXCEPT ![t] = turn]

-----------------------------------------------------------------------------
(* prepare_context, and what the turn is understood to be *)

\* A conversation without topics gets one for its history, with the results found
\* there as evidence of no turn (0).  Their subject is the last of recent_entities
\* within its message's record, or empty: neither names an asset by a stable key,
\* and only with the empty one can a reading be superseded ("history" cannot).
Migrate(kinds) ==
    /\ topics = <<>> /\ Free
    /\ topics' = <<NoAsset>> /\ hot' = <<1>> /\ placed' = <<1>>
    /\ facts' = [i \in DOMAIN kinds |->
                   [kind |-> kinds[i], turn |-> 0, home |-> 1, subject |-> NoAsset, over |-> 0, parents |-> {}]]
    /\ UNCHANGED <<anchor, course>>

History == UNION {[1 .. n -> {"reading", "history"}] : n \in 0 .. MaxHistory}

Slot == [CONTINUE_CURRENT |-> 1, RESUME_PREVIOUS_1 |-> 2, RESUME_PREVIOUS_2 |-> 3]
Cold == DOMAIN topics \ ToSet(hot)

\* What the catalogues of topics offer: one of the hot ones by its slot, a cold
\* one by its id, or none.
Decisions ==
    {<<"NEW_TOPIC", 0>>} \cup {<<"RESUME_COLD_TOPIC", x>> : x \in Cold}
    \cup {<<s, hot[Slot[s]]>> : s \in {s \in DOMAIN Slot : Slot[s] <= Len(hot)}}

\* The turn's entity is found, or is not needed, or not found, or ambiguous.
AskTurn(t, decision, asset, a, pc) ==
    /\ course[t].pc = "idle" /\ Free /\ \A u \in 1 .. (t - 1) : course[u].pc # "idle"
    /\ ~asset => a = NoAsset /\ pc = "ready"
    /\ pc \in {"waiting", "unfound"} => a = NoAsset
    /\ Set(t, [Unasked EXCEPT !.pc = pc, !.action = decision[1], !.topic = decision[2],
                              !.asset = asset, !.about = a, !.active = anchor])
    /\ UNCHANGED <<topics, hot, facts, anchor, placed>>

-----------------------------------------------------------------------------
(* activate_turn *)

Target(turn) ==
    CASE turn.action = "NEW_TOPIC" -> 0
      [] turn.action \in DOMAIN Slot /\ Slot[turn.action] <= Len(hot) -> hot[Slot[turn.action]]
      [] OTHER -> turn.topic

\* _classification_subject: a new topic has the branch's asset only if the turn
\* asks for one.
Identity(turn) ==
    IF turn.action = "NEW_TOPIC" /\ ~turn.asset THEN NoAsset ELSE First(turn.about, turn.active)

\* A variant that forgets to take the topic out of its old slot.
InFrontTwice(x) == SubSeq(<<x>> \o hot, 1, IF Len(hot) < 2 THEN Len(hot) + 1 ELSE 3)

\* reorder_hot_topics
Others(x) ==
    LET slots == {i \in DOMAIN hot : hot[i] = x} IN
    IF slots = {} THEN hot ELSE RemoveAt(hot, CHOOSE i \in slots : TRUE)
InFront(x) == LET order == <<x>> \o Others(x) IN SubSeq(order, 1, IF Len(order) < 3 THEN Len(order) ELSE 3)

\* A variant that takes evidence of any topic.
UsableAny(x, a) == {i \in DOMAIN facts : a # NoAsset => facts[i].subject = a}

\* requirement_entry_satisfies
Usable(x, a) ==
    {i \in DOMAIN facts : facts[i].home = x /\ (a # NoAsset => facts[i].subject = a)}

\* Which of the evidence is needed, fresh and complete is open.
Place(t, x, a, action) ==
    /\ hot' = InFront(x) /\ placed' = Append(placed, x)
    /\ Len(placed) < MaxPlaced
    /\ \E reused \in SUBSET Usable(x, a) :
         Set(t, [course[t] EXCEPT !.pc = "active", !.action = action, !.home = x,
                                  !.homes = @ \cup {x}, !.inputs = @ \cup reused])
    /\ UNCHANGED <<facts, anchor>>

ActivateNew(t) ==
    /\ course[t].pc = "ready" /\ Target(course[t]) = 0
    /\ topics' = Append(topics, Identity(course[t]))
    /\ Place(t, Len(topics'), Identity(course[t]), "NEW_TOPIC")

ActivateOld(t) ==
    LET x == Target(course[t])
        a == First(Identity(course[t]), topics[x])
    IN /\ course[t].pc = "ready" /\ x # 0
       /\ topics' = [topics EXCEPT ![x] = a]
       /\ Place(t, x, a, course[t].action)

-----------------------------------------------------------------------------
(* The run goes on, and asks *)

\* An entity is looked up inside the loop.
LookEntityUp(t, a) ==
    /\ course[t].pc = "active"
    /\ Set(t, [course[t] EXCEPT !.about = a])
    /\ UNCHANGED <<topics, hot, facts, anchor, placed>>

\* Which entity is meant, or how deep the analysis shall be; the run ends and
\* its decisions are kept, without the topic.
Suspend(t) ==
    /\ course[t].pc = "active"
    /\ Set(t, [course[t] EXCEPT !.pc = "waiting", !.home = 0])
    /\ anchor' = First(course[t].about, anchor)
    /\ UNCHANGED <<topics, hot, facts, placed>>

\* The entity is chosen; or, where it is known, the depth.
ResumeTurn(t, a) ==
    /\ course[t].pc = "waiting" /\ Free
    /\ Set(t, [course[t] EXCEPT !.pc = "ready", !.about = a, !.active = anchor])
    /\ UNCHANGED <<topics, hot, facts, anchor, placed>>

-----------------------------------------------------------------------------
(* persist_turn *)

Same(k, a) == {i \in DOMAIN facts : facts[i].kind = k /\ facts[i].subject = a}

\* Evidence of one turn has one created_at: which of it is the latest is open.
Latest(k, a) == {i \in Same(k, a) : facts[i].turn = facts[Max(Same(k, a))].turn}

\* What a turn may have read, in order; it may have answered as well.
Results == {<<>>, <<"reading">>, <<"reading", "reading">>, <<"diagnosis">>, <<"reading", "diagnosis">>}

\* A variant that links every reading to the one before it.
SupersedesEach(t, results, i, old) == IF results[i] = "reading" THEN old ELSE 0

\* Only what may change is superseded, and not by evidence of the same turn.
Supersedes(t, results, i, old) ==
    IF results[i] = "reading" /\ \A j \in 1 .. (i - 1) : results[j] # "reading" THEN old ELSE 0

\* The INPUTs and what else the turn found.
Parents(t, results, i) ==
    IF results[i] = "reading" THEN {}
    ELSE course[t].inputs \cup {Len(facts) + j : j \in {j \in DOMAIN results \ {i} : results[j] # "answer"}}

Found(t, results, x, old) ==
    [i \in DOMAIN results |->
       [kind |-> results[i], turn |-> t, home |-> x,
        subject |-> IF results[i] = "answer" THEN IF x \in DOMAIN topics THEN topics[x] ELSE NoAsset
                    ELSE First(course[t].about, course[t].active),
        over |-> Supersedes(t, results, i, old), parents |-> Parents(t, results, i)]]

\* The turn ends on topic x; clears says that it named an asset in vain.
EndOn(t, x, results, clears) ==
    LET a == First(course[t].about, course[t].active)
        before == Latest("reading", a)
    IN /\ \E old \in IF Same("reading", a) = {} THEN {0} ELSE before :
            facts' = facts \o Found(t, results, x, old)
       /\ anchor' = IF clears THEN NoAsset ELSE First(course[t].about, anchor)
       /\ Set(t, [Unasked EXCEPT !.pc = "done", !.homes = course[t].homes])

Ends(t, results, clears) ==
    /\ course[t].pc \in {"active", "unfound"}
    /\ Len(facts) + Len(results) <= MaxFacts
    /\ course[t].pc = "unfound" => results \in {<<>>, <<"answer">>}
    /\ clears => course[t].asset /\ course[t].about = NoAsset

\* A turn that was not placed, because its entity was not found, is kept with
\* the current topic.
PersistTurn(t, results, clears) ==
    LET x == IF course[t].home # 0 THEN course[t].home ELSE hot[1]
    IN /\ Ends(t, results, clears)
       /\ course[t].home # 0 \/ hot # <<>>
       /\ topics' = [topics EXCEPT ![x] = First(course[t].about, @)]
       /\ EndOn(t, x, results, clears)
       /\ UNCHANGED <<hot, placed>>

PersistFirst(t, results, clears) ==
    /\ Ends(t, results, clears) /\ course[t].home = 0 /\ hot = <<>>
    /\ Len(placed) < MaxPlaced
    /\ topics' = Append(topics, course[t].about)
    /\ hot' = <<Len(topics')>> /\ placed' = Append(placed, Len(topics'))
    /\ EndOn(t, Len(topics'), results, clears)

-----------------------------------------------------------------------------
\* Where the turn is stands before the choices, too: TLC then tries fewer.
TurnStep(t) ==
    \/ course[t].pc = "idle" /\
         \E decision \in Decisions, asset \in BOOLEAN, a \in Asset \cup {NoAsset},
            pc \in {"ready", "waiting", "unfound"} : AskTurn(t, decision, asset, a, pc)
    \/ ActivateNew(t) \/ ActivateOld(t) \/ Suspend(t)
    \/ \E a \in Asset : LookEntityUp(t, a) \/ ResumeTurn(t, a)
    \/ course[t].pc \in {"active", "unfound"} /\
         \E found \in Results, answer \in {<<>>, <<"answer">>}, clears \in BOOLEAN :
            PersistTurn(t, found \o answer, clears) \/ PersistFirst(t, found \o answer, clears)

WorkspaceNext == (\E kinds \in History : Migrate(kinds)) \/ \E t \in Turn : TurnStep(t)

WorkspaceSpec == WorkspaceInit /\ [][WorkspaceNext]_workspaceVars

-----------------------------------------------------------------------------
WorkspaceTypeOK ==
    /\ topics \in Seq(Asset \cup {NoAsset}) /\ anchor \in Asset \cup {NoAsset}
    /\ ToSet(hot) \cup ToSet(placed) \subseteq DOMAIN topics
    /\ \A t \in Turn : course[t].inputs \subseteq DOMAIN facts /\ course[t].homes \subseteq DOMAIN topics
    /\ \A i \in DOMAIN facts : facts[i].kind \in Kind /\ facts[i].home \in DOMAIN topics

LastPlaced(x) == Max({j \in DOMAIN placed : placed[j] = x})

(***************************************************************************)
(* Whatever turns wait, resume and end in between: the hot topics are the  *)
(* three a turn was placed on last, each once, in that order; a reading is *)
(* superseded by at most one, of a later turn and of the same asset; and   *)
(* what a turn derives is not derived from itself and, where the turn was  *)
(* placed on one topic only, comes from that topic alone (activate_turn,   *)
(* persist_turn, EvidenceRepository).                                      *)
(***************************************************************************)
WorkspaceIsSound ==
    /\ \A i, j \in DOMAIN hot : i < j => LastPlaced(hot[i]) > LastPlaced(hot[j])
    /\ \A x \in ToSet(placed) \ ToSet(hot) :
         Len(hot) = 3 /\ \A i \in DOMAIN hot : LastPlaced(hot[i]) > LastPlaced(x)
    /\ \A i \in DOMAIN facts : facts[i].over # 0 =>
         /\ facts[i].over < i /\ facts[facts[i].over].turn # facts[i].turn
         /\ facts[facts[i].over].subject = facts[i].subject
         /\ \A j \in DOMAIN facts : facts[j].over = facts[i].over => j = i
    /\ \A i \in DOMAIN facts : \A j \in facts[i].parents :
         /\ j # i
         /\ Cardinality(course[facts[i].turn].homes) = 1 => facts[j].home = facts[i].home

\* "Saving these model decisions keeps the resumed attempt deterministic"
\* (generation_worker.py:689, _cache_selection_resume_state): a turn that
\* resumes continues on the topic it was placed on.
ResumedOnSameTopic == \A t \in Turn : \A x, y \in course[t].homes : x = y
=============================================================================
