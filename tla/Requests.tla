------------------------------ MODULE Requests ------------------------------
(***************************************************************************)
(* One request of a client, sent any number of times under one idempotency *)
(* key: IdempotencyGuard, and GenerationService.send around the            *)
(* transaction that commits a turn.  The guard's record lives in Redis and *)
(* expires; what it guards is in the database.                             *)
(***************************************************************************)
EXTENDS FiniteSets

CONSTANTS Call,    \* HTTP calls that carry the key
          Altered, \* those whose content differs from the others'
          None

ASSUME RequestsAssumption ==
    /\ Altered \subseteq Call /\ None \notin Call
    /\ None \notin [owner : Call, accepted : BOOLEAN]

VARIABLES
    claim,  \* the Redis record of the key, or None
    pc,     \* where each call is
    answer, \* the call whose task a call was answered with
    fresh,  \* the request names no conversation: each call makes its own
    tasks,  \* calls whose generation task was committed
    lost    \* calls whose claim expired, or was given up after their commit

requestVars == <<claim, pc, answer, fresh, tasks, lost>>

RequestsInit ==
    /\ claim = None /\ pc = [c \in Call |-> "idle"] /\ answer = [c \in Call |-> None]
    /\ fresh \in BOOLEAN /\ tasks = {} /\ lost = {}

Goto(c, place) == pc' = [pc EXCEPT ![c] = place]
Claimed(c) == [owner |-> c, accepted |-> FALSE]

-----------------------------------------------------------------------------
\* SET NX; where the key is set, it is read in a second command.
Begin(c) ==
    /\ pc[c] = "idle"
    /\ \/ claim = None /\ claim' = Claimed(c) /\ Goto(c, "sending")
       \/ claim # None /\ Goto(c, "reading") /\ UNCHANGED claim
    /\ UNCHANGED <<answer, fresh, tasks, lost>>

SameContent(c, d) == (c \in Altered) = (d \in Altered)

Accepted(c) == claim # None /\ claim.accepted /\ SameContent(c, claim.owner)

Replay(c) ==
    /\ pc[c] = "reading" /\ Accepted(c)
    /\ answer' = [answer EXCEPT ![c] = claim.owner] /\ Goto(c, "answered")
    /\ UNCHANGED <<claim, fresh, tasks, lost>>

\* The record is gone, of other content, or not accepted yet.
Refuse(c) ==
    /\ pc[c] = "reading" /\ ~Accepted(c)
    /\ Goto(c, "refused")
    /\ UNCHANGED <<claim, answer, fresh, tasks, lost>>

\* uq_task_idempotency refuses a second task of the key in one conversation.
Commit(c) ==
    /\ pc[c] = "sending"
    /\ fresh \/ tasks = {}
    /\ tasks' = tasks \cup {c} /\ Goto(c, "committed")
    /\ UNCHANGED <<claim, answer, fresh, lost>>

\* A limit, a check, the index or the database ends the transaction.
FailSend(c) ==
    /\ pc[c] = "sending"
    /\ Goto(c, "aborting")
    /\ UNCHANGED <<claim, answer, fresh, tasks, lost>>

\* A publish that raises where there is no outbox, or a cancelled call.
FailCommitted(c) ==
    /\ pc[c] = "committed"
    /\ lost' = lost \cup {c} /\ Goto(c, "aborting")
    /\ UNCHANGED <<claim, answer, fresh, tasks>>

Holds(c) == claim # None /\ claim.owner = c

\* Writes only over the call's own claim; its failure is suppressed.
Finish(c) ==
    /\ pc[c] = "committed"
    /\ claim' \in {claim, IF Holds(c) THEN [owner |-> c, accepted |-> TRUE] ELSE claim}
    /\ answer' = [answer EXCEPT ![c] = c] /\ Goto(c, "answered")
    /\ UNCHANGED <<fresh, tasks, lost>>

\* A variant that deletes whatever claim is there.
AbortAny(c) ==
    /\ pc[c] = "aborting"
    /\ claim' = None /\ Goto(c, "refused")
    /\ UNCHANGED <<answer, fresh, tasks, lost>>

\* Deletes only the call's own claim; where that fails, the claim expires.
Abort(c) ==
    /\ pc[c] = "aborting"
    /\ claim' \in {claim, IF Holds(c) THEN None ELSE claim}
    /\ Goto(c, "refused")
    /\ UNCHANGED <<answer, fresh, tasks, lost>>

CrashCall(c) ==
    /\ pc[c] \in {"sending", "committed", "aborting"}
    /\ Goto(c, "dead")
    /\ UNCHANGED <<claim, answer, fresh, tasks, lost>>

\* task_context_ttl_seconds pass.
ExpireClaim ==
    /\ claim # None
    /\ claim' = None /\ lost' = lost \cup {claim.owner}
    /\ UNCHANGED <<pc, answer, fresh, tasks>>

RequestsNext ==
    \/ \E c \in Call : \/ Begin(c) \/ Replay(c) \/ Refuse(c) \/ Commit(c) \/ FailSend(c)
                       \/ FailCommitted(c) \/ Finish(c) \/ Abort(c) \/ CrashCall(c)
    \/ ExpireClaim

RequestsSpec == RequestsInit /\ [][RequestsNext]_requestVars

-----------------------------------------------------------------------------
\* Every variable holds a value of its type, a claim belongs to a call that won
\* it, and an accepted one to a call that committed.
RequestsTypeOK ==
    /\ claim \in [owner : Call, accepted : BOOLEAN] \cup {None}
    /\ pc \in [Call -> {"idle", "reading", "sending", "committed", "aborting",
                         "answered", "refused", "dead"}]
    /\ claim # None => pc[claim.owner] \notin {"idle", "reading"}
    /\ claim # None /\ claim.accepted => claim.owner \in tasks
    /\ answer \in [Call -> Call \cup {None}] /\ fresh \in BOOLEAN
    /\ tasks \subseteq Call /\ lost \subseteq Call

(***************************************************************************)
(* However often the client sends a request again, an existing             *)
(* conversation gets one task for it, and where each call makes a new      *)
(* conversation, all tasks but one are of calls whose claim had expired or *)
(* was given up after the commit; who is answered is told of a committed   *)
(* task of the same content.                                               *)
(***************************************************************************)
OneTaskPerRequest ==
    /\ \A c, d \in tasks : c = d \/ (fresh /\ {c, d} \cap lost # {})
    /\ \A c \in Call : answer[c] # None => answer[c] \in tasks /\ SameContent(c, answer[c])
=============================================================================
